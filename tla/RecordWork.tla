------------------------------ MODULE RecordWork ------------------------------
(***************************************************************************)
(* The consumer side of one Kafka partition as every Raggy service runs    *)
(* it: the Start loop of the three Runners (poll a batch, handle its       *)
(* records one by one, allow the group to rebalance) around                *)
(* kafkawork.ProcessRecord (retry the handler, then retry the commit).     *)
(*                                                                         *)
(* The partition is the sequence of offsets 1..NumRecords, all present     *)
(* from the start; committed is the number of records the group has        *)
(* committed.  What a handler does is left to the other modules: here an   *)
(* attempt succeeds, is rejected with InvalidInput, or fails.              *)
(***************************************************************************)
EXTENDS Integers, FiniteSets

CONSTANTS
  Members,          \* the consumers of the group
  NumRecords,       \* the records of the partition
  MaxPollRecords,   \* the largest batch PollRecords returns
  Invalid,          \* the records a handler answers InvalidInput for
  MaxInterruptions, \* bound on shutdowns, crashes and session timeouts
  None              \* nobody owns the partition

Records == 1..NumRecords

ASSUME RecordWorkAssumption ==
  /\ NumRecords \in Nat
  /\ MaxPollRecords \in Nat \ {0}
  /\ MaxInterruptions \in Nat
  /\ Invalid \subseteq Records
  /\ None \notin Members

VARIABLES
  committed,     \* the offset the broker holds for the group
  owner,         \* the member the broker has assigned the partition to
  pc,            \* where each member is in Start and ProcessRecord
  cur,           \* the record in hand, or the last one handled when polling
  last,          \* the last record of the batch in hand
  settled,       \* history: the records some handler finished or rejected
  handled,       \* history: how often each record was settled
  interruptions  \* history: shutdowns, crashes and session timeouts so far

vars == <<committed, owner, pc, cur, last, settled, handled, interruptions>>

(* "process" and "commit" are the two loops of ProcessRecord; the waits    *)
(* are its one-second timer.                                               *)
Phases == {"down", "poll", "process", "processWait", "commit", "commitWait"}

Init ==
  /\ committed = 0
  /\ owner = None
  /\ pc = [m \in Members |-> "poll"]
  /\ cur = [m \in Members |-> 0]
  /\ last = [m \in Members |-> 0]
  /\ settled = {}
  /\ handled = [r \in Records |-> 0]
  /\ interruptions = 0

-----------------------------------------------------------------------------
Goto(m, from, to) ==
  /\ pc[m] = from
  /\ pc' = [pc EXCEPT ![m] = to]

(* A stopped service is started again; its Runner begins to poll.          *)
Start(m) ==
  /\ Goto(m, "down", "poll")
  /\ UNCHANGED <<committed, owner, cur, last, settled, handled, interruptions>>

(* The broker assigns the free partition; the member resumes at the        *)
(* committed offset.  BlockRebalanceOnPoll: only between two batches.      *)
Assign(m) ==
  /\ owner = None
  /\ pc[m] = "poll"
  /\ owner' = m
  /\ cur' = [cur EXCEPT ![m] = committed]
  /\ UNCHANGED <<committed, pc, last, settled, handled, interruptions>>

PollPastEnd(m) ==
  /\ owner = m
  /\ cur[m] <= NumRecords
  /\ Goto(m, "poll", "process")
  /\ last' = [last EXCEPT ![m] = cur[m] + 1]
  /\ cur' = [cur EXCEPT ![m] = @ + 1]
  /\ UNCHANGED <<committed, owner, settled, handled, interruptions>>

(* PollRecords returns between one and MaxPollRecords records.             *)
PollRecords(m) ==
  /\ owner = m
  /\ cur[m] < NumRecords
  /\ Goto(m, "poll", "process")
  /\ \E l \in cur[m] + 1 .. NumRecords :
       /\ l <= cur[m] + MaxPollRecords
       /\ last' = [last EXCEPT ![m] = l]
  /\ cur' = [cur EXCEPT ![m] = @ + 1]
  /\ UNCHANGED <<committed, owner, settled, handled, interruptions>>

Settle(r) ==
  /\ settled' = settled \cup {r}
  /\ handled' = [handled EXCEPT ![r] = @ + 1]

(* The handler returns nil.                                                *)
ProcessSucceeds(m) ==
  /\ cur[m] \notin Invalid
  /\ Goto(m, "process", "commit")
  /\ Settle(cur[m])
  /\ UNCHANGED <<committed, owner, cur, last, interruptions>>

(* The handler returns InvalidInput and the record is rejected.            *)
RejectStillRetries(m) ==
  /\ cur[m] \in Invalid
  /\ Goto(m, "process", "processWait")
  /\ UNCHANGED <<committed, owner, cur, last, settled, handled, interruptions>>

Reject(m) ==
  /\ cur[m] \in Invalid
  /\ Goto(m, "process", "commit")
  /\ Settle(cur[m])
  /\ UNCHANGED <<committed, owner, cur, last, interruptions>>

(* The handler returns any other error: wait one second, try again.        *)
ProcessFailsThenCommits(m) ==
  /\ cur[m] \notin Invalid
  /\ Goto(m, "process", "commit")
  /\ UNCHANGED <<committed, owner, cur, last, settled, handled, interruptions>>

ProcessFails(m) ==
  /\ cur[m] \notin Invalid
  /\ Goto(m, "process", "processWait")
  /\ UNCHANGED <<committed, owner, cur, last, settled, handled, interruptions>>

RetryProcess(m) ==
  /\ Goto(m, "processWait", "process")
  /\ UNCHANGED <<committed, owner, cur, last, settled, handled, interruptions>>

(* The broker accepts a commit from the partition's owner only; after it   *)
(* the Start loop takes the next record of the batch or polls again.       *)
CommitSucceedsUnfenced(m) ==
  /\ committed' = cur[m]
  /\ IF cur[m] = last[m]
     THEN Goto(m, "commit", "poll") /\ UNCHANGED cur
     ELSE Goto(m, "commit", "process") /\ cur' = [cur EXCEPT ![m] = @ + 1]
  /\ UNCHANGED <<owner, last, settled, handled, interruptions>>

CommitSucceeds(m) ==
  /\ owner = m
  /\ committed' = cur[m]
  /\ IF cur[m] = last[m]
     THEN Goto(m, "commit", "poll") /\ UNCHANGED cur
     ELSE Goto(m, "commit", "process") /\ cur' = [cur EXCEPT ![m] = @ + 1]
  /\ UNCHANGED <<owner, last, settled, handled, interruptions>>

(* The commit fails, or it is applied and the answer is lost.              *)
CommitFailsThenReprocesses(m) ==
  /\ Goto(m, "commit", "processWait")
  /\ \/ owner = m /\ committed' = cur[m]
     \/ UNCHANGED committed
  /\ UNCHANGED <<owner, cur, last, settled, handled, interruptions>>

CommitFails(m) ==
  /\ Goto(m, "commit", "commitWait")
  /\ \/ owner = m /\ committed' = cur[m]
     \/ UNCHANGED committed
  /\ UNCHANGED <<owner, cur, last, settled, handled, interruptions>>

RetryCommit(m) ==
  /\ Goto(m, "commitWait", "commit")
  /\ UNCHANGED <<committed, owner, cur, last, settled, handled, interruptions>>

(* Shutdown (the context is cancelled, every loop returns, the client      *)
(* leaves the group) or a crash.                                           *)
Stop(m) ==
  /\ pc[m] # "down"
  /\ interruptions < MaxInterruptions
  /\ interruptions' = interruptions + 1
  /\ pc' = [pc EXCEPT ![m] = "down"]
  /\ owner' = IF owner = m THEN None ELSE owner
  /\ UNCHANGED <<committed, cur, last, settled, handled>>

(* The session timeout expires while the member is stalled: the broker     *)
(* takes the partition back, the member goes on with the record in hand.   *)
SessionTimeout(m) ==
  /\ owner = m
  /\ interruptions < MaxInterruptions
  /\ interruptions' = interruptions + 1
  /\ owner' = None
  /\ UNCHANGED <<committed, pc, cur, last, settled, handled>>

Step(m) ==
  \/ Start(m)
  \/ Assign(m)
  \/ PollRecords(m)
  \/ ProcessSucceeds(m)
  \/ Reject(m)
  \/ ProcessFails(m)
  \/ RetryProcess(m)
  \/ CommitSucceeds(m)
  \/ CommitFails(m)
  \/ RetryCommit(m)
  \/ Stop(m)
  \/ SessionTimeout(m)

Next == \E m \in Members : Step(m)

Spec == Init /\ [][Next]_vars

(* The Go scheduler runs every ready goroutine and the one-second timer    *)
(* fires; the broker assigns a free partition.  A transient failure is     *)
(* one that does not last: a handler or a commit attempted for ever        *)
(* succeeds (strong fairness).  Nothing restarts a stopped service.        *)
Fairness ==
  /\ WF_vars(\E m \in Members : Assign(m))
  /\ \A m \in Members :
       /\ WF_vars(PollRecords(m))
       /\ WF_vars(Reject(m))
       /\ WF_vars(RetryProcess(m))
       /\ WF_vars(RetryCommit(m))
       /\ SF_vars(ProcessSucceeds(m))
       /\ SF_vars(CommitSucceeds(m))

FairSpec == Spec /\ Fairness

-----------------------------------------------------------------------------
TypeOK ==
  /\ committed \in 0..NumRecords
  /\ owner \in Members \cup {None}
  /\ pc \in [Members -> Phases]
  /\ cur \in [Members -> 0..NumRecords]
  /\ last \in [Members -> 0..NumRecords]
  /\ settled \subseteq Records
  /\ handled \in [Records -> Nat]
  /\ interruptions \in 0..MaxInterruptions

(* "ProcessRecord never commits past failed work" (record.go:18): every    *)
(* record up to the committed offset was finished or explicitly rejected   *)
(* by some handler, whatever members stopped, stalled or shared the work.  *)
NoCommitPastFailedWork == 1..committed \subseteq settled

(* The group's offset never moves back, not even when a member that lost   *)
(* the partition answers late (ProcessRecord's commit loop, record.go:37). *)
CommitNeverRewinds == [][committed' >= committed]_committed

(* "Commit retries do not repeat processing" (record.go:19): a record is   *)
(* handled again only because a member was stopped or lost the partition,  *)
(* once per interruption, and never because a commit failed.               *)
RedeliveryNeedsInterruption ==
  \A r \in Records : handled[r] <= 1 + interruptions

(* A member that can do no more work for the group: it is down, or it lost *)
(* the partition in the middle of a batch.  BlockRebalanceOnPoll keeps the *)
(* latter out of the next assignment until its batch ends, and its commit  *)
(* can no longer succeed.                                                  *)
OutOfService(m) ==
  \/ pc[m] = "down"
  \/ owner # m /\ pc[m] # "poll"

(* Every record is eventually committed unless the whole group goes out of *)
(* service (the loops of Start and ProcessRecord).                         *)
EveryRecordCommitted ==
  \/ <>(committed = NumRecords)
  \/ <>[](\A m \in Members : OutOfService(m))
===============================================================================
