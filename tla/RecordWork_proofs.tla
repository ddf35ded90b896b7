-------------------------- MODULE RecordWork_proofs --------------------------
(***************************************************************************)
(* Proofs about RecordWork, for every group of members, partition length,  *)
(* batch size and number of interruptions.                                 *)
(***************************************************************************)
EXTENDS RecordWork, FiniteSetTheorems, TLAPS

InProcess(m) == pc[m] \in {"process", "processWait"}
InCommit(m) == pc[m] \in {"commit", "commitWait"}

(* A record about to be committed has been settled.                        *)
CommitsSettled == \A m \in Members : InCommit(m) => cur[m] \in settled

(* Wherever the owner is, the record in hand is the first uncommitted one, *)
(* or the last committed one while the commit's answer is outstanding.     *)
OwnerFollowsCommit ==
  \A m \in Members :
    owner = m =>
      /\ pc[m] = "poll" => cur[m] = committed
      /\ InProcess(m) => cur[m] = committed + 1
      /\ InCommit(m) => cur[m] \in {committed, committed + 1}
      /\ pc[m] # "down"

(* The record in hand lies inside the batch.                               *)
InsideBatch == \A m \in Members : InProcess(m) \/ InCommit(m) => cur[m] \in 1..last[m]

IInv ==
  /\ TypeOK
  /\ NoCommitPastFailedWork
  /\ CommitsSettled
  /\ OwnerFollowsCommit
  /\ InsideBatch

LEMMA InitIInv == Init => IInv
  BY RecordWorkAssumption
  DEF Init, IInv, TypeOK, NoCommitPastFailedWork, CommitsSettled,
      OwnerFollowsCommit, InsideBatch, InProcess, InCommit, Records, Phases

(* Ending the handler of a record, whatever the verdict.                   *)
LEMMA SettlingPreserves ==
  ASSUME IInv, NEW m \in Members,
         Goto(m, "process", "commit"), Settle(cur[m]),
         UNCHANGED <<committed, owner, cur, last, interruptions>>
  PROVE  IInv'
<1> USE RecordWorkAssumption
    DEF IInv, TypeOK, NoCommitPastFailedWork, CommitsSettled, InsideBatch,
        OwnerFollowsCommit, InProcess, InCommit, Phases
<1>1. cur[m] \in Records
  BY DEF Goto, Records
<1>2. TypeOK'
  BY <1>1 DEF Goto, Settle
<1>3. NoCommitPastFailedWork'
  BY DEF Settle
<1>4. CommitsSettled'
  BY DEF Goto, Settle
<1>5. OwnerFollowsCommit'
  BY DEF Goto
<1>6. InsideBatch'
  BY DEF Goto
<1> QED
  BY <1>2, <1>3, <1>4, <1>5, <1>6

(* The inductive step, one case per action of a member.                    *)
LEMMA NextIInv == IInv /\ [Next]_vars => IInv'
<1> SUFFICES ASSUME IInv, [Next]_vars PROVE IInv'
  OBVIOUS
<1> USE RecordWorkAssumption
    DEF IInv, TypeOK, NoCommitPastFailedWork, CommitsSettled, InsideBatch,
        OwnerFollowsCommit, InProcess, InCommit, Records, Phases, Goto
<1>1. ASSUME NEW m \in Members, Start(m) PROVE IInv'
  BY <1>1 DEF Start
<1>2. ASSUME NEW m \in Members, Assign(m) PROVE IInv'
  BY <1>2 DEF Assign
<1>3. ASSUME NEW m \in Members, PollRecords(m) PROVE IInv'
  <2>1. PICK l \in cur[m] + 1 .. NumRecords : last' = [last EXCEPT ![m] = l]
    BY <1>3 DEF PollRecords
  <2>2. cur[m] + 1 \in 1..l /\ l \in 0..NumRecords /\ cur[m] + 1 \in 0..NumRecords
    BY <2>1
  <2>3. TypeOK'
    BY <1>3, <2>1, <2>2 DEF PollRecords
  <2>4. NoCommitPastFailedWork' /\ CommitsSettled' /\ OwnerFollowsCommit'
    BY <1>3 DEF PollRecords
  <2>5. InsideBatch'
    BY <1>3, <2>1, <2>2 DEF PollRecords
  <2> QED
    BY <2>3, <2>4, <2>5
<1>4. ASSUME NEW m \in Members, ProcessSucceeds(m) PROVE IInv'
  BY <1>4, SettlingPreserves DEF ProcessSucceeds
<1>5. ASSUME NEW m \in Members, Reject(m) PROVE IInv'
  BY <1>5, SettlingPreserves DEF Reject
<1>6. ASSUME NEW m \in Members, ProcessFails(m) PROVE IInv'
  BY <1>6 DEF ProcessFails
<1>7. ASSUME NEW m \in Members, RetryProcess(m) PROVE IInv'
  BY <1>7 DEF RetryProcess
<1>8. ASSUME NEW m \in Members, CommitSucceeds(m) PROVE IInv'
  <2>1. /\ pc[m] = "commit" /\ owner = m /\ committed' = cur[m]
        /\ cur[m] \in {committed, committed + 1}
        /\ cur[m] \in settled
        /\ UNCHANGED <<owner, last, settled, handled, interruptions>>
    BY <1>8 DEF CommitSucceeds
  <2>2. NoCommitPastFailedWork'
    BY <2>1
  <2>3. CASE cur[m] = last[m]
    <3>1. pc' = [pc EXCEPT ![m] = "poll"] /\ UNCHANGED cur
      BY <1>8, <2>3 DEF CommitSucceeds
    <3>2. TypeOK'
      BY <2>1, <3>1
    <3>3. CommitsSettled' /\ OwnerFollowsCommit' /\ InsideBatch'
      BY <2>1, <3>1
    <3> QED
      BY <2>2, <3>2, <3>3
  <2>4. CASE cur[m] # last[m]
    <3>1. /\ cur[m] + 1 \in 1..last[m]
          /\ pc' = [pc EXCEPT ![m] = "process"]
          /\ cur' = [cur EXCEPT ![m] = cur[m] + 1]
      BY <1>8, <2>1, <2>4 DEF CommitSucceeds
    <3>2. TypeOK'
      BY <2>1, <3>1, SMTT(30)
    <3>3. CommitsSettled' /\ OwnerFollowsCommit' /\ InsideBatch'
      BY <2>1, <3>1
    <3> QED
      BY <2>2, <3>2, <3>3
  <2> QED
    BY <2>3, <2>4
<1>9. ASSUME NEW m \in Members, CommitFails(m) PROVE IInv'
  BY <1>9, SMTT(30) DEF CommitFails
<1>10. ASSUME NEW m \in Members, RetryCommit(m) PROVE IInv'
  BY <1>10 DEF RetryCommit
<1>11. ASSUME NEW m \in Members, Stop(m) PROVE IInv'
  BY <1>11 DEF Stop
<1>12. ASSUME NEW m \in Members, SessionTimeout(m) PROVE IInv'
  BY <1>12 DEF SessionTimeout
<1>13. CASE UNCHANGED vars
  BY <1>13 DEF vars
<1> QED
  BY <1>1, <1>2, <1>3, <1>4, <1>5, <1>6, <1>7, <1>8, <1>9, <1>10, <1>11,
     <1>12, <1>13 DEF Next, Step

(* The invariant holds in every reachable state.                           *)
LEMMA Invariance == Spec => []IInv
  BY InitIInv, NextIInv, PTL DEF Spec

(* ProcessRecord's variables keep their types (record.go:21).              *)
THEOREM TypeCorrect == Spec => []TypeOK
<1>1. IInv => TypeOK
  BY DEF IInv
<1> QED
  BY <1>1, Invariance, PTL

(* "ProcessRecord never commits past failed work" (record.go:18): whatever *)
(* members stop, stall or share the partition, every record up to the      *)
(* committed offset was finished or rejected by a handler.                 *)
THEOREM CommitsOnlySettledWork == Spec => []NoCommitPastFailedWork
<1>1. IInv => NoCommitPastFailedWork
  BY DEF IInv
<1> QED
  BY <1>1, Invariance, PTL

(* The group's offset never moves back (the commit loop, record.go:37).    *)
THEOREM OffsetsOnlyAdvance == Spec => CommitNeverRewinds
<1>1. IInv /\ [Next]_vars => [committed' >= committed]_committed
  <2> SUFFICES ASSUME IInv, [Next]_vars
               PROVE committed' = committed \/ committed' >= committed
    OBVIOUS
  <2>1. ASSUME NEW m \in Members, CommitSucceeds(m)
        PROVE  committed' >= committed
    BY <2>1, RecordWorkAssumption
    DEF CommitSucceeds, Goto, IInv, TypeOK, OwnerFollowsCommit, InCommit
  <2>2. ASSUME NEW m \in Members, CommitFails(m)
        PROVE  committed' = committed \/ committed' >= committed
    BY <2>2, RecordWorkAssumption
    DEF CommitFails, Goto, IInv, TypeOK, OwnerFollowsCommit, InCommit
  <2> QED
    BY <2>1, <2>2
    DEF Next, Step, vars, Start, Assign, PollRecords, ProcessSucceeds, Reject,
        ProcessFails, RetryProcess, RetryCommit, Stop, SessionTimeout
<1> QED
  BY <1>1, Invariance, PTL DEF Spec, CommitNeverRewinds
-----------------------------------------------------------------------------
(* The members that lost the partition with r still in the handler.        *)
Stale(r) == {m \in Members : owner # m /\ InProcess(m) /\ cur[m] = r}

(* The present or the next owner of the partition has r still before it.   *)
Ahead(r) ==
  /\ r > committed
  /\ \A m \in Members : owner = m /\ InCommit(m) => cur[m] # r

(* How often r may be settled if nothing interrupts the group any more:    *)
(* what is done, what a stale member still does, and the owner's turn.     *)
Turns(r) ==
  handled[r] + Cardinality(Stale(r)) + (IF Ahead(r) THEN 1 ELSE 0)

TurnsBounded ==
  \A r \in Records : IsFiniteSet(Stale(r)) /\ Turns(r) <= 1 + interruptions

LEMMA InitTurnsBounded == Init => TurnsBounded
<1> SUFFICES ASSUME Init, NEW r \in Records
             PROVE  IsFiniteSet(Stale(r)) /\ Turns(r) <= 1 + interruptions
  BY DEF TurnsBounded
<1>1. Stale(r) = {}
  BY DEF Init, Stale, InProcess
<1> QED
  BY <1>1, FS_EmptySet DEF Init, Turns

(* What the bound says of one record, with the count a natural number.     *)
LEMMA TurnsCount ==
  ASSUME TypeOK, TurnsBounded, NEW r \in Records
  PROVE  /\ IsFiniteSet(Stale(r)) /\ Cardinality(Stale(r)) \in Nat
         /\ handled[r] \in Nat /\ interruptions \in Nat
         /\ handled[r] + Cardinality(Stale(r)) + (IF Ahead(r) THEN 1 ELSE 0)
              <= 1 + interruptions
  BY FS_CardinalityType, RecordWorkAssumption DEF TurnsBounded, Turns, TypeOK

(* A step that makes no member stale and gives nobody another turn.        *)
LEMMA QuietTurns ==
  ASSUME TypeOK, TurnsBounded, NEW r \in Records,
         Stale(r)' = Stale(r), handled'[r] = handled[r],
         Ahead(r)' => Ahead(r),
         interruptions' = interruptions
  PROVE  IsFiniteSet(Stale(r)') /\ Turns(r)' <= 1 + interruptions'
  BY TurnsCount DEF Turns

(* An interruption adds at most one turn: a stale member or a new owner.   *)
LEMMA InterruptedTurns ==
  ASSUME TypeOK, TurnsBounded, NEW r \in Records, NEW m \in Members,
         Stale(r)' \subseteq Stale(r) \cup {m}, handled' = handled,
         Ahead(r)' => Ahead(r) \/ Stale(r)' \subseteq Stale(r),
         interruptions' = interruptions + 1
  PROVE  IsFiniteSet(Stale(r)') /\ Turns(r)' <= 1 + interruptions'
<1>1. /\ IsFiniteSet(Stale(r)) /\ Cardinality(Stale(r)) \in Nat
      /\ handled[r] \in Nat /\ interruptions \in Nat
      /\ handled[r] + Cardinality(Stale(r)) + (IF Ahead(r) THEN 1 ELSE 0)
           <= 1 + interruptions
  BY TurnsCount
<1>2. CASE Stale(r)' \subseteq Stale(r)
  <2>1. /\ IsFiniteSet(Stale(r)') /\ Cardinality(Stale(r)') \in Nat
        /\ Cardinality(Stale(r)') <= Cardinality(Stale(r))
    BY <1>1, <1>2, FS_Subset, FS_CardinalityType
  <2> QED
    BY <1>1, <2>1 DEF Turns
<1>3. CASE ~(Stale(r)' \subseteq Stale(r))
  <2>1. /\ IsFiniteSet(Stale(r) \cup {m})
        /\ Cardinality(Stale(r) \cup {m}) <= Cardinality(Stale(r)) + 1
        /\ Cardinality(Stale(r) \cup {m}) \in Nat
    <3>1. /\ IsFiniteSet(Stale(r) \cup {m})
          /\ Cardinality(Stale(r) \cup {m})
               = IF m \in Stale(r) THEN Cardinality(Stale(r))
                 ELSE Cardinality(Stale(r)) + 1
      BY <1>1, FS_AddElement
    <3> QED
      BY <1>1, <3>1
  <2>2. /\ IsFiniteSet(Stale(r)') /\ Cardinality(Stale(r)') \in Nat
        /\ Cardinality(Stale(r)') <= Cardinality(Stale(r) \cup {m})
    BY <2>1, FS_Subset, FS_CardinalityType
  <2> QED
    BY <1>1, <1>3, <2>1, <2>2 DEF Turns
<1> QED
  BY <1>2, <1>3

(* Whoever settles a record uses up a turn: a stale member its own, the    *)
(* owner the partition's.                                                  *)
LEMMA SettlingTurns ==
  ASSUME IInv, TurnsBounded, NEW m \in Members,
         Goto(m, "process", "commit"), Settle(cur[m]),
         UNCHANGED <<committed, owner, cur, last, interruptions>>,
         NEW r \in Records
  PROVE  IsFiniteSet(Stale(r)') /\ Turns(r)' <= 1 + interruptions'
<1> USE DEF IInv, TypeOK, InProcess, InCommit, Phases, Goto, Settle
<1>1. IsFiniteSet(Stale(r)) /\ Cardinality(Stale(r)) \in Nat
  BY FS_CardinalityType DEF TurnsBounded
<1>2. Ahead(r)' => Ahead(r)
  BY DEF Ahead
<1>3. CASE r # cur[m]
  <2>1. Stale(r)' = Stale(r)
    BY <1>3 DEF Stale
  <2> QED
    BY <1>2, <1>3, <2>1, QuietTurns
<1>4. CASE r = cur[m] /\ owner = m
  <2>1. Stale(r)' = Stale(r)
    BY <1>4 DEF Stale
  <2>2. Ahead(r) /\ ~Ahead(r)'
    BY <1>4, RecordWorkAssumption DEF Ahead, OwnerFollowsCommit, Records
  <2>3. handled'[r] = handled[r] + 1
    BY <1>4
  <2> QED
    BY <1>1, <2>1, <2>2, <2>3 DEF Turns, TurnsBounded, Records
<1>5. CASE r = cur[m] /\ owner # m
  <2>1. m \in Stale(r) /\ Stale(r)' = Stale(r) \ {m}
    BY <1>5 DEF Stale
  <2>2. /\ IsFiniteSet(Stale(r)')
        /\ Cardinality(Stale(r)') = Cardinality(Stale(r)) - 1
    BY <1>1, <2>1, FS_RemoveElement
  <2>3. handled'[r] = handled[r] + 1
    BY <1>5
  <2> QED
    BY <1>1, <1>2, <2>2, <2>3 DEF Turns, TurnsBounded, Records
<1> QED
  BY <1>3, <1>4, <1>5

(* The inductive step, one case per action of a member.                    *)
LEMMA NextTurnsBounded == IInv /\ TurnsBounded /\ [Next]_vars => TurnsBounded'
<1> SUFFICES ASSUME IInv, TurnsBounded, [Next]_vars, NEW r \in Records
             PROVE  IsFiniteSet(Stale(r)') /\ Turns(r)' <= 1 + interruptions'
  BY DEF TurnsBounded
<1> USE DEF IInv, TypeOK, InProcess, InCommit, Phases, Goto
<1>1. TypeOK
  OBVIOUS
<1>2. ASSUME NEW m \in Members, Start(m)
      PROVE  Stale(r)' = Stale(r) /\ (Ahead(r)' => Ahead(r))
  BY <1>2 DEF Start, Stale, Ahead
<1>3. ASSUME NEW m \in Members, Assign(m)
      PROVE  Stale(r)' = Stale(r) /\ (Ahead(r)' => Ahead(r))
  BY <1>3, RecordWorkAssumption DEF Assign, Stale, Ahead
<1>4. ASSUME NEW m \in Members, PollRecords(m)
      PROVE  Stale(r)' = Stale(r) /\ (Ahead(r)' => Ahead(r))
  BY <1>4 DEF PollRecords, Stale, Ahead
<1>5. ASSUME NEW m \in Members, ProcessSucceeds(m)
      PROVE  IsFiniteSet(Stale(r)') /\ Turns(r)' <= 1 + interruptions'
  BY <1>5, SettlingTurns DEF ProcessSucceeds
<1>6. ASSUME NEW m \in Members, Reject(m)
      PROVE  IsFiniteSet(Stale(r)') /\ Turns(r)' <= 1 + interruptions'
  BY <1>6, SettlingTurns DEF Reject
<1>7. ASSUME NEW m \in Members, ProcessFails(m)
      PROVE  Stale(r)' = Stale(r) /\ (Ahead(r)' => Ahead(r))
  BY <1>7 DEF ProcessFails, Stale, Ahead
<1>8. ASSUME NEW m \in Members, RetryProcess(m)
      PROVE  Stale(r)' = Stale(r) /\ (Ahead(r)' => Ahead(r))
  BY <1>8 DEF RetryProcess, Stale, Ahead
<1>9. ASSUME NEW m \in Members, CommitSucceeds(m)
      PROVE  Stale(r)' = Stale(r) /\ (Ahead(r)' => Ahead(r))
  <2>1. Stale(r)' = Stale(r)
    BY <1>9 DEF CommitSucceeds, Stale
  <2>2. /\ owner = m /\ owner' = m /\ pc[m] = "commit"
        /\ committed' = cur[m] /\ cur[m] >= committed
    BY <1>9, RecordWorkAssumption DEF CommitSucceeds, OwnerFollowsCommit
  <2>3. Ahead(r)' => Ahead(r)
    BY <2>2, RecordWorkAssumption DEF Ahead, Records
  <2> QED
    BY <2>1, <2>3
<1>10. ASSUME NEW m \in Members, CommitFails(m)
      PROVE  Stale(r)' = Stale(r) /\ (Ahead(r)' => Ahead(r))
  <2>1. Stale(r)' = Stale(r)
    BY <1>10 DEF CommitFails, Stale
  <2>2. committed' >= committed
    BY <1>10, RecordWorkAssumption DEF CommitFails, OwnerFollowsCommit
  <2>3. Ahead(r)' => Ahead(r)
    BY <1>10, <2>2, RecordWorkAssumption DEF CommitFails, Ahead, Records
  <2> QED
    BY <2>1, <2>3
<1>11. ASSUME NEW m \in Members, RetryCommit(m)
       PROVE  Stale(r)' = Stale(r) /\ (Ahead(r)' => Ahead(r))
  BY <1>11 DEF RetryCommit, Stale, Ahead
<1>12. ASSUME NEW m \in Members, Stop(m)
       PROVE  IsFiniteSet(Stale(r)') /\ Turns(r)' <= 1 + interruptions'
  <2>1. Stale(r)' \subseteq Stale(r)
    BY <1>12, RecordWorkAssumption DEF Stop, Stale
  <2> QED
    BY <1>1, <1>12, <2>1, InterruptedTurns DEF Stop
<1>13. ASSUME NEW m \in Members, SessionTimeout(m)
       PROVE  IsFiniteSet(Stale(r)') /\ Turns(r)' <= 1 + interruptions'
  <2>1. Stale(r)' \subseteq Stale(r) \cup {m}
    BY <1>13, RecordWorkAssumption DEF SessionTimeout, Stale
  <2>2. CASE InCommit(m)
    <3>1. Stale(r)' \subseteq Stale(r)
      BY <1>13, <2>2, RecordWorkAssumption DEF SessionTimeout, Stale
    <3> QED
      BY <1>1, <1>13, <2>1, <3>1, InterruptedTurns DEF SessionTimeout
  <2>3. CASE ~InCommit(m)
    <3>1. Ahead(r)' => Ahead(r)
      BY <1>13, <2>3, RecordWorkAssumption DEF SessionTimeout, Ahead
    <3> QED
      BY <1>1, <1>13, <2>1, <3>1, InterruptedTurns DEF SessionTimeout
  <2> QED
    BY <2>2, <2>3
<1>14. CASE UNCHANGED vars
  <2>1. Stale(r)' = Stale(r) /\ (Ahead(r)' => Ahead(r))
    BY <1>14 DEF vars, Stale, Ahead
  <2> QED
    BY <1>1, <1>14, <2>1, QuietTurns DEF vars
<1>15. ASSUME NEW m \in Members, Step(m)
       PROVE  IsFiniteSet(Stale(r)') /\ Turns(r)' <= 1 + interruptions'
  BY <1>1, <1>2, <1>3, <1>4, <1>5, <1>6, <1>7, <1>8, <1>9, <1>10, <1>11,
     <1>12, <1>13, <1>15, QuietTurns
  DEF Step, Start, Assign, PollRecords, ProcessFails, RetryProcess,
      CommitSucceeds, CommitFails, RetryCommit
<1> QED
  BY <1>14, <1>15 DEF Next

LEMMA TurnsInvariance == Spec => [](IInv /\ TurnsBounded)
  BY InitIInv, NextIInv, InitTurnsBounded, NextTurnsBounded, PTL DEF Spec

(* "Commit retries do not repeat processing" (record.go:19): a record is   *)
(* settled at most once more for each shutdown, crash or session timeout   *)
(* of the group, however many commits fail.                                *)
THEOREM RedeliveryIsBounded == Spec => []RedeliveryNeedsInterruption
<1>1. IInv /\ TurnsBounded => RedeliveryNeedsInterruption
  <2> SUFFICES ASSUME IInv, TurnsBounded, NEW r \in Records
               PROVE  handled[r] <= 1 + interruptions
    BY DEF RedeliveryNeedsInterruption
  <2>1. Cardinality(Stale(r)) \in Nat
    BY FS_CardinalityType DEF TurnsBounded
  <2> QED
    BY <2>1 DEF TurnsBounded, Turns, IInv, TypeOK
<1> QED
  BY <1>1, TurnsInvariance, PTL
===============================================================================
