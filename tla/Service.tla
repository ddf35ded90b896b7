------------------------------- MODULE Service -------------------------------
(***************************************************************************)
(* The life of a service process, from main's point of view: the HTTP      *)
(* server and its requests, the goroutine of the Kafka consumer, the       *)
(* connection pool both use, and the way down: a signal cancels runCtx,    *)
(* the server is given five seconds to finish its requests, the consumer   *)
(* leaves its group, the pool is closed, the process exits.                *)
(*                                                                         *)
(* The consumer's loops are those of RecordWork, with the checks of the    *)
(* context between their calls; RecordLoop says they implement it.         *)
(***************************************************************************)
EXTENDS Integers, FiniteSets

CONSTANTS
  Services,        \* which services there are, a subset of ServiceNames
  Requests,        \* the HTTP requests one process gets
  NumRecords, MaxPollRecords, Invalid,   \* the partition, as in RecordWork
  MaxRestarts,     \* bound on processes that end
  MaxTimeouts,     \* bound on session timeouts of the group
  Self, None       \* the consumer and nobody

ServiceNames == {"dashboard", "rag", "auth", "worker"}

ASSUME ServiceAssumption ==
  /\ Services \subseteq ServiceNames
  /\ {NumRecords, MaxRestarts, MaxTimeouts} \subseteq Nat
  /\ MaxPollRecords \in Nat \ {0}
  /\ Invalid \subseteq 1 .. NumRecords
  /\ Self # None

VARIABLES
  service,    \* which service this is
  main,       \* where main is
  cancelled,  \* runCtx is done
  server,     \* "starting", "serving" or "closed"
  request,    \* what has become of each request
  pool,       \* "open", "closing" or "closed"
  timedOut,   \* Shutdown gave up on the open requests
  pc,         \* where the consumer is in Start and ProcessRecord
  returned,   \* Start has returned, and allowed the group to rebalance
  owner, committed, cur, last, settled, handled,   \* as in RecordWork
  ends, timeouts   \* history: processes ended, sessions timed out

process == <<main, cancelled, server, request, pool, timedOut>>
batch == <<cur, last, settled, handled>>
vars == <<service, process, pc, returned, owner, committed, batch, ends, timeouts>>

HasConsumer == service # "auth"
HasServer == service # "worker"

(* The contexts of the dashboard's requests inherit runCtx (BaseContext).  *)
RequestsOutliveContext == FALSE
RequestsSeeContext == service = "dashboard"
ContextDone == RequestsSeeContext /\ cancelled

Fresh ==
  /\ main' = "running" /\ cancelled' = FALSE
  /\ server' = "starting" /\ request' = [r \in Requests |-> "none"]
  /\ pool' = "open" /\ timedOut' = FALSE

Init ==
  /\ service \in Services
  /\ main = "running" /\ cancelled = FALSE
  /\ server = "starting" /\ request = [r \in Requests |-> "none"]
  /\ pool = "open" /\ timedOut = FALSE
  /\ pc = "poll" /\ returned = FALSE
  /\ owner = None /\ committed = 0 /\ cur = 0 /\ last = 0
  /\ settled = {} /\ handled = [r \in 1 .. NumRecords |-> 0]
  /\ ends = 0 /\ timeouts = 0

-----------------------------------------------------------------------------
(* The HTTP server.  An open request computes, or waits for its client or  *)
(* for the model provider, and watches no context; a query holds a         *)
(* connection of the pool; a stream is an event stream in its select.      *)
Held == {r \in Requests : request[r] = "query"}
InFlight == {r \in Requests : request[r] \in {"open", "query", "stream"}}

Becomes(r, from, to) ==
  /\ main # "exited"
  /\ request[r] = from
  /\ request' = [request EXCEPT ![r] = to]
  /\ UNCHANGED <<service, main, cancelled, server, pool, timedOut, pc, returned,
                 owner, committed, batch, ends, timeouts>>

Accept(r) == server = "serving" /\ Becomes(r, "none", "open")
Answer(r) == Becomes(r, "open", "answered")

Query(r) == pool = "open" /\ ~ContextDone /\ Becomes(r, "open", "query")
QueryDone(r) == Becomes(r, "query", "open")
QueryFails(r) == pool # "open" /\ ~ContextDone /\ Becomes(r, "open", "failed")

(* With its context done a request loses the query it has under way, and   *)
(* the next one it begins: it is answered with an error.                   *)
QueryCancelled(r) ==
  /\ ContextDone
  /\ \E from \in {"open", "query"} : Becomes(r, from, "cancelled")

(* HandleEvents: a write waits for the client, up to five seconds of its   *)
(* own; the select ends with the context, or after five minutes.           *)
Stream(r) == service = "dashboard" /\ Becomes(r, "open", "stream")
StreamWrites(r) == Becomes(r, "stream", "open")
StreamExpires(r) == Becomes(r, "stream", "answered")
StreamStops(r) == ContextDone /\ Becomes(r, "stream", "stopped")

Request(r) ==
  \/ Accept(r) \/ Answer(r)
  \/ Query(r) \/ QueryDone(r) \/ QueryFails(r) \/ QueryCancelled(r)
  \/ Stream(r) \/ StreamWrites(r) \/ StreamExpires(r) \/ StreamStops(r)

-----------------------------------------------------------------------------
(* The consumer's goroutine.                                               *)
Running == HasConsumer /\ main # "exited" /\ ~returned

Goto(from, to) ==
  /\ Running
  /\ pc = from
  /\ pc' = to
  /\ UNCHANGED <<service, process, returned, ends, timeouts>>

(* Every return of Start runs its deferred AllowRebalance.                 *)
Return ==
  /\ Running /\ cancelled
  /\ pc \in {"poll", "fallThrough", "processWait", "commit", "commitWait"}
  /\ returned' = TRUE
  /\ UNCHANGED <<service, process, pc, owner, committed, batch, ends, timeouts>>

Poll ==
  /\ owner = Self /\ ~cancelled
  /\ Goto("poll", "process")
  /\ \E l \in cur + 1 .. NumRecords : l <= cur + MaxPollRecords /\ last' = l
  /\ cur' = cur + 1
  /\ UNCHANGED <<owner, committed, settled, handled>>

(* The first loop of ProcessRecord tests the context before every call of  *)
(* the handler; when it is done the record falls through to the second.    *)
CallHandler ==
  /\ ~cancelled /\ Goto("process", "handling")
  /\ UNCHANGED <<owner, committed, batch>>

FallThrough ==
  /\ cancelled /\ Goto("process", "fallThrough")
  /\ UNCHANGED <<owner, committed, batch>>

(* nil, or InvalidInput: the record is settled.                            *)
HandlerSettles ==
  /\ Goto("handling", "commit")
  /\ settled' = settled \cup {cur}
  /\ handled' = [handled EXCEPT ![cur] = @ + 1]
  /\ UNCHANGED <<owner, committed, cur, last>>

HandlerFails ==
  /\ cur \notin Invalid
  /\ Goto("handling", "processWait")
  /\ UNCHANGED <<owner, committed, batch>>

RetryProcess == Goto("processWait", "process") /\ UNCHANGED <<owner, committed, batch>>

(* The second loop tests the context before every CommitRecords.           *)
CallCommitUnchecked ==
  /\ \E from \in {"commit", "fallThrough"} : Goto(from, "committing")
  /\ UNCHANGED <<owner, committed, batch>>

CallCommit ==
  /\ ~cancelled /\ Goto("commit", "committing")
  /\ UNCHANGED <<owner, committed, batch>>

CommitSucceeds ==
  /\ owner = Self
  /\ committed' = cur
  /\ IF cur = last THEN Goto("committing", "poll") /\ UNCHANGED cur
                   ELSE Goto("committing", "process") /\ cur' = cur + 1
  /\ UNCHANGED <<owner, last, settled, handled>>

CommitFails ==
  /\ Goto("committing", "commitWait")
  /\ (owner = Self /\ committed' = cur) \/ UNCHANGED committed
  /\ UNCHANGED <<owner, batch>>

RetryCommit == Goto("commitWait", "commit") /\ UNCHANGED <<owner, committed, batch>>

Consumer ==
  \/ Return \/ Poll \/ CallHandler \/ FallThrough \/ HandlerSettles \/ HandlerFails
  \/ RetryProcess \/ CallCommit \/ CommitSucceeds \/ CommitFails \/ RetryCommit

(* The broker and the client's own goroutines.                             *)
Assign ==
  /\ Running /\ owner = None /\ pc = "poll"
  /\ main \in {"running", "draining"}
  /\ owner' = Self /\ cur' = committed
  /\ UNCHANGED <<service, process, pc, returned, committed, last, settled, handled,
                 ends, timeouts>>

SessionTimeout ==
  /\ owner = Self
  /\ timeouts < MaxTimeouts
  /\ timeouts' = timeouts + 1 /\ owner' = None
  /\ UNCHANGED <<service, process, pc, returned, committed, batch, ends>>

-----------------------------------------------------------------------------
(* main.                                                                   *)
Moves(from, to) == main = from /\ main' = to

Serve ==
  /\ HasServer /\ main # "exited"
  /\ server = "starting" /\ server' = "serving"
  /\ UNCHANGED <<service, main, cancelled, request, pool, timedOut, pc, returned,
                 owner, committed, batch, ends, timeouts>>

(* SIGTERM, or stop called because the server failed.  The worker does not *)
(* catch signals.                                                          *)
Cancelled ==
  /\ HasServer /\ main = "running" /\ ~cancelled
  /\ ends < MaxRestarts
  /\ cancelled' = TRUE
  /\ \/ UNCHANGED server
     \/ server # "closed" /\ server' = "closed"
  /\ UNCHANGED <<service, main, request, pool, timedOut, pc, returned, owner,
                 committed, batch, ends, timeouts>>

(* Shutdown closes the listener and waits for the requests.                *)
Shutdown ==
  /\ cancelled /\ Moves("running", "draining")
  /\ server' = "closed"
  /\ UNCHANGED <<service, cancelled, request, pool, timedOut, pc, returned, owner,
                 committed, batch, ends, timeouts>>

AfterDraining == IF HasConsumer THEN "closingConsumer" ELSE "closingPool"

DrainedAtOnce ==
  /\ Moves("draining", AfterDraining)
  /\ UNCHANGED <<service, cancelled, server, request, pool, timedOut, pc, returned,
                 owner, committed, batch, ends, timeouts>>

Drained ==
  /\ InFlight = {} /\ Moves("draining", AfterDraining)
  /\ UNCHANGED <<service, cancelled, server, request, pool, timedOut, pc, returned,
                 owner, committed, batch, ends, timeouts>>

(* Five seconds have passed with a request still in flight.                *)
ShutdownTimeout ==
  /\ InFlight # {}
  /\ Moves("draining", AfterDraining)
  /\ timedOut' = TRUE
  /\ UNCHANGED <<service, cancelled, server, request, pool, pc, returned, owner,
                 committed, batch, ends, timeouts>>

LeaveGroup == pc' = "down" /\ owner' = None

(* Client.Close leaves the group, for which no batch may be in hand.       *)
CloseAllowingRebalance ==
  /\ Moves("closingConsumer", "closingPool")
  /\ owner' = None /\ UNCHANGED pc
  /\ UNCHANGED <<service, cancelled, server, request, pool, timedOut, returned,
                 committed, batch, ends, timeouts>>

BatchReleasedByLoop == pc = "poll"
BatchReleased == pc = "poll" \/ returned

CloseConsumer ==
  /\ BatchReleased
  /\ Moves("closingConsumer", "closingPool")
  /\ LeaveGroup
  /\ UNCHANGED <<service, cancelled, server, request, pool, timedOut, returned,
                 committed, batch, ends, timeouts>>

(* Pool.Close refuses connections from now on ...                          *)
ClosePool ==
  /\ main = "closingPool" /\ pool = "open"
  /\ pool' = "closing"
  /\ UNCHANGED <<service, main, cancelled, server, request, timedOut, pc, returned,
                 owner, committed, batch, ends, timeouts>>

(* ... and returns when none is in use; main returns, the process is gone. *)
Exit ==
  /\ Moves("closingPool", "exited")
  /\ pool = "closing" /\ pool' = "closed"
  /\ Held = {}
  /\ request' = [r \in Requests |-> IF r \in InFlight THEN "cut" ELSE request[r]]
  /\ ends' = ends + 1
  /\ LeaveGroup
  /\ UNCHANGED <<service, cancelled, server, timedOut, returned, committed, batch,
                 timeouts>>

(* A crash, or the only way the worker ever stops.                         *)
Kill ==
  /\ main # "exited" /\ main' = "exited"
  /\ ends < MaxRestarts /\ ends' = ends + 1
  /\ LeaveGroup
  /\ request' = [r \in Requests |-> "none"]
  /\ UNCHANGED <<service, cancelled, server, pool, timedOut, returned, committed,
                 batch, timeouts>>

Restart ==
  /\ main = "exited" /\ Fresh
  /\ pc' = "poll" /\ returned' = FALSE
  /\ UNCHANGED <<service, owner, committed, batch, ends, timeouts>>

Main == Shutdown \/ Drained \/ CloseConsumer \/ ClosePool \/ Exit

Next ==
  \/ \E r \in Requests : Request(r)
  \/ Consumer \/ Assign \/ SessionTimeout
  \/ Serve \/ Cancelled \/ Main \/ ShutdownTimeout \/ Kill \/ Restart

Spec == Init /\ [][Next]_vars

(* The Go scheduler runs main and the consumer; a handler, a commit and a  *)
(* query come back; a select notices that its context is done.  Nothing    *)
(* makes a request end that waits for its provider, its events or its      *)
(* client.  That the five seconds pass is not assumed here.                *)
Fairness ==
  /\ WF_vars(Main)
  /\ WF_vars(Consumer)
  /\ \A r \in Requests : WF_vars(QueryDone(r)) /\ WF_vars(StreamStops(r))

FairSpec == Spec /\ Fairness

-----------------------------------------------------------------------------
ConsumerPhases == {"poll", "process", "handling", "processWait", "fallThrough",
                   "commit", "committing", "commitWait", "down"}

TypeOK ==
  /\ service \in Services
  /\ main \in {"running", "draining", "closingConsumer", "closingPool", "exited"}
  /\ cancelled \in BOOLEAN /\ timedOut \in BOOLEAN /\ returned \in BOOLEAN
  /\ server \in {"starting", "serving", "closed"}
  /\ request \in [Requests ->
       {"none", "open", "query", "stream", "answered", "stopped", "cancelled",
        "failed", "cut"}]
  /\ pool \in {"open", "closing", "closed"}
  /\ pc \in ConsumerPhases
  /\ owner \in {Self, None}
  /\ committed \in 0 .. NumRecords /\ cur \in 0 .. NumRecords /\ last \in 0 .. NumRecords
  /\ settled \subseteq 1 .. NumRecords
  /\ handled \in [1 .. NumRecords -> Nat]
  /\ ends \in 0 .. MaxRestarts /\ timeouts \in 0 .. MaxTimeouts

(* The consumer is never in a handler once the pool is closing, although   *)
(* main does not wait for its goroutine: the deferred consumer.Close runs  *)
(* before pool.Close and cannot leave the group while a batch is in hand.  *)
HandlersHaveThePool == pc = "handling" => pool = "open"

(* Until Shutdown's five seconds are up a shutdown costs a request         *)
(* nothing, wherever it was accepted: main closes the pool and ends the    *)
(* process behind the last one.  Only the dashboard's queries do not wait  *)
(* for that: BaseContext (server.go:71) ends them with runCtx, and their   *)
(* requests are answered with an error.                                    *)
RequestsSurviveShutdown ==
  ~timedOut =>
    \A r \in Requests :
      /\ request[r] \notin {"failed", "cut"}
      /\ request[r] = "cancelled" => service = "dashboard"

(* A service that was told to stop exits, once five seconds may pass,      *)
(* whatever its requests wait for and wherever the consumer was.  And it   *)
(* does not need the five seconds unless some request waits for its client *)
(* or provider: in the dashboard, event streams alone never use them up,   *)
(* which is what BaseContext is for.                                       *)
ShutdownCompletes ==
  /\ WF_vars(ShutdownTimeout) => (cancelled ~> (main = "exited"))
  /\ (main = "draining") ~> (main # "draining" \/ \E r \in Requests : request[r] = "open")

(* The consumer as the rest of the project knows it: context checks belong *)
(* to the call they guard, and a process that leaves the group is down.    *)
Phase == IF pc \in {"handling", "fallThrough"} THEN "process"
         ELSE IF pc = "committing" THEN "commit" ELSE pc

Loop == INSTANCE RecordWork WITH
  Members <- {Self}, MaxInterruptions <- MaxRestarts + MaxTimeouts,
  pc <- [m \in {Self} |-> Phase],
  cur <- [m \in {Self} |-> cur], last <- [m \in {Self} |-> last],
  interruptions <- ends + timeouts
                   + (IF pc = "down" /\ main # "exited" THEN 1 ELSE 0)

(* Every way to stop in the middle of a batch is a Stop of RecordWork: no  *)
(* record is committed that no handler settled, whichever of the context's *)
(* checks notices the shutdown, and the next process finds the others.     *)
ImplementsRecordLoop == Loop!Spec
=============================================================================
