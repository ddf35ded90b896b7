--------------------------- MODULE Service_proofs ---------------------------
(***************************************************************************)
(* Proofs about Service, for every number of requests, records, restarts   *)
(* and lost sessions.                                                      *)
(***************************************************************************)
EXTENDS Service, TLAPS

InBatch == pc \notin {"poll", "down"}

(* The record in hand lies inside the batch.                               *)
InsideBatch == InBatch => cur \in 1 .. last

(* Where main is tells what it has done already.                           *)
MainOK ==
  /\ main = "running" => pool = "open"
  /\ main \in {"draining", "closingConsumer"} => pool = "open"
  /\ main \in {"draining", "closingConsumer", "closingPool"} =>
       cancelled /\ server = "closed"
  /\ cancelled /\ main # "exited" => ends < MaxRestarts

(* The consumer has left its group before the pool is closed.              *)
ConsumerOK ==
  /\ ~HasConsumer => pc \in {"poll", "down"}
  /\ HasConsumer /\ main = "closingPool" => pc = "down"
  /\ main = "exited" => pc = "down"
  /\ pc = "down" => main \in {"closingPool", "exited"} /\ owner = None

(* Requests are left over only where Shutdown gave up on them.             *)
RequestsOK ==
  ~timedOut =>
    /\ main \in {"closingConsumer", "closingPool"} => InFlight = {}
    /\ \A r \in Requests : request[r] \notin {"failed", "cut"}

(* Only the dashboard's queries end with the context.                      *)
CancelledOK == \A r \in Requests : request[r] = "cancelled" => service = "dashboard"

IInv ==
  /\ TypeOK
  /\ InsideBatch
  /\ MainOK
  /\ ConsumerOK
  /\ RequestsOK
  /\ CancelledOK

LEMMA InitIInv == Init => IInv
<1> SUFFICES ASSUME Init PROVE IInv
  OBVIOUS
<1>1. TypeOK
  <2>1. 0 \in 0 .. NumRecords /\ 0 \in 0 .. MaxRestarts /\ 0 \in 0 .. MaxTimeouts
    BY ServiceAssumption
  <2> QED
    BY <2>1 DEF Init, TypeOK, ConsumerPhases
<1>2. InsideBatch /\ MainOK /\ ConsumerOK /\ RequestsOK /\ CancelledOK
  BY DEF Init, InsideBatch, InBatch, MainOK, ConsumerOK, RequestsOK, CancelledOK
<1> QED
  BY <1>1, <1>2 DEF IInv

-----------------------------------------------------------------------------
(* A request moves on: nothing but its own state changes.                  *)
LEMMA RequestSafe ==
  ASSUME IInv, NEW r \in Requests, Request(r)
  PROVE  IInv'
<1>1. PICK from \in {"none", "open", "query", "stream"},
           to \in {"open", "query", "stream", "failed", "answered", "stopped", "cancelled"} :
        /\ Becomes(r, from, to)
        /\ to = "failed" => from = "open" /\ pool # "open"
        /\ to = "cancelled" => service = "dashboard"
        /\ from = "none" => server = "serving"
        /\ from = "none" \/ from \in {"open", "query", "stream"}
  BY DEF Request, Accept, Query, QueryFails, QueryDone, Answer, QueryCancelled, Stream,
         StreamWrites, StreamExpires, StreamStops, ContextDone, RequestsSeeContext
<1>2. TypeOK'
  BY <1>1 DEF IInv, TypeOK, Becomes, batch
<1>3. InsideBatch' /\ MainOK' /\ ConsumerOK' /\ CancelledOK'
  BY <1>1 DEF IInv, InsideBatch, InBatch, MainOK, ConsumerOK, CancelledOK, Becomes,
              batch, HasConsumer
<1>4. RequestsOK'
  <2> SUFFICES ASSUME ~timedOut PROVE RequestsOK'
    BY <1>1 DEF RequestsOK, Becomes
  <2>1. main \in {"closingConsumer", "closingPool"} => server = "closed" /\ InFlight = {}
    BY DEF IInv, MainOK, RequestsOK
  <2>2. main \notin {"closingConsumer", "closingPool"}
    BY <1>1, <2>1 DEF Becomes, InFlight
  <2>3. pool = "open"
    BY <1>1, <2>2 DEF IInv, MainOK, TypeOK, Becomes
  <2> QED
    BY <1>1, <2>2, <2>3 DEF IInv, TypeOK, RequestsOK, Becomes
<1> QED
  BY <1>2, <1>3, <1>4 DEF IInv

-----------------------------------------------------------------------------
(* What the consumer and the broker leave alone.                           *)
LEMMA ProcessKept ==
  ASSUME IInv, UNCHANGED <<service, process, ends>>
  PROVE  MainOK' /\ RequestsOK' /\ CancelledOK'
  BY DEF IInv, MainOK, RequestsOK, InFlight, CancelledOK, process

(* A step of the consumer's goroutine stays within Start.                  *)
LEMMA GotoSafe ==
  ASSUME IInv, NEW from, NEW to \in ConsumerPhases \ {"down"}, from # "down", Goto(from, to)
  PROVE  ConsumerOK'
<1>1. HasConsumer /\ main # "exited" /\ pc # "down" /\ pc' # "down" /\ HasConsumer'
  BY DEF Goto, Running, HasConsumer
<1>2. main # "closingPool"
  BY <1>1 DEF IInv, ConsumerOK
<1> QED
  BY <1>1, <1>2 DEF Goto, ConsumerOK, process

LEMMA ConsumerSafe ==
  ASSUME IInv, Consumer
  PROVE  IInv'
<1> USE DEF batch
<1>1. MainOK' /\ RequestsOK' /\ CancelledOK'
  BY ProcessKept
  DEF Consumer, Return, Poll, CallHandler, FallThrough, HandlerSettles, HandlerFails,
      RetryProcess, CallCommit, CommitSucceeds, CommitFails, RetryCommit, Goto
<1>2. CASE Return
  BY <1>1, <1>2
  DEF Return, IInv, TypeOK, InsideBatch, InBatch, ConsumerOK, HasConsumer, process
<1>3. CASE Poll
  <2>1. PICK l \in cur + 1 .. NumRecords : last' = l
    BY <1>3 DEF Poll
  <2>2. cur' \in 1 .. last' /\ cur' \in 0 .. NumRecords /\ last' \in 0 .. NumRecords
    BY <1>3, <2>1, ServiceAssumption DEF Poll, IInv, TypeOK
  <2>3. TypeOK' /\ InsideBatch'
    BY <1>3, <2>2 DEF Poll, Goto, Running, IInv, TypeOK, ConsumerPhases, InsideBatch, process
  <2>4. ConsumerOK'
    BY <1>3, GotoSafe DEF Poll, ConsumerPhases
  <2> QED
    BY <1>1, <2>3, <2>4 DEF IInv
<1>4. CASE HandlerSettles
  <2>1. cur \in 1 .. NumRecords
    BY <1>4 DEF HandlerSettles, Goto, IInv, TypeOK, InsideBatch, InBatch
  <2>2. TypeOK' /\ InsideBatch'
    BY <1>4, <2>1
    DEF HandlerSettles, Goto, Running, IInv, TypeOK, ConsumerPhases, InsideBatch, InBatch,
        process
  <2>3. ConsumerOK'
    BY <1>4, GotoSafe DEF HandlerSettles, ConsumerPhases
  <2> QED
    BY <1>1, <2>2, <2>3 DEF IInv
<1>5. CASE CommitSucceeds
  <2>1. PICK to \in {"poll", "process"} :
          /\ Goto("committing", to)
          /\ cur' = IF to = "poll" THEN cur ELSE cur + 1
          /\ to = "process" => cur # last
    BY <1>5 DEF CommitSucceeds
  <2>2. cur \in 1 .. last /\ last \in 0 .. NumRecords
    BY <2>1 DEF Goto, IInv, TypeOK, InsideBatch, InBatch
  <2>3. TypeOK' /\ InsideBatch'
    BY <1>5, <2>1, <2>2, ServiceAssumption
    DEF CommitSucceeds, Goto, Running, IInv, TypeOK, ConsumerPhases, InsideBatch, InBatch,
        process
  <2>4. ConsumerOK'
    BY <2>1, GotoSafe DEF ConsumerPhases
  <2> QED
    BY <1>1, <2>3, <2>4 DEF IInv
<1>6. CASE CallHandler \/ FallThrough \/ HandlerFails \/ RetryProcess \/ CallCommit
           \/ CommitFails \/ RetryCommit
  <2>1. PICK from \in ConsumerPhases \ {"down", "poll"}, to \in ConsumerPhases \ {"down", "poll"} :
          /\ Goto(from, to)
          /\ UNCHANGED <<owner, batch>>
          /\ committed' \in {committed, cur}
    BY <1>6 DEF CallHandler, FallThrough, HandlerFails, RetryProcess, CallCommit, CommitFails,
                RetryCommit, ConsumerPhases
  <2>2. TypeOK' /\ InsideBatch'
    BY <2>1 DEF Goto, Running, IInv, TypeOK, ConsumerPhases, InsideBatch, InBatch, process
  <2>3. ConsumerOK'
    BY <2>1, GotoSafe
  <2> QED
    BY <1>1, <2>2, <2>3 DEF IInv
<1> QED
  BY <1>2, <1>3, <1>4, <1>5, <1>6 DEF Consumer

LEMMA BrokerSafe ==
  ASSUME IInv, Assign \/ SessionTimeout
  PROVE  IInv'
<1>1. MainOK' /\ RequestsOK' /\ CancelledOK'
  BY ProcessKept DEF Assign, SessionTimeout
<1>2. InsideBatch' /\ ConsumerOK'
  BY DEF Assign, SessionTimeout, IInv, InsideBatch, InBatch, ConsumerOK, HasConsumer,
         process, batch
<1>3. TypeOK'
  <2>1. CASE Assign
    BY <2>1 DEF Assign, IInv, TypeOK, process
  <2>2. CASE SessionTimeout
    BY <2>2, ServiceAssumption DEF SessionTimeout, IInv, TypeOK, process, batch
  <2> QED
    BY <2>1, <2>2
<1> QED
  BY <1>1, <1>2, <1>3 DEF IInv

-----------------------------------------------------------------------------
LEMMA MainSafe ==
  ASSUME IInv, Main
  PROVE  IInv'
<1> USE DEF batch
<1>1. CASE Shutdown
  BY <1>1 DEF Shutdown, Moves, IInv, TypeOK, InsideBatch, InBatch, MainOK, ConsumerOK,
              HasConsumer, RequestsOK, InFlight, CancelledOK
<1>2. CASE Drained
  BY <1>2 DEF Drained, Moves, AfterDraining, IInv, TypeOK, InsideBatch, InBatch, MainOK,
              ConsumerOK, HasConsumer, RequestsOK, InFlight, CancelledOK
<1>3. CASE CloseConsumer
  BY <1>3, ServiceAssumption
  DEF CloseConsumer, Moves, LeaveGroup, IInv, TypeOK, ConsumerPhases, InsideBatch, InBatch,
      MainOK, ConsumerOK, HasConsumer, RequestsOK, InFlight, CancelledOK
<1>4. CASE ClosePool
  BY <1>4 DEF ClosePool, IInv, TypeOK, InsideBatch, InBatch, MainOK, ConsumerOK,
              HasConsumer, RequestsOK, InFlight, CancelledOK
<1>5. CASE Exit
  <2>1. TypeOK' /\ InsideBatch' /\ CancelledOK'
    BY <1>5, ServiceAssumption
    DEF Exit, Moves, LeaveGroup, IInv, TypeOK, MainOK, ConsumerPhases, InsideBatch, InBatch,
        CancelledOK
  <2>2. MainOK' /\ ConsumerOK'
    BY <1>5 DEF Exit, Moves, LeaveGroup, MainOK, ConsumerOK, HasConsumer
  <2>3. RequestsOK'
    BY <1>5 DEF Exit, Moves, IInv, RequestsOK, InFlight
  <2> QED
    BY <2>1, <2>2, <2>3 DEF IInv
<1> QED
  BY <1>1, <1>2, <1>3, <1>4, <1>5 DEF Main

LEMMA ProcessSafe ==
  ASSUME IInv, Serve \/ Cancelled \/ ShutdownTimeout \/ Kill \/ Restart
  PROVE  IInv'
<1> USE DEF batch
<1>1. CASE Serve
  BY <1>1 DEF Serve, IInv, TypeOK, InsideBatch, InBatch, MainOK, ConsumerOK, HasConsumer,
              RequestsOK, InFlight, CancelledOK
<1>2. CASE Cancelled
  BY <1>2 DEF Cancelled, IInv, TypeOK, InsideBatch, InBatch, MainOK, ConsumerOK, HasConsumer,
              RequestsOK, InFlight, CancelledOK
<1>3. CASE Kill
  BY <1>3, ServiceAssumption
  DEF Kill, LeaveGroup, IInv, TypeOK, ConsumerPhases, InsideBatch, InBatch, MainOK, ConsumerOK,
      HasConsumer, RequestsOK, InFlight, CancelledOK
<1>4. CASE Restart
  BY <1>4 DEF Restart, Fresh, IInv, TypeOK, ConsumerPhases, InsideBatch, InBatch, MainOK,
              ConsumerOK, HasConsumer, RequestsOK, InFlight, CancelledOK
<1>5. CASE ShutdownTimeout
  BY <1>5 DEF ShutdownTimeout, Moves, AfterDraining, IInv, TypeOK, InsideBatch, InBatch,
              MainOK, ConsumerOK, HasConsumer, RequestsOK, CancelledOK
<1> QED
  BY <1>1, <1>2, <1>3, <1>4, <1>5

LEMMA NextIInv == IInv /\ [Next]_vars => IInv'
<1> SUFFICES ASSUME IInv, [Next]_vars PROVE IInv'
  OBVIOUS
<1>1. CASE UNCHANGED vars
  BY <1>1 DEF vars, process, batch, IInv, TypeOK, InsideBatch, InBatch, MainOK, ConsumerOK,
              HasConsumer, RequestsOK, InFlight, CancelledOK
<1>2. CASE Next
  BY <1>2, RequestSafe, ConsumerSafe, BrokerSafe, MainSafe, ProcessSafe DEF Next
<1> QED
  BY <1>1, <1>2

LEMMA SpecIInv == Spec => []IInv
  BY InitIInv, NextIInv, PTL DEF Spec

-----------------------------------------------------------------------------
(* Every variable keeps its type in every life of the process.             *)
THEOREM TypeCorrect == Spec => []TypeOK
<1>1. IInv => TypeOK
  BY DEF IInv
<1> QED
  BY <1>1, SpecIInv, PTL

(* main never closes the pool under a handler of the consumer, although it *)
(* does not wait for the consumer's goroutine.                             *)
THEOREM PoolOutlivesHandlers == Spec => []HandlersHaveThePool
<1>1. IInv => HandlersHaveThePool
  BY DEF IInv, TypeOK, MainOK, ConsumerOK, HandlersHaveThePool
<1> QED
  BY <1>1, SpecIInv, PTL

(* No request is failed or cut off by a shutdown that does not have to     *)
(* give up on it; what is lost before that is a query of the dashboard.    *)
THEOREM ShutdownIsGraceful == Spec => []RequestsSurviveShutdown
<1>1. IInv => RequestsSurviveShutdown
  BY DEF IInv, RequestsOK, CancelledOK, RequestsSurviveShutdown
<1> QED
  BY <1>1, SpecIInv, PTL

-----------------------------------------------------------------------------
(* The steps of the consumer's goroutine, as steps of RecordWork.          *)
LEMMA LoopStep ==
  ASSUME IInv, Consumer
  PROVE  [Loop!Next]_(Loop!vars)
<1> DEFINE pcs == [m \in {Self} |-> Phase]
           curs == [m \in {Self} |-> cur]
           lasts == [m \in {Self} |-> last]
<1> USE DEF batch
<1>1. UNCHANGED <<ends, timeouts, main>>
  BY DEF Consumer, Return, Poll, CallHandler, FallThrough, HandlerSettles, HandlerFails,
         RetryProcess, CallCommit, CommitSucceeds, CommitFails, RetryCommit, Goto, process
<1>2. CASE Return \/ CallHandler \/ FallThrough \/ CallCommit
  <2>1. Phase' = Phase /\ (pc' = "down" <=> pc = "down")
        /\ UNCHANGED <<owner, committed, batch>>
    BY <1>2 DEF Return, CallHandler, FallThrough, CallCommit, Goto, Phase
  <2> QED
    BY <1>1, <2>1 DEF Loop!vars
<1>3. CASE Poll \/ HandlerSettles \/ HandlerFails \/ RetryProcess \/ CommitSucceeds
           \/ CommitFails \/ RetryCommit
  <2>1. pc # "down" /\ pc' # "down"
    BY <1>3 DEF Poll, HandlerSettles, HandlerFails, RetryProcess, CommitSucceeds, CommitFails,
                RetryCommit, Goto
  <2>2. ASSUME NEW from, NEW to, Phase = from, Phase' = to
        PROVE  Loop!Goto(Self, from, to)
    BY <2>2 DEF Loop!Goto
  <2>3. CASE Poll
    <3>1. Loop!Goto(Self, "poll", "process")
      BY <2>2, <2>3 DEF Poll, Goto, Phase
    <3>2. PICK l \in cur + 1 .. NumRecords : l <= cur + MaxPollRecords /\ last' = l
      BY <2>3 DEF Poll
    <3>3. cur < NumRecords
      BY <3>2, ServiceAssumption DEF IInv, TypeOK
    <3>4. lasts' = [lasts EXCEPT ![Self] = l] /\ curs' = [curs EXCEPT ![Self] = @ + 1]
      BY <2>3, <3>2 DEF Poll
    <3>5. Loop!PollRecords(Self)
      BY <1>1, <2>1, <2>3, <3>1, <3>2, <3>3, <3>4 DEF Poll, Loop!PollRecords
    <3> QED
      BY <3>5 DEF Loop!Next, Loop!Step
  <2>4. CASE HandlerSettles
    <3>1. Loop!Goto(Self, "process", "commit")
      BY <2>2, <2>4 DEF HandlerSettles, Goto, Phase
    <3>2. Loop!Settle(curs[Self])
      BY <2>4 DEF HandlerSettles, Loop!Settle
    <3>3. Loop!ProcessSucceeds(Self) \/ Loop!Reject(Self)
      BY <1>1, <2>1, <2>4, <3>1, <3>2 DEF HandlerSettles, Loop!ProcessSucceeds, Loop!Reject
    <3> QED
      BY <3>3 DEF Loop!Next, Loop!Step
  <2>5. CASE HandlerFails
    <3>1. Loop!Goto(Self, "process", "processWait")
      BY <2>2, <2>5 DEF HandlerFails, Goto, Phase
    <3>2. Loop!ProcessFails(Self)
      BY <1>1, <2>1, <2>5, <3>1 DEF HandlerFails, Loop!ProcessFails
    <3> QED
      BY <3>2 DEF Loop!Next, Loop!Step
  <2>6. CASE RetryProcess
    <3>1. Loop!Goto(Self, "processWait", "process")
      BY <2>2, <2>6 DEF RetryProcess, Goto, Phase
    <3>2. Loop!RetryProcess(Self)
      BY <1>1, <2>1, <2>6, <3>1 DEF RetryProcess, Loop!RetryProcess
    <3> QED
      BY <3>2 DEF Loop!Next, Loop!Step
  <2>7. CASE CommitSucceeds
    <3>1. CASE cur = last
      <4>1. Loop!Goto(Self, "commit", "poll")
        BY <2>2, <2>7, <3>1 DEF CommitSucceeds, Goto, Phase
      <4>2. Loop!CommitSucceeds(Self)
        BY <1>1, <2>1, <2>7, <3>1, <4>1 DEF CommitSucceeds, Loop!CommitSucceeds
      <4> QED
        BY <4>2 DEF Loop!Next, Loop!Step
    <3>2. CASE cur # last
      <4>1. Loop!Goto(Self, "commit", "process")
        BY <2>2, <2>7, <3>2 DEF CommitSucceeds, Goto, Phase
      <4>2. curs' = [curs EXCEPT ![Self] = @ + 1]
        BY <2>7, <3>2 DEF CommitSucceeds
      <4>3. Loop!CommitSucceeds(Self)
        BY <1>1, <2>1, <2>7, <3>2, <4>1, <4>2 DEF CommitSucceeds, Loop!CommitSucceeds
      <4> QED
        BY <4>3 DEF Loop!Next, Loop!Step
    <3> QED
      BY <3>1, <3>2
  <2>8. CASE CommitFails
    <3>1. Loop!Goto(Self, "commit", "commitWait")
      BY <2>2, <2>8 DEF CommitFails, Goto, Phase
    <3>2. Loop!CommitFails(Self)
      BY <1>1, <2>1, <2>8, <3>1 DEF CommitFails, Loop!CommitFails
    <3> QED
      BY <3>2 DEF Loop!Next, Loop!Step
  <2>9. CASE RetryCommit
    <3>1. Loop!Goto(Self, "commitWait", "commit")
      BY <2>2, <2>9 DEF RetryCommit, Goto, Phase
    <3>2. Loop!RetryCommit(Self)
      BY <1>1, <2>1, <2>9, <3>1 DEF RetryCommit, Loop!RetryCommit
    <3> QED
      BY <3>2 DEF Loop!Next, Loop!Step
  <2> QED
    BY <1>3, <2>3, <2>4, <2>5, <2>6, <2>7, <2>8, <2>9
<1> QED
  BY <1>2, <1>3 DEF Consumer

(* A process that leaves its group stops there and then, once.             *)
LEMMA LoopStops ==
  ASSUME IInv, LeaveGroup, UNCHANGED <<committed, batch, timeouts>>,
         \/ pc # "down" /\ ends < MaxRestarts /\ main' # "exited" /\ ends' = ends
         \/ main # "exited" /\ ends < MaxRestarts /\ main' = "exited" /\ ends' = ends + 1
  PROVE  [Loop!Next]_(Loop!vars)
<1> USE DEF batch
<1>1. owner' = IF owner = Self THEN None ELSE owner
  BY DEF LeaveGroup, IInv, TypeOK
<1>2. Phase' = "down"
  BY DEF LeaveGroup, Phase
<1>3. ends \in 0 .. MaxRestarts /\ timeouts \in 0 .. MaxTimeouts
  BY DEF IInv, TypeOK
<1>4. CASE pc = "down"
  <2>1. main # "exited" /\ main' = "exited" /\ ends' = ends + 1 /\ pc' = "down"
    BY <1>4 DEF LeaveGroup
  <2>2. Phase = "down"
    BY <1>4 DEF Phase
  <2>3. (ends + timeouts + (IF pc = "down" /\ main # "exited" THEN 1 ELSE 0))'
        = ends + timeouts + (IF pc = "down" /\ main # "exited" THEN 1 ELSE 0)
    BY <1>3, <1>4, <2>1
  <2>4. CASE owner = None
    BY <1>2, <2>2, <2>3, <2>4 DEF LeaveGroup, Loop!vars
  <2>5. CASE owner = Self
    <3>1. owner = None
      BY <1>4 DEF IInv, ConsumerOK
    <3> QED
      BY <2>4, <3>1
  <2> QED
    BY <2>4, <2>5 DEF IInv, TypeOK
<1>5. CASE pc # "down"
  <2>1. Phase # "down"
    BY <1>5 DEF Phase
  <2>2. (ends + timeouts + (IF pc = "down" /\ main # "exited" THEN 1 ELSE 0))'
        = ends + timeouts + (IF pc = "down" /\ main # "exited" THEN 1 ELSE 0) + 1
    BY <1>3, <1>5 DEF LeaveGroup
  <2>3. ends + timeouts + (IF pc = "down" /\ main # "exited" THEN 1 ELSE 0)
        < MaxRestarts + MaxTimeouts
    BY <1>3, <1>5, ServiceAssumption
  <2>4. Loop!Stop(Self)
    BY <1>1, <1>2, <2>1, <2>2, <2>3 DEF Loop!Stop
  <2> QED
    BY <2>4 DEF Loop!Next, Loop!Step
<1> QED
  BY <1>4, <1>5

LEMMA LoopInit == Init => Loop!Init
<1> SUFFICES ASSUME Init PROVE Loop!Init
  OBVIOUS
<1>1. Phase = "poll" /\ pc # "down"
  BY DEF Init, Phase
<1> QED
  BY <1>1 DEF Init, Loop!Init, Loop!Records

(* The steps in which the consumer's record does not move.                 *)
LEMMA LoopKept ==
  ASSUME IInv, UNCHANGED <<pc, owner, committed, batch, ends, timeouts>>,
         main # "exited" <=> main' # "exited"
  PROVE  UNCHANGED Loop!vars
  BY DEF Loop!vars, Phase, batch

LEMMA LoopNext ==
  ASSUME IInv, [Next]_vars
  PROVE  [Loop!Next]_(Loop!vars)
<1>1. CASE UNCHANGED vars
  BY <1>1, LoopKept DEF vars, process
<1>2. CASE \E r \in Requests : Request(r)
  BY <1>2, LoopKept
  DEF Request, Accept, Query, QueryFails, QueryDone, Answer, QueryCancelled, Stream,
      StreamWrites, StreamExpires, StreamStops, Becomes
<1>3. CASE Consumer
  BY <1>3, LoopStep
<1>4. CASE Assign
  <2>1. pc = "poll" /\ pc' = "poll" /\ Phase = "poll" /\ Phase' = "poll"
    BY <1>4 DEF Assign, Phase
  <2>2. Loop!Assign(Self)
    BY <1>4, <2>1 DEF Assign, Loop!Assign, process
  <2> QED
    BY <2>2 DEF Loop!Next, Loop!Step
<1>5. CASE SessionTimeout
  <2>1. pc' = pc /\ main' = main /\ Phase' = Phase /\ ends' = ends
    BY <1>5 DEF SessionTimeout, process, Phase
  <2>2. pc # "down"
    BY <1>5, ServiceAssumption DEF SessionTimeout, IInv, ConsumerOK
  <2>3. ends + timeouts + (IF pc = "down" /\ main # "exited" THEN 1 ELSE 0)
        < MaxRestarts + MaxTimeouts
    BY <1>5, <2>2, ServiceAssumption DEF SessionTimeout, IInv, TypeOK
  <2>4. (ends + timeouts + (IF pc = "down" /\ main # "exited" THEN 1 ELSE 0))'
        = ends + timeouts + (IF pc = "down" /\ main # "exited" THEN 1 ELSE 0) + 1
    BY <1>5, <2>1, <2>2 DEF SessionTimeout, IInv, TypeOK
  <2>5. Loop!SessionTimeout(Self)
    BY <1>5, <2>1, <2>2, <2>3, <2>4 DEF SessionTimeout, Loop!SessionTimeout, batch
  <2> QED
    BY <2>5 DEF Loop!Next, Loop!Step
<1>6. CASE Serve \/ Cancelled \/ Shutdown \/ Drained \/ ShutdownTimeout \/ ClosePool
  BY <1>6, LoopKept
  DEF Serve, Cancelled, Shutdown, Drained, ShutdownTimeout, ClosePool, Moves, AfterDraining
<1>7. CASE CloseConsumer
  <2>1. pc # "down" /\ ends < MaxRestarts
    BY <1>7 DEF CloseConsumer, Moves, IInv, ConsumerOK, MainOK
  <2> QED
    BY <1>7, <2>1, LoopStops DEF CloseConsumer, Moves
<1>8. CASE Exit
  <2>1. ends < MaxRestarts /\ main # "exited" /\ main' = "exited" /\ ends' = ends + 1
    BY <1>8 DEF Exit, Moves, IInv, MainOK
  <2> QED
    BY <1>8, <2>1, LoopStops DEF Exit
<1>9. CASE Kill
  BY <1>9, LoopStops DEF Kill
<1>10. CASE Restart
  <2>1. pc = "down" /\ pc' = "poll" /\ main = "exited" /\ main' = "running"
    BY <1>10 DEF Restart, Fresh, IInv, ConsumerOK
  <2>2. Phase = "down" /\ Phase' = "poll"
    BY <2>1 DEF Phase
  <2>3. Loop!Start(Self)
    BY <1>10, <2>1, <2>2 DEF Restart, Loop!Start, Loop!Goto, batch
  <2> QED
    BY <2>3 DEF Loop!Next, Loop!Step
<1> QED
  BY <1>1, <1>2, <1>3, <1>4, <1>5, <1>6, <1>7, <1>8, <1>9, <1>10 DEF Next, Main

(* The consumer within its service, with the checks of the context and the *)
(* order main stops things in, is a member of RecordWork.                  *)
THEOREM ServiceRunsRecordLoop == Spec => ImplementsRecordLoop
  BY LoopInit, LoopNext, SpecIInv, PTL DEF Spec, ImplementsRecordLoop, Loop!Spec
=============================================================================
