----------------------------- MODULE LiveUpdates ------------------------------
(***************************************************************************)
(* How a change of the uploads table reaches the documents list in a       *)
(* browser: ApplyProgress notifies channel upload_progress, every          *)
(* dashboard replica listens on it (progress.Hub.Run) and signals its      *)
(* event streams (Hub.Broadcast), each stream writes an event              *)
(* (HandleEvents), the browser answers an event with a delayed             *)
(* invalidation (useUploadEvents), and that with a fetch of the list.      *)
(* Events carry no data.  The list is also fetched now and then, which     *)
(* covers what the events miss.                                            *)
(*                                                                         *)
(* The table and the list shown are versions: the number of changes so far *)
(* and the number of changes they reflect.                                 *)
(***************************************************************************)
EXTENDS Naturals

CONSTANTS
  Replicas,    \* the dashboard instances
  Clients,     \* the browsers
  MaxChanges,  \* bound on the changes of the uploads table
  MaxFaults    \* bound on broken connections and failing requests

ASSUME LiveUpdatesAssumption == MaxChanges \in Nat /\ MaxFaults \in Nat

VARIABLES
  version,    \* the uploads table
  announced,  \* its version at the last notification
  listener,   \* per replica, where Hub.Run is
  notices,    \* per replica, the notifications on its connection
  handler,    \* per client, where the HandleEvents of its stream is
  at,         \* per client, the replica of its last stream
  signal,     \* per client, the one-element channel of its stream
  events,     \* per client, the events on their way to the browser
  stream,     \* per client, the state of its EventSource
  timer,      \* per client, whether the 200 ms timer runs
  fetch,      \* per client, the fetch of the list under way
  view,       \* per client, the version of the list shown
  missed,     \* history, per client: see FireTimer and FetchFails
  faults

table == <<version, announced>>
hub == <<listener, notices>>
server == <<handler, at, signal>>
browser == <<stream, timer, fetch, view, missed>>
vars == <<table, hub, server, events, browser, faults>>

NoFetch == [step |-> "none", version |-> 0]

Init ==
  /\ version = 0 /\ announced = 0
  /\ listener = [r \in Replicas |-> "down"]
  /\ notices = [r \in Replicas |-> 0]
  /\ handler = [c \in Clients |-> "none"]
  /\ at \in [Clients -> Replicas]
  /\ signal = [c \in Clients |-> FALSE]
  /\ events = [c \in Clients |-> 0]
  /\ stream = [c \in Clients |-> "closed"]
  /\ timer = [c \in Clients |-> FALSE]
  /\ fetch = [c \in Clients |-> NoFetch]
  /\ view = [c \in Clients |-> 0]
  /\ missed = [c \in Clients |-> FALSE]
  /\ faults = 0

Fault == faults < MaxFaults /\ faults' = faults + 1

-----------------------------------------------------------------------------
(* The table.  Only ApplyProgress notifies; creating, marking and deleting *)
(* a row does not.                                                         *)
Change ==
  /\ version < MaxChanges
  /\ version' = version + 1
  /\ UNCHANGED <<announced, hub, server, events, browser, faults>>

Listening(r) == listener[r] \in {"reconcile", "listening"}

ApplyProgressNotifiesEarly ==
  /\ version < MaxChanges
  /\ announced' = version + 1
  /\ notices' = [r \in Replicas |->
                   IF Listening(r) THEN notices[r] + 1 ELSE notices[r]]
  /\ UNCHANGED <<version, listener, server, events, browser, faults>>

ApplyProgress ==
  /\ version < MaxChanges
  /\ version' = version + 1
  /\ announced' = version + 1
  /\ notices' = [r \in Replicas |->
                   IF Listening(r) THEN notices[r] + 1 ELSE notices[r]]
  /\ UNCHANGED <<listener, server, events, browser, faults>>

-----------------------------------------------------------------------------
(* Hub.  A stream is subscribed until its handler returns.                 *)
Subscribed(c) == handler[c] \in {"greeting", "waiting", "writing"}

Broadcast(r) ==
  signal' = [c \in Clients |-> signal[c] \/ (Subscribed(c) /\ at[c] = r)]

(* Run connects and listens; what was notified before is missed ...        *)
Listen(r) ==
  /\ listener[r] = "down"
  /\ listener' = [listener EXCEPT ![r] = "reconcile"]
  /\ UNCHANGED <<table, notices, server, events, browser, faults>>

(* ... so every stream is signalled once.                                  *)
ReconcileNothing(r) ==
  /\ listener[r] = "reconcile"
  /\ listener' = [listener EXCEPT ![r] = "listening"]
  /\ UNCHANGED <<table, notices, server, events, browser, faults>>

Reconcile(r) ==
  /\ listener[r] = "reconcile"
  /\ listener' = [listener EXCEPT ![r] = "listening"]
  /\ Broadcast(r)
  /\ UNCHANGED <<table, notices, handler, at, events, browser, faults>>

Notified(r) ==
  /\ listener[r] = "listening"
  /\ notices[r] > 0
  /\ notices' = [notices EXCEPT ![r] = @ - 1]
  /\ Broadcast(r)
  /\ UNCHANGED <<table, listener, handler, at, events, browser, faults>>

(* The connection to PostgreSQL breaks with its notifications.             *)
ListenerFails(r) ==
  /\ Listening(r)
  /\ Fault
  /\ listener' = [listener EXCEPT ![r] = "down"]
  /\ notices' = [notices EXCEPT ![r] = 0]
  /\ UNCHANGED <<table, server, events, browser>>

-----------------------------------------------------------------------------
(* HandleEvents: subscribe, greet with an event, then one for each signal. *)
Subscribe(c, r) ==
  /\ stream[c] = "connecting"
  /\ handler[c] = "none"
  /\ handler' = [handler EXCEPT ![c] = "greeting"]
  /\ at' = [at EXCEPT ![c] = r]
  /\ signal' = [signal EXCEPT ![c] = FALSE]
  /\ UNCHANGED <<table, hub, events, browser, faults>>

TakeSignal(c) ==
  /\ handler[c] = "waiting"
  /\ signal[c]
  /\ signal' = [signal EXCEPT ![c] = FALSE]
  /\ handler' = [handler EXCEPT ![c] = "writing"]
  /\ UNCHANGED <<table, hub, at, events, browser, faults>>

Write(c) ==
  /\ handler[c] \in {"greeting", "writing"}
  /\ handler' = [handler EXCEPT ![c] = "waiting"]
  /\ events' = [events EXCEPT ![c] = @ + 1]
  /\ UNCHANGED <<table, hub, at, signal, browser, faults>>

End(c) ==
  /\ handler' = [handler EXCEPT ![c] = "ended"]
  /\ UNCHANGED <<table, hub, at, signal, events, browser>>

(* After five minutes the stream ends, so that the browser authenticates   *)
(* again.                                                                  *)
Lifetime(c) == handler[c] = "waiting" /\ End(c) /\ UNCHANGED faults

(* The connection fails: it is refused, a write fails, the replica stops.  *)
StreamFails(c) == stream[c] # "closed" /\ handler[c] # "ended" /\ Fault /\ End(c)

-----------------------------------------------------------------------------
(* useUploadEvents.  invalidate() does nothing while its timer runs.       *)
Open(c) ==
  /\ stream[c] = "closed"
  /\ stream' = [stream EXCEPT ![c] = "connecting"]
  /\ handler' = [handler EXCEPT ![c] = "none"]
  /\ UNCHANGED <<table, hub, at, signal, events, timer, fetch, view, missed, faults>>

Invalidate(c) == timer' = [timer EXCEPT ![c] = TRUE]

(* The response begins with the greeting.                                  *)
OnOpen(c) ==
  /\ stream[c] = "connecting"
  /\ events[c] > 0
  /\ stream' = [stream EXCEPT ![c] = "open"]
  /\ Invalidate(c)
  /\ UNCHANGED <<table, hub, server, events, fetch, view, missed, faults>>

OnChanged(c) ==
  /\ stream[c] = "open"
  /\ events[c] > 0
  /\ events' = [events EXCEPT ![c] = @ - 1]
  /\ Invalidate(c)
  /\ UNCHANGED <<table, hub, server, stream, fetch, view, missed, faults>>

OnError(c) ==
  /\ stream[c] # "closed"
  /\ handler[c] = "ended"
  /\ stream' = [stream EXCEPT ![c] = "closed"]
  /\ events' = [events EXCEPT ![c] = 0]
  /\ Invalidate(c)
  /\ UNCHANGED <<table, hub, server, fetch, view, missed, faults>>

Fetch(c) ==
  /\ fetch' = [fetch EXCEPT ![c] = [step |-> "sent", version |-> 0]]
  /\ missed' = [missed EXCEPT ![c] = FALSE]

(* invalidateQueries with cancelRefetch: false: a fetch under way is left  *)
(* to finish, and no other is started.  missed records that it had read    *)
(* the table already.                                                      *)
FireTimer(c) ==
  /\ timer[c]
  /\ timer' = [timer EXCEPT ![c] = FALSE]
  /\ IF fetch[c] = NoFetch
     THEN Fetch(c)
     ELSE /\ missed' = [missed EXCEPT ![c] = @ \/ fetch[c].step = "read"]
          /\ UNCHANGED fetch
  /\ UNCHANGED <<table, hub, server, events, stream, view, faults>>

-----------------------------------------------------------------------------
(* The query of the documents list: refetchInterval, the user's refresh    *)
(* (which cancels a fetch under way), the request and its answer.          *)
PollUnlessConnected(c) ==
  /\ fetch[c] = NoFetch
  /\ stream[c] # "open"
  /\ Fetch(c)
  /\ UNCHANGED <<table, hub, server, events, stream, timer, view, faults>>

Poll(c) ==
  /\ fetch[c] = NoFetch
  /\ Fetch(c)
  /\ UNCHANGED <<table, hub, server, events, stream, timer, view, faults>>

Refresh(c) ==
  /\ fetch[c] # NoFetch
  /\ Fetch(c)
  /\ UNCHANGED <<table, hub, server, events, stream, timer, view, faults>>

FetchReads(c) ==
  /\ fetch[c].step = "sent"
  /\ fetch' = [fetch EXCEPT ![c] = [step |-> "read", version |-> version]]
  /\ UNCHANGED <<table, hub, server, events, stream, timer, view, missed, faults>>

FetchArrives(c) ==
  /\ fetch[c].step = "read"
  /\ view' = [view EXCEPT ![c] = fetch[c].version]
  /\ fetch' = [fetch EXCEPT ![c] = NoFetch]
  /\ UNCHANGED <<table, hub, server, events, stream, timer, missed, faults>>

(* The list stays as it is, under an error message.                        *)
FetchFails(c) ==
  /\ fetch[c] # NoFetch
  /\ Fault
  /\ fetch' = [fetch EXCEPT ![c] = NoFetch]
  /\ missed' = [missed EXCEPT ![c] = TRUE]
  /\ UNCHANGED <<table, hub, server, events, stream, timer, view>>

-----------------------------------------------------------------------------
Hub(r) ==
  \/ Listen(r)
  \/ Reconcile(r)
  \/ Notified(r)
  \/ ListenerFails(r)

Stream(c) ==
  \/ \E r \in Replicas : Subscribe(c, r)
  \/ TakeSignal(c)
  \/ Write(c)
  \/ Lifetime(c)
  \/ StreamFails(c)

Browser(c) ==
  \/ Open(c)
  \/ OnOpen(c)
  \/ OnChanged(c)
  \/ OnError(c)
  \/ FireTimer(c)
  \/ Poll(c)
  \/ Refresh(c)
  \/ FetchReads(c)
  \/ FetchArrives(c)
  \/ FetchFails(c)

Next ==
  \/ Change
  \/ ApplyProgress
  \/ \E r \in Replicas : Hub(r)
  \/ \E c \in Clients : Stream(c) \/ Browser(c)

Spec == Init /\ [][Next]_vars

(* The page polls and its fetches are answered unless the user cancels     *)
(* them; nothing is assumed of the event stream, which a browser may hold  *)
(* for open long after the connection is gone.                             *)
Fairness ==
  \A c \in Clients : WF_vars(Poll(c)) /\ SF_vars(FetchReads(c)) /\ SF_vars(FetchArrives(c))

FairSpec == Spec /\ Fairness
-----------------------------------------------------------------------------
TypeOK ==
  /\ version \in 0 .. MaxChanges
  /\ announced \in 0 .. version
  /\ listener \in [Replicas -> {"down", "reconcile", "listening"}]
  /\ notices \in [Replicas -> Nat]
  /\ handler \in [Clients -> {"none", "greeting", "waiting", "writing", "ended"}]
  /\ at \in [Clients -> Replicas]
  /\ signal \in [Clients -> BOOLEAN]
  /\ events \in [Clients -> Nat]
  /\ stream \in [Clients -> {"closed", "connecting", "open"}]
  /\ timer \in [Clients -> BOOLEAN]
  /\ fetch \in [Clients -> [step : {"none", "sent", "read"}, version : 0 .. MaxChanges]]
  /\ view \in [Clients -> 0 .. MaxChanges]
  /\ missed \in [Clients -> BOOLEAN]
  /\ faults \in 0 .. MaxFaults

(* The stream works from end to end and nothing moves on it.               *)
Settled(c) ==
  /\ stream[c] = "open" /\ handler[c] = "waiting" /\ listener[at[c]] = "listening"
  /\ notices[at[c]] = 0 /\ ~signal[c] /\ events[c] = 0
  /\ ~timer[c] /\ fetch[c] = NoFetch

(* No notification is lost between the database and the list: when a       *)
(* working stream has come to rest, the list shows the announced version,  *)
(* whatever was reconnected, coalesced or reordered before -- except where *)
(* the last fetch failed or swallowed an invalidation.                     *)
InSyncUnlessMissed ==
  \A c \in Clients : Settled(c) /\ ~missed[c] => view[c] >= announced

(* The polling fallback (frontend/README.md:8): every change is shown in   *)
(* the end, the ones nobody notifies too, whatever becomes of the stream.  *)
EventuallyShown ==
  \A c \in Clients, v \in 1 .. MaxChanges : version >= v ~> view[c] >= v
===============================================================================
