-------------------------- MODULE LiveUpdates_proofs --------------------------
(***************************************************************************)
(* LiveUpdates for any number of replicas, clients, changes and faults: no *)
(* notification is lost between the database and a list.                   *)
(***************************************************************************)
EXTENDS LiveUpdates, TLAPS

(* Where the last notification can be when the list of c is older: on the  *)
(* listener's connection, in the channel of the stream, with its handler,  *)
(* on the wire, behind the timer, or in a fetch that will read or has read *)
(* late enough.                                                            *)
OnItsWay(c) ==
  \/ notices[at[c]] > 0
  \/ signal[c] = TRUE
  \/ handler[c] \in {"greeting", "writing"}
  \/ events[c] > 0
  \/ timer[c] = TRUE
  \/ fetch[c].step = "sent"
  \/ fetch[c].step = "read" /\ fetch[c].version >= announced

(* The inductive invariant: wherever the listener and the stream work, the *)
(* list is recent, or something is on its way, or the fetch missed it.     *)
NothingLost ==
  \A c \in Clients :
    (Subscribed(c) /\ listener[at[c]] = "listening")
      => (OnItsWay(c) \/ missed[c] = TRUE \/ view[c] >= announced)

(* A fetch reads what is at least as new as the list it will replace.      *)
FetchOK ==
  \A c \in Clients :
    /\ fetch[c].step = "none" => fetch[c] = NoFetch
    /\ fetch[c].step = "read" => view[c] <= fetch[c].version
    /\ view[c] <= version
    /\ fetch[c].version <= version

IInv == TypeOK /\ FetchOK /\ NothingLost

LEMMA InitInvariant ==
  ASSUME Init
  PROVE  IInv
BY LiveUpdatesAssumption
   DEF Init, IInv, TypeOK, FetchOK, NothingLost, NoFetch, Subscribed

LEMMA NextTypes ==
  ASSUME TypeOK, FetchOK, [Next]_vars
  PROVE  TypeOK' /\ FetchOK'
<1> USE LiveUpdatesAssumption DEF TypeOK, FetchOK, NoFetch
<1>1. CASE Change
  BY <1>1 DEF Change, hub, server, browser
<1>2. CASE ApplyProgress
  BY <1>2 DEF ApplyProgress, server, browser
<1>3. ASSUME NEW r \in Replicas, Hub(r)
      PROVE  TypeOK' /\ FetchOK'
  <2>1. CASE Listen(r)
    BY <2>1 DEF Listen, table, server, browser
  <2>2. ASSUME Broadcast(r)
        PROVE  signal' \in [Clients -> BOOLEAN]
    BY <2>2 DEF Broadcast
  <2>3. CASE Reconcile(r)
    BY <2>2, <2>3 DEF Reconcile, table, browser
  <2>4. CASE Notified(r)
    BY <2>2, <2>4 DEF Notified, table, browser
  <2>5. CASE ListenerFails(r)
    BY <2>5 DEF ListenerFails, Fault, table, server, browser
  <2> QED
    BY <1>3, <2>1, <2>3, <2>4, <2>5 DEF Hub
<1>4. ASSUME NEW c \in Clients, Stream(c)
      PROVE  TypeOK' /\ FetchOK'
  <2>1. ASSUME NEW r \in Replicas, Subscribe(c, r)
        PROVE  TypeOK' /\ FetchOK'
    BY <2>1 DEF Subscribe, table, hub, browser
  <2>2. CASE TakeSignal(c)
    BY <2>2 DEF TakeSignal, table, hub, browser
  <2>3. CASE Write(c)
    BY <2>3 DEF Write, table, hub, browser
  <2>4. CASE Lifetime(c)
    BY <2>4 DEF Lifetime, End, table, hub, browser
  <2>5. CASE StreamFails(c)
    BY <2>5 DEF StreamFails, End, Fault, table, hub, browser
  <2> QED
    BY <1>4, <2>1, <2>2, <2>3, <2>4, <2>5 DEF Stream
<1>5. ASSUME NEW c \in Clients, Browser(c)
      PROVE  TypeOK' /\ FetchOK'
  <2>1. CASE Open(c)
    BY <2>1 DEF Open, table, hub
  <2>2. CASE OnOpen(c)
    BY <2>2 DEF OnOpen, Invalidate, table, hub, server
  <2>3. CASE OnChanged(c)
    BY <2>3 DEF OnChanged, Invalidate, table, hub, server
  <2>4. CASE OnError(c)
    BY <2>4 DEF OnError, Invalidate, table, hub, server
  <2>5. CASE FireTimer(c)
    <3>1. CASE fetch[c] = NoFetch
      <4>1. Fetch(c) /\ timer' = [timer EXCEPT ![c] = FALSE]
        BY <2>5, <3>1 DEF FireTimer
      <4>2. UNCHANGED <<table, hub, server, events, stream, view, faults>>
        BY <2>5 DEF FireTimer
      <4> QED
        BY <4>1, <4>2 DEF Fetch, table, hub, server
    <3>2. CASE fetch[c] # NoFetch
      <4>1. missed' = [missed EXCEPT ![c] = missed[c] \/ fetch[c].step = "read"]
        BY <2>5, <3>2 DEF FireTimer
      <4>2. missed' \in [Clients -> BOOLEAN]
        BY <4>1
      <4> QED
        BY <2>5, <3>2, <4>2 DEF FireTimer, table, hub, server
    <3> QED
      BY <3>1, <3>2
  <2>6. CASE Poll(c)
    BY <2>6 DEF Poll, Fetch, table, hub, server
  <2>7. CASE Refresh(c)
    BY <2>7 DEF Refresh, Fetch, table, hub, server
  <2>8. CASE FetchReads(c)
    BY <2>8 DEF FetchReads, table, hub, server
  <2>9. CASE FetchArrives(c)
    BY <2>9 DEF FetchArrives, table, hub, server
  <2>10. CASE FetchFails(c)
    BY <2>10 DEF FetchFails, Fault, table, hub, server
  <2> QED
    BY <1>5, <2>1, <2>2, <2>3, <2>4, <2>5, <2>6, <2>7, <2>8, <2>9, <2>10 DEF Browser
<1>6. CASE UNCHANGED vars
  BY <1>6 DEF vars, table, hub, server, browser
<1> QED
  BY <1>1, <1>2, <1>3, <1>4, <1>5, <1>6 DEF Next

LEMMA NextNothingLost ==
  ASSUME IInv, [Next]_vars
  PROVE  NothingLost'
<1> SUFFICES ASSUME NEW d \in Clients, Subscribed(d)', (listener[at[d]])' = "listening"
             PROVE  OnItsWay(d)' \/ missed'[d] = TRUE \/ view'[d] >= announced'
  BY DEF NothingLost
<1>1. TypeOK' /\ FetchOK'
  BY NextTypes DEF IInv
<1> USE LiveUpdatesAssumption
    DEF IInv, TypeOK, FetchOK, NothingLost, OnItsWay, Subscribed, NoFetch
<1>2. CASE Change
  BY <1>2 DEF Change, hub, server, browser
<1>3. CASE ApplyProgress
  BY <1>3 DEF ApplyProgress, Listening, server, browser
<1>4. ASSUME NEW r \in Replicas, Hub(r)
      PROVE  OnItsWay(d)' \/ missed'[d] = TRUE \/ view'[d] >= announced'
  <2>1. CASE Listen(r)
    BY <2>1 DEF Listen, table, server, browser
  <2>2. ASSUME Broadcast(r), UNCHANGED <<handler, at>>
        PROVE  /\ at[d] = r => signal'[d] = TRUE
               /\ signal[d] = TRUE => signal'[d] = TRUE
    BY <2>2 DEF Broadcast
  <2>3. CASE Reconcile(r)
    BY <2>2, <2>3 DEF Reconcile, table, browser
  <2>4. CASE Notified(r)
    BY <2>2, <2>4 DEF Notified, table, browser
  <2>5. CASE ListenerFails(r)
    BY <2>5 DEF ListenerFails, table, server, browser
  <2> QED
    BY <1>4, <2>1, <2>3, <2>4, <2>5 DEF Hub
<1>5. ASSUME NEW c \in Clients, Stream(c)
      PROVE  OnItsWay(d)' \/ missed'[d] = TRUE \/ view'[d] >= announced'
  <2>1. ASSUME NEW r \in Replicas, Subscribe(c, r)
        PROVE  OnItsWay(d)' \/ missed'[d] = TRUE \/ view'[d] >= announced'
    BY <2>1 DEF Subscribe, table, hub, browser
  <2>2. CASE TakeSignal(c)
    BY <2>2 DEF TakeSignal, table, hub, browser
  <2>3. CASE Write(c)
    BY <2>3 DEF Write, table, hub, browser
  <2>4. CASE Lifetime(c)
    BY <2>4 DEF Lifetime, End, table, hub, browser
  <2>5. CASE StreamFails(c)
    BY <2>5 DEF StreamFails, End, table, hub, browser
  <2> QED
    BY <1>5, <2>1, <2>2, <2>3, <2>4, <2>5 DEF Stream
<1>6. ASSUME NEW c \in Clients, Browser(c)
      PROVE  OnItsWay(d)' \/ missed'[d] = TRUE \/ view'[d] >= announced'
  <2>1. CASE Open(c)
    BY <2>1 DEF Open, table, hub
  <2>2. CASE OnOpen(c)
    BY <2>2 DEF OnOpen, Invalidate, table, hub, server
  <2>3. CASE OnChanged(c)
    BY <2>3 DEF OnChanged, Invalidate, table, hub, server
  <2>4. CASE OnError(c)
    BY <2>4 DEF OnError, Invalidate, table, hub, server
  <2>5. CASE FireTimer(c)
    <3>1. CASE fetch[c] = NoFetch
      <4>1. Fetch(c) /\ timer' = [timer EXCEPT ![c] = FALSE]
        BY <2>5, <3>1 DEF FireTimer
      <4>2. UNCHANGED <<table, hub, server, events, stream, view, faults>>
        BY <2>5 DEF FireTimer
      <4> QED
        BY <4>1, <4>2 DEF Fetch, table, hub, server
    <3>2. CASE fetch[c] # NoFetch
      <4>1. fetch[c].step \in {"sent", "read"}
        BY <3>2
      <4>2. missed' = [missed EXCEPT ![c] = missed[c] \/ fetch[c].step = "read"]
        BY <2>5, <3>2 DEF FireTimer
      <4>3. /\ missed[d] = TRUE => missed'[d] = TRUE
            /\ d = c /\ fetch[c].step = "read" => missed'[d] = TRUE
        BY <4>2
      <4> QED
        BY <2>5, <3>2, <4>1, <4>3 DEF FireTimer, table, hub, server
    <3> QED
      BY <3>1, <3>2
  <2>6. CASE Poll(c)
    BY <2>6 DEF Poll, Fetch, table, hub, server
  <2>7. CASE Refresh(c)
    BY <2>7 DEF Refresh, Fetch, table, hub, server
  <2>8. CASE FetchReads(c)
    BY <2>8 DEF FetchReads, table, hub, server
  <2>9. CASE FetchArrives(c)
    BY <2>9 DEF FetchArrives, table, hub, server
  <2>10. CASE FetchFails(c)
    BY <2>10 DEF FetchFails, table, hub, server
  <2> QED
    BY <1>6, <2>1, <2>2, <2>3, <2>4, <2>5, <2>6, <2>7, <2>8, <2>9, <2>10 DEF Browser
<1>7. CASE UNCHANGED vars
  BY <1>7 DEF vars, table, hub, server, browser
<1> QED
  BY <1>2, <1>3, <1>4, <1>5, <1>6, <1>7 DEF Next

(* Every reachable state satisfies the inductive invariant.                *)
THEOREM Invariance == Spec => []IInv
<1>1. IInv /\ [Next]_vars => IInv'
  BY NextTypes, NextNothingLost DEF IInv
<1> QED
  BY InitInvariant, <1>1, PTL DEF Spec

(* Every variable keeps its type, and the version announced by a           *)
(* notification is one the table has reached: pg_notify is part of the     *)
(* transaction of ApplyProgress.                                           *)
THEOREM TypeCorrect == Spec => []TypeOK
BY Invariance, PTL DEF IInv

(* When a working stream has come to rest, the list shows every announced  *)
(* change, unless the last fetch failed or swallowed an invalidation: Hub, *)
(* HandleEvents and useUploadEvents lose nothing.                          *)
THEOREM NotificationsReachTheList == Spec => []InSyncUnlessMissed
<1>1. IInv => InSyncUnlessMissed
  BY DEF IInv, TypeOK, NothingLost, OnItsWay, Subscribed, InSyncUnlessMissed,
         Settled, NoFetch
<1> QED
  BY Invariance, <1>1, PTL
===============================================================================
