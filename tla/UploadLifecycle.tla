--------------------------- MODULE UploadLifecycle ---------------------------
(***************************************************************************)
(* What the document pipeline promises to whoever watches the dashboard,   *)
(* with no queue, worker or failure in sight: a document is registered,    *)
(* accepted, its sections become searchable in any order, and from time    *)
(* to time the dashboard reports some number of sections that are          *)
(* searchable by then, never fewer than before.  It is processed exactly   *)
(* when all of them have been reported.                                    *)
(***************************************************************************)
EXTENDS Integers, FiniteSets

CONSTANTS
  Uploads,    \* the documents
  Sections    \* how many sections each has

VARIABLES
  status,      \* what the dashboard shows
  reported,    \* the number of finished sections it shows
  searchable   \* the sections retrieval can find

vars == <<status, reported, searchable>>

Init ==
  /\ status = [u \in Uploads |-> "none"]
  /\ reported = [u \in Uploads |-> 0]
  /\ searchable = [u \in Uploads |-> {}]

Register(u) ==
  /\ status[u] = "none"
  /\ status' = [status EXCEPT ![u] = "pending"]
  /\ UNCHANGED <<reported, searchable>>

(* The client has stored documents; one notification may name several, but *)
(* each is accepted on its own.                                            *)
Accept(u) ==
  /\ status[u] = "pending"
  /\ status' = [status EXCEPT ![u] = "uploaded"]
  /\ UNCHANGED <<reported, searchable>>

(* Sections of an accepted document keep arriving even if its row is       *)
(* deleted meanwhile.                                                      *)
Index(u, i) ==
  /\ status[u] \in {"uploaded", "processing", "processed", "deleted"}
  /\ searchable' = [searchable EXCEPT ![u] = @ \cup {i}]
  /\ UNCHANGED <<status, reported>>

Report(u, k) ==
  /\ status[u] \in {"uploaded", "processing"}
  /\ reported[u] <= k
  /\ k <= Cardinality(searchable[u])
  /\ reported' = [reported EXCEPT ![u] = k]
  /\ status' = [status EXCEPT ![u] =
                   IF k = Sections[u] THEN "processed" ELSE "processing"]
  /\ UNCHANGED searchable

Remove(u) ==
  /\ status[u] \notin {"none", "deleted"}
  /\ status' = [status EXCEPT ![u] = "deleted"]
  /\ reported' = [reported EXCEPT ![u] = 0]
  /\ UNCHANGED searchable

Next ==
  \E u \in Uploads :
    \/ Register(u)
    \/ Accept(u)
    \/ \E i \in 0 .. Sections[u] - 1 : Index(u, i)
    \/ \E k \in 0 .. Sections[u] : Report(u, k)
    \/ Remove(u)

Spec == Init /\ [][Next]_vars
===============================================================================
