---------------------------- MODULE UploadRecords ----------------------------
(***************************************************************************)
(* The uploads table of the dashboard service: one row per document, and   *)
(* the statements of upload.PostgresRepo with the checks the upload        *)
(* service makes before it calls them.  Each statement (ApplyProgress: one *)
(* transaction) is atomic in PostgreSQL, so each is one action; who calls  *)
(* them and in which order is Pipeline's business.                         *)
(***************************************************************************)
EXTENDS Integers

CONSTANT Uploads    \* the ids the database generates

VARIABLE row        \* the table

Unknown == -1       \* chunk_total IS NULL

(* "none" before the id is generated and "deleted" afterwards are both the *)
(* absence of a row: ids are generated once.                               *)
Statuses == {"pending", "uploaded", "processing", "processed"}

Row ==
  [status : Statuses \cup {"none", "deleted"}, total : Int, processed : Int]

NoRow(s) == [status |-> s, total |-> Unknown, processed |-> 0]

Exists(u) == row[u].status \in Statuses

Greatest(x, y) == IF x >= y THEN x ELSE y

RowsInit == row = [u \in Uploads |-> NoRow("none")]

(* INSERT with status pending; the two counters take their defaults.       *)
Create(u) ==
  /\ row[u].status = "none"
  /\ row' = [row EXCEPT ![u] = NoRow("pending")]

(* UpdateStatus(id, uploaded), the only status a caller passes: a document *)
(* already under way keeps its status.                                     *)
UpdateStatusRegresses(u) ==
  /\ Exists(u)
  /\ row' = [row EXCEPT ![u].status = "uploaded"]

UpdateStatus(u) ==
  /\ Exists(u)
  /\ row' = [row EXCEPT ![u].status =
                 IF @ \in {"processing", "processed"} THEN @ ELSE "uploaded"]

(* What the message, the service and the repository each test.             *)
ValidSnapshot(total, processed) == 0 <= processed /\ processed <= total

(* The answer of ApplyProgress to a snapshot (total, processed).           *)
ApplyVerdict(u, total, processed) ==
  IF ~ValidSnapshot(total, processed) THEN "InvalidInput"
  ELSE IF ~Exists(u) THEN "NotFound"
  ELSE IF row[u].total \notin {Unknown, total} THEN "InvalidInput"
  ELSE "ok"

(* The UPDATE of ApplyProgress: the snapshot is merged, never lowered.     *)
MergedOverwrites(r, total, processed) ==
  [status    |-> IF processed = total THEN "processed" ELSE "processing",
   total     |-> total,
   processed |-> processed]

MergedOffByOne(r, total, processed) ==
  LET done == Greatest(r.processed, processed)
  IN [status    |-> IF done + 1 >= total THEN "processed" ELSE "processing",
      total     |-> total,
      processed |-> done]

Merged(r, total, processed) ==
  LET done == Greatest(r.processed, processed)
  IN [status    |-> IF done = total THEN "processed" ELSE "processing",
      total     |-> total,
      processed |-> done]

(* ApplyProgress changes the row only when its answer is "ok".             *)
ApplyProgress(u, total, processed) ==
  row' = IF ApplyVerdict(u, total, processed) = "ok"
         THEN [row EXCEPT ![u] = Merged(@, total, processed)]
         ELSE row

DeleteByID(u) ==
  /\ Exists(u)
  /\ row' = [row EXCEPT ![u] = NoRow("deleted")]

-----------------------------------------------------------------------------
(* What the table's CHECK constraints demand (migrations/20261031000100):  *)
(* an update that broke them would fail, and be retried, for ever.         *)
WithinChecks(r) ==
  /\ r.total = Unknown \/ r.total >= 0
  /\ r.processed >= 0
  /\ r.total = Unknown \/ r.processed <= r.total

(* How far along a row is; a row never moves down this order.              *)
Rank(s) ==
  CASE s = "none" -> 0
    [] s = "pending" -> 1
    [] s = "uploaded" -> 2
    [] s = "processing" -> 3
    [] s = "processed" -> 4
    [] s = "deleted" -> 5
===============================================================================
