------------------------------- MODULE Pipeline -------------------------------
(***************************************************************************)
(* The life of documents across Raggy: the dashboard API registers an      *)
(* upload and signs a storage URL, the client PUTs the object, storage     *)
(* notifies topic s3-events, the dashboard consumer marks the row and      *)
(* publishes to uploads, the ingestion worker cuts the document and        *)
(* publishes its total to upload-progress and its sections to chunks, the  *)
(* RAG service embeds and stores each section, counts what is stored and   *)
(* publishes that to upload-progress, and the dashboard consumer merges    *)
(* the counts into the row.                                                *)
(*                                                                         *)
(* A topic is one partition: a sequence that is only appended to and the   *)
(* offset its group has committed.  Every call a handler makes to a        *)
(* database or to Kafka is a step of its own, so a worker can fail, crash  *)
(* or lose its partition between any two of them; the record then comes    *)
(* again from the committed offset, and a worker that lost its partition   *)
(* goes on with the record in hand.  RecordWork models that loop in        *)
(* detail; here a worker has one record at a time.                         *)
(***************************************************************************)
EXTENDS UploadRecords, FiniteSets, Sequences

CONSTANTS
  Sections,       \* the number of sections of each document
  Malformed,      \* the documents projectreportmd.Parse refuses
  Notifications,  \* the notifications storage may send: sequences of uploads
  Workers,        \* the instances of each service
  MaxPuts,        \* bound on the objects PUT by clients
  MaxFaults,      \* bound on failures, crashes and lost partitions
  MaxDeletes      \* bound on deletions

ASSUME PipelineAssumption ==
  /\ Sections \in [Uploads -> Nat]
  /\ Malformed \subseteq Uploads
  /\ Notifications \subseteq Seq(Uploads) \ {<<>>}
  /\ Workers # {}
  /\ MaxPuts \in Nat /\ MaxFaults \in Nat /\ MaxDeletes \in Nat

S3Events == "s3-events"
UploadsTopic == "uploads"
ChunksTopic == "chunks"
ProgressTopic == "upload-progress"
Topics == {S3Events, UploadsTopic, ChunksTopic, ProgressTopic}

Service(t) ==
  CASE t \in {S3Events, ProgressTopic} -> "dashboard"
    [] t = UploadsTopic -> "ingestion-worker"
    [] t = ChunksTopic -> "rag"

VARIABLES
  signed,      \* the uploads whose client got a signed PUT URL
  s3Log,       \* the topics, oldest record first
  uploadsLog,
  chunksLog,
  progressLog,
  ragUploads,  \* the rag database's uploads table
  stored,      \* the section indexes in the rag database's chunks table
  committed,   \* per topic, the offset its group has committed
  owner,       \* per topic, the worker the partition is assigned to
  task,        \* per topic and worker, the record in hand
  puts, faults, deletes

logs == <<s3Log, uploadsLog, chunksLog, progressLog>>
rag == <<ragUploads, stored>>
bounds == <<puts, faults, deletes>>
vars == <<row, signed, logs, rag, committed, owner, task, bounds>>

LengthOf(t) ==
  CASE t = S3Events -> Len(s3Log)
    [] t = UploadsTopic -> Len(uploadsLog)
    [] t = ChunksTopic -> Len(chunksLog)
    [] t = ProgressTopic -> Len(progressLog)

-----------------------------------------------------------------------------
(* A task: the offset in hand, the handler's next step, a counter (the     *)
(* position in a notification, the sections published so far, or the count *)
(* read from the database) and whether a part failed that must be retried. *)
Idle == [off |-> 0, step |-> "idle", n |-> 0, failed |-> FALSE]

FirstStep(t) ==
  CASE t = S3Events -> "update"
    [] t = UploadsTopic -> "announce"
    [] t = ChunksTopic -> "upsert"
    [] t = ProgressTopic -> "apply"

Begin(t, off) ==
  [off |-> off, step |-> FirstStep(t), n |-> 0, failed |-> FALSE]

At(t, w, step) == task[t][w].step = step

Continue(t, w, step, n) ==
  task' = [task EXCEPT ![t][w] = [@ EXCEPT !.step = step, !.n = n]]

(* The two topics of the dashboard may go to one instance or be split; the  *)
(* instances of different services are not related, so they share names.   *)
Init ==
  /\ RowsInit
  /\ signed = {}
  /\ s3Log = <<>> /\ uploadsLog = <<>> /\ chunksLog = <<>> /\ progressLog = <<>>
  /\ ragUploads = {}
  /\ stored = [u \in Uploads |-> {}]
  /\ committed = [t \in Topics |-> 0]
  /\ owner \in {o \in [Topics -> Workers] :
                  o[UploadsTopic] = o[S3Events] /\ o[ChunksTopic] = o[S3Events]}
  /\ task = [t \in Topics |-> [w \in Workers |-> Idle]]
  /\ puts = 0 /\ faults = 0 /\ deletes = 0

-----------------------------------------------------------------------------
(* The dashboard API and its clients.                                      *)

(* A client can PUT the object once its URL was signed.                    *)
SignedPutURL(u) == signed' = signed \cup {u}

(* CreateUpload: the row first, then the signed URL, which may fail.       *)
CreateUpload(u) ==
  /\ Create(u)
  /\ SignedPutURL(u) \/ UNCHANGED signed
  /\ UNCHANGED <<logs, rag, committed, owner, task, bounds>>

(* Clients PUT objects; storage sends one notification naming them all.  A *)
(* client that retries a transfer PUTs the same object again.              *)
PutObjects(objects) ==
  /\ \A i \in DOMAIN objects : objects[i] \in signed
  /\ puts < MaxPuts
  /\ puts' = puts + 1
  /\ s3Log' = Append(s3Log, objects)
  /\ UNCHANGED <<row, signed, uploadsLog, chunksLog, progressLog, rag,
                 committed, owner, task, faults, deletes>>

(* DeleteUpload removes the row and nothing else.                          *)
DeleteUpload(u) ==
  /\ deletes < MaxDeletes
  /\ deletes' = deletes + 1
  /\ DeleteByID(u)
  /\ UNCHANGED <<signed, logs, rag, committed, owner, task, puts, faults>>

-----------------------------------------------------------------------------
(* The consumer loop around the handlers.                                  *)

(* A worker takes the next record.  The dashboard's one consumer serves    *)
(* both of its topics, one record at a time.                               *)
Fetch(t, w) ==
  /\ owner[t] = w
  /\ \A t2 \in Topics : Service(t2) = Service(t) => task[t2][w] = Idle
  /\ committed[t] < LengthOf(t)
  /\ task' = [task EXCEPT ![t][w] = Begin(t, committed[t] + 1)]
  /\ UNCHANGED <<row, signed, logs, rag, committed, owner, bounds>>

(* The record is handled; a commit counts only from the partition's owner. *)
Commit(t, w) ==
  /\ At(t, w, "commit")
  /\ owner[t] = w
  /\ committed' = [committed EXCEPT ![t] = task[t][w].off]
  /\ task' = [task EXCEPT ![t][w] = Idle]
  /\ UNCHANGED <<row, signed, logs, rag, owner, bounds>>

Fault ==
  /\ faults < MaxFaults
  /\ faults' = faults + 1

(* A call of the handler fails: the error goes back to ProcessRecord,      *)
(* which runs the handler again from its first step.  (The notification    *)
(* handler does not return at an error: see PartFails.)                    *)
HandlerFails(t, w) ==
  /\ t # S3Events
  /\ task[t][w].step \notin {"idle", "commit", FirstStep(t)}
  /\ Fault
  /\ task' = [task EXCEPT ![t][w] = Begin(t, task[t][w].off)]
  /\ UNCHANGED <<row, signed, logs, rag, committed, owner, puts, deletes>>

(* The worker's process stops and starts again with an empty hand.         *)
Crash(t, w) ==
  /\ task[t][w] # Idle
  /\ Fault
  /\ task' = [task EXCEPT ![t][w] = Idle]
  /\ UNCHANGED <<row, signed, logs, rag, committed, owner, puts, deletes>>

(* The group takes every partition of a service from w and gives them to   *)
(* an instance that is between two batches; w does not notice.             *)
LosePartitions(s, w, v) ==
  /\ w # v
  /\ \E t \in Topics : Service(t) = s /\ owner[t] = w
  /\ \A t \in Topics : Service(t) = s => task[t][v] = Idle
  /\ Fault
  /\ owner' = [t \in Topics |->
                 IF Service(t) = s /\ owner[t] = w THEN v ELSE owner[t]]
  /\ UNCHANGED <<row, signed, logs, rag, committed, task, puts, deletes>>

-----------------------------------------------------------------------------
(* The dashboard consumer on s3-events: the uploads of a notification one  *)
(* after the other, errors collected on the way.                           *)

Notified(w) == s3Log[task[S3Events][w].off]
Current(w) == Notified(w)[task[S3Events][w].n + 1]

(* The part in hand is done; after the last one the record is committed,   *)
(* or all of it is tried again if a part failed for a reason other than    *)
(* InvalidInput and NotFound.                                              *)
NextPart(w, failed) ==
  LET k == task[S3Events][w]
  IN task' = [task EXCEPT ![S3Events][w] =
       IF k.n + 1 < Len(Notified(w))
       THEN [off |-> k.off, step |-> "update", n |-> k.n + 1, failed |-> failed]
       ELSE IF failed THEN Begin(S3Events, k.off)
       ELSE [off |-> k.off, step |-> "commit", n |-> 0, failed |-> FALSE]]

MarkUploaded(w) ==
  /\ At(S3Events, w, "update")
  /\ UpdateStatus(Current(w))
  /\ Continue(S3Events, w, "produce", task[S3Events][w].n)
  /\ UNCHANGED <<signed, logs, rag, committed, owner, bounds>>

(* The row was deleted: NotFound, which is not retried.                    *)
SkipDeleted(w) ==
  /\ At(S3Events, w, "update")
  /\ ~Exists(Current(w))
  /\ NextPart(w, task[S3Events][w].failed)
  /\ UNCHANGED <<row, signed, logs, rag, committed, owner, bounds>>

ProduceCompleted(w) ==
  /\ At(S3Events, w, "produce")
  /\ uploadsLog' = Append(uploadsLog, Current(w))
  /\ NextPart(w, task[S3Events][w].failed)
  /\ UNCHANGED <<row, signed, s3Log, chunksLog, progressLog, rag, committed,
                 owner, bounds>>

(* Updating or publishing a part fails; the next part is handled all the   *)
(* same.                                                                   *)
PartFailsForgotten(w) ==
  /\ task[S3Events][w].step \in {"update", "produce"}
  /\ Fault
  /\ NextPart(w, FALSE)
  /\ UNCHANGED <<row, signed, logs, rag, committed, owner, puts, deletes>>

PartFails(w) ==
  /\ task[S3Events][w].step \in {"update", "produce"}
  /\ Fault
  /\ NextPart(w, TRUE)
  /\ UNCHANGED <<row, signed, logs, rag, committed, owner, puts, deletes>>

-----------------------------------------------------------------------------
(* The ingestion worker on uploads.  A malformed document never passes     *)
(* "announce": Parse fails on every attempt and the error is not           *)
(* InvalidInput.                                                           *)

Document(w) == uploadsLog[task[UploadsTopic][w].off]

(* Download, Parse, and the total published with nothing processed.        *)
AnnounceTotalUnlessEmpty(w) ==
  /\ At(UploadsTopic, w, "announce")
  /\ Document(w) \notin Malformed
  /\ progressLog' =
       IF Sections[Document(w)] = 0 THEN progressLog
       ELSE Append(progressLog,
              [upload |-> Document(w), total |-> Sections[Document(w)], processed |-> 0])
  /\ Continue(UploadsTopic, w,
              IF Sections[Document(w)] = 0 THEN "commit" ELSE "chunks", 0)
  /\ UNCHANGED <<row, signed, s3Log, uploadsLog, chunksLog, rag, committed,
                 owner, bounds>>

AnnounceTotal(w) ==
  /\ At(UploadsTopic, w, "announce")
  /\ Document(w) \notin Malformed
  /\ progressLog' = Append(progressLog,
       [upload |-> Document(w), total |-> Sections[Document(w)], processed |-> 0])
  /\ Continue(UploadsTopic, w,
              IF Sections[Document(w)] = 0 THEN "commit" ELSE "chunks", 0)
  /\ UNCHANGED <<row, signed, s3Log, uploadsLog, chunksLog, rag, committed,
                 owner, bounds>>

(* One more section of the batch reaches the broker; the batch succeeds    *)
(* when all have.                                                          *)
ProduceChunkOnceMore(w) ==
  LET u == Document(w)
      i == task[UploadsTopic][w].n
  IN /\ At(UploadsTopic, w, "chunks")
     /\ chunksLog' = Append(chunksLog,
          [upload |-> u, index |-> i, total |-> Sections[u]])
     /\ Continue(UploadsTopic, w,
                 IF i = Sections[u] THEN "commit" ELSE "chunks", i + 1)
     /\ UNCHANGED <<row, signed, s3Log, uploadsLog, progressLog, rag,
                    committed, owner, bounds>>

ProduceChunk(w) ==
  LET u == Document(w)
      i == task[UploadsTopic][w].n
  IN /\ At(UploadsTopic, w, "chunks")
     /\ chunksLog' = Append(chunksLog,
          [upload |-> u, index |-> i, total |-> Sections[u]])
     /\ Continue(UploadsTopic, w,
                 IF i + 1 = Sections[u] THEN "commit" ELSE "chunks", i + 1)
     /\ UNCHANGED <<row, signed, s3Log, uploadsLog, progressLog, rag,
                    committed, owner, bounds>>

-----------------------------------------------------------------------------
(* The RAG service on chunks.                                              *)

Chunk(w) == chunksLog[task[ChunksTopic][w].off]

(* The statements on its tables.  An upload already known keeps its row.   *)
Upsert(u) == ragUploads' = ragUploads \cup {u}

(* A second copy of a section replaces the first.                          *)
CreateChunk(u, i) == stored' = [stored EXCEPT ![u] = @ \cup {i}]

CountByUploadID(u) == Cardinality(stored[u])

(* uploads.Upsert, after the bounds check (out of bounds is InvalidInput). *)
UpsertUpload(w) ==
  /\ At(ChunksTopic, w, "upsert")
  /\ IF Chunk(w).index \in 0 .. Chunk(w).total - 1
     THEN /\ Upsert(Chunk(w).upload)
          /\ Continue(ChunksTopic, w, "store", 0)
     ELSE /\ UNCHANGED ragUploads
          /\ Continue(ChunksTopic, w, "commit", 0)
  /\ UNCHANGED <<row, signed, logs, stored, committed, owner, bounds>>

(* Embed, then chunks.Create.                                              *)
StoreChunk(w) ==
  /\ At(ChunksTopic, w, "store")
  /\ CreateChunk(Chunk(w).upload, Chunk(w).index)
  /\ Continue(ChunksTopic, w, "count", 0)
  /\ UNCHANGED <<row, signed, logs, ragUploads, committed, owner, bounds>>

CountBeforeInsert(w) ==
  /\ At(ChunksTopic, w, "count")
  /\ Continue(ChunksTopic, w, "report",
              Cardinality(stored[Chunk(w).upload] \ {Chunk(w).index}))
  /\ UNCHANGED <<row, signed, logs, rag, committed, owner, bounds>>

CountWholeBatch(w) ==
  /\ At(ChunksTopic, w, "count")
  /\ Continue(ChunksTopic, w, "report", Chunk(w).total)
  /\ UNCHANGED <<row, signed, logs, rag, committed, owner, bounds>>

CountChunks(w) ==
  /\ At(ChunksTopic, w, "count")
  /\ Continue(ChunksTopic, w, "report", CountByUploadID(Chunk(w).upload))
  /\ UNCHANGED <<row, signed, logs, rag, committed, owner, bounds>>

ReportProgress(w) ==
  /\ At(ChunksTopic, w, "report")
  /\ progressLog' = Append(progressLog,
       [upload    |-> Chunk(w).upload,
        total     |-> Chunk(w).total,
        processed |-> task[ChunksTopic][w].n])
  /\ Continue(ChunksTopic, w, "commit", 0)
  /\ UNCHANGED <<row, signed, s3Log, uploadsLog, chunksLog, rag, committed,
                 owner, bounds>>

-----------------------------------------------------------------------------
(* The dashboard consumer on upload-progress.  A deleted upload (NotFound) *)
(* and a snapshot ApplyProgress refuses (InvalidInput) end the record too. *)

Snapshot(w) == progressLog[task[ProgressTopic][w].off]

MergeProgress(w) ==
  /\ At(ProgressTopic, w, "apply")
  /\ ApplyProgress(Snapshot(w).upload, Snapshot(w).total, Snapshot(w).processed)
  /\ Continue(ProgressTopic, w, "commit", 0)
  /\ UNCHANGED <<signed, logs, rag, committed, owner, bounds>>

-----------------------------------------------------------------------------
Client ==
  \/ \E u \in Uploads : CreateUpload(u)
  \/ \E objects \in Notifications : PutObjects(objects)
  \/ \E u \in Uploads : DeleteUpload(u)

Handle(w) ==
  \/ MarkUploaded(w)
  \/ SkipDeleted(w)
  \/ ProduceCompleted(w)
  \/ AnnounceTotal(w)
  \/ ProduceChunk(w)
  \/ UpsertUpload(w)
  \/ StoreChunk(w)
  \/ CountChunks(w)
  \/ ReportProgress(w)
  \/ MergeProgress(w)

Disturb ==
  \/ \E w \in Workers : PartFails(w)
  \/ \E t \in Topics, w \in Workers : HandlerFails(t, w) \/ Crash(t, w)
  \/ \E s \in {Service(t) : t \in Topics}, w, v \in Workers : LosePartitions(s, w, v)

Consume(w) == \E t \in Topics : Fetch(t, w) \/ Commit(t, w)

Next ==
  \/ Client
  \/ \E w \in Workers : Handle(w) \/ Consume(w)
  \/ Disturb

Spec == Init /\ [][Next]_vars

(* Every service keeps running its consumer: Start only returns at         *)
(* shutdown, a crashed instance or one that lost its partition is made     *)
(* good by the bound on faults, and a failed call is tried again.  Clients *)
(* owe nothing.                                                            *)
Fairness ==
  \A w \in Workers :
    /\ WF_vars(Handle(w))
    /\ \A t \in Topics : WF_vars(Fetch(t, w)) /\ WF_vars(Commit(t, w))

FairSpec == Spec /\ Fairness
-----------------------------------------------------------------------------
Indexes(u) == 0 .. Sections[u] - 1

ChunkMessages ==
  UNION {[upload : {u}, index : Indexes(u), total : {Sections[u]}] : u \in Uploads}

ProgressMessages ==
  UNION {[upload : {u}, total : {Sections[u]}, processed : 0 .. Sections[u]] :
           u \in Uploads}

Steps(t) ==
  CASE t = S3Events -> {"idle", "update", "produce", "commit"}
    [] t = UploadsTopic -> {"idle", "announce", "chunks", "commit"}
    [] t = ChunksTopic -> {"idle", "upsert", "store", "count", "report", "commit"}
    [] t = ProgressTopic -> {"idle", "apply", "commit"}

StepNames == {"idle", "update", "produce", "announce", "chunks", "upsert",
              "store", "count", "report", "apply", "commit"}

Tasks == [off : Nat, step : StepNames, n : Nat, failed : BOOLEAN]

TypeOK ==
  /\ row \in [Uploads -> Row]
  /\ signed \subseteq Uploads
  /\ s3Log \in Seq(Notifications)
  /\ uploadsLog \in Seq(Uploads)
  /\ chunksLog \in Seq(ChunkMessages)
  /\ progressLog \in Seq(ProgressMessages)
  /\ ragUploads \subseteq Uploads
  /\ stored \in [Uploads -> SUBSET Nat]
  /\ committed \in [Topics -> Nat]
  /\ owner \in [Topics -> Workers]
  /\ task \in [Topics -> [Workers -> Tasks]]
  /\ \A t \in Topics : committed[t] <= LengthOf(t)
  /\ \A t \in Topics, w \in Workers :
       /\ task[t][w].step \in Steps(t)
       /\ task[t][w].step # "idle" => task[t][w].off \in 1 .. LengthOf(t)
  /\ puts \in 0..MaxPuts /\ faults \in 0..MaxFaults /\ deletes \in 0..MaxDeletes

(* The dashboard never reports a section as done that the rag database     *)
(* does not hold: the count read by tracker.TrackAndProcessChunk may be    *)
(* old by the time ApplyProgress merges it, but never too large.           *)
ProgressNeverOverstates ==
  \A u \in Uploads : row[u].processed <= Cardinality(stored[u])

(* "marks a document ready when all expected embeddings have been          *)
(* persisted" (frontend/README.md:13): a row in status processed has every *)
(* section of the document in the rag database.                            *)
ProcessedMeansSearchable ==
  \A u \in Uploads : row[u].status = "processed" => Indexes(u) \subseteq stored[u]

(* The CHECK constraints of the uploads table hold after every statement,  *)
(* so the UPDATE of ApplyProgress never fails on them (such a failure is   *)
(* not InvalidInput and would be retried for ever).                        *)
RowsWithinChecks == \A u \in Uploads : WithinChecks(row[u])

(* A row's counters and status agree, whatever order snapshots came in:    *)
(* nothing is counted before the total is known, and processed means that  *)
(* the whole total is.                                                     *)
StatusMatchesCounts ==
  \A u \in Uploads :
    /\ row[u].status = "processed" <=>
         row[u].total # Unknown /\ row[u].processed = row[u].total
    /\ row[u].status = "processing" <=>
         row[u].total # Unknown /\ row[u].processed < row[u].total
    /\ row[u].total = Unknown => row[u].processed = 0

(* At-least-once, end to end: a committed record has left its work behind. *)
(* A notified upload was published unless its row is gone, an ingested one *)
(* has its total and all its sections on their topics, a section is stored *)
(* with its upload (the foreign key).                                      *)
NothingDropped ==
  /\ \A i \in 1 .. committed[S3Events] : \A j \in DOMAIN s3Log[i] :
       \/ row[s3Log[i][j]].status = "deleted"
       \/ \E k \in DOMAIN uploadsLog : uploadsLog[k] = s3Log[i][j]
  /\ \A i \in 1 .. committed[UploadsTopic] :
       /\ \E k \in DOMAIN progressLog : progressLog[k].upload = uploadsLog[i]
       /\ \A x \in Indexes(uploadsLog[i]) : \E k \in DOMAIN chunksLog :
            chunksLog[k].upload = uploadsLog[i] /\ chunksLog[k].index = x
  /\ \A i \in 1 .. committed[ChunksTopic] :
       /\ chunksLog[i].index \in stored[chunksLog[i].upload]
       /\ chunksLog[i].upload \in ragUploads

(* Once every section of a document is committed on topic chunks, the full *)
(* count is on topic upload-progress: no interleaving of the store, count  *)
(* and publish steps of two RAG workers leaves the dashboard short.        *)
CompletionAnnounced ==
  \A u \in Uploads :
    (Sections[u] > 0
     /\ \A x \in Indexes(u) : \E i \in 1 .. committed[ChunksTopic] :
          chunksLog[i].upload = u /\ chunksLog[i].index = x)
    => \E k \in DOMAIN progressLog :
         progressLog[k].upload = u /\ progressLog[k].processed = Sections[u]

(* "Older snapshots cannot decrement progress" (postgres_repo.go:208) and  *)
(* a repeated storage notification does not take a document back: a row    *)
(* only moves forward, its count only grows, its total is set once, and a  *)
(* deleted row does not come back.                                         *)
RowNeverRegresses ==
  [][\A u \in Uploads :
       /\ Rank(row'[u].status) >= Rank(row[u].status)
       /\ row'[u].status # "deleted" =>
            /\ row'[u].processed >= row[u].processed
            /\ row[u].total \in {Unknown, row'[u].total}]_row

(* The pipeline implements the promise of UploadLifecycle: status and      *)
(* count are the dashboard's row, searchable is the rag database.          *)
Lifecycle == INSTANCE UploadLifecycle WITH
  status <- [u \in Uploads |-> row[u].status],
  reported <- [u \in Uploads |-> row[u].processed],
  searchable <- stored

ImplementsLifecycle == Lifecycle!Spec

(* Every well-formed document a client has stored is eventually shown as   *)
(* processed, unless its row is deleted, whatever failures the run of the  *)
(* services meets.  (A malformed document can stand in front of it: see    *)
(* MalformedIsRejected; this is checked with none.)                        *)
EventuallyProcessed ==
  \A u \in Uploads :
    (\E i \in DOMAIN s3Log : \E j \in DOMAIN s3Log[i] : s3Log[i][j] = u)
      ~> row[u].status \in {"processed", "deleted"}

(* "Permanent validation errors are rejected explicitly" (record.go:18):   *)
(* the record of a document that cannot be parsed is eventually committed. *)
MalformedIsRejected ==
  \A u \in Malformed :
    (\E i \in DOMAIN uploadsLog : uploadsLog[i] = u)
      ~> (\E i \in 1 .. committed[UploadsTopic] : uploadsLog[i] = u)
===============================================================================
