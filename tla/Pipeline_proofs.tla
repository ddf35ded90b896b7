--------------------------- MODULE Pipeline_proofs ---------------------------
(***************************************************************************)
(* Proofs about Pipeline, for every set of documents, workers, notifica-   *)
(* tions, section counts and every bound on PUTs, faults and deletions.    *)
(***************************************************************************)
EXTENDS Pipeline, FiniteSetTheorems, TLAPS

(* A task is at a step of its topic's handler and points into the log.     *)
TaskFits(t, k) ==
  /\ k \in Tasks
  /\ k.step \in Steps(t)
  /\ k.step # "idle" => k.off \in 1 .. LengthOf(t)

(* TypeOK in two halves: what the databases and topics hold, and what the  *)
(* consumers hold.                                                         *)
DataOK ==
  /\ row \in [Uploads -> Row]
  /\ signed \subseteq Uploads
  /\ s3Log \in Seq(Notifications)
  /\ uploadsLog \in Seq(Uploads)
  /\ chunksLog \in Seq(ChunkMessages)
  /\ progressLog \in Seq(ProgressMessages)
  /\ ragUploads \subseteq Uploads
  /\ stored \in [Uploads -> SUBSET Nat]
  /\ puts \in 0..MaxPuts /\ faults \in 0..MaxFaults /\ deletes \in 0..MaxDeletes

ConsumersOK ==
  /\ committed \in [Topics -> Nat]
  /\ owner \in [Topics -> Workers]
  /\ task \in [Topics -> [Workers -> Tasks]]
  /\ \A t \in Topics : committed[t] <= LengthOf(t)
  /\ \A t \in Topics, w \in Workers : TaskFits(t, task[t][w])

LEMMA TypeHalves == TypeOK <=> DataOK /\ ConsumersOK
  BY DEF TypeOK, DataOK, ConsumersOK, TaskFits

(* Where the counter of a task has a meaning, it is in range: the position *)
(* in a notification, the next section to publish, the count that was read.*)
CounterFits(t, k) ==
  /\ t = S3Events /\ k.step \in {"update", "produce"} =>
       k.n + 1 \in DOMAIN s3Log[k.off]
  /\ t = UploadsTopic /\ k.step = "chunks" =>
       k.n < Sections[uploadsLog[k.off]]
  /\ t = ChunksTopic /\ k.step = "report" =>
       k.n <= Cardinality(stored[chunksLog[k.off].upload])

CountersOK == \A t \in Topics, w \in Workers : CounterFits(t, task[t][w])

(* The rag database holds sections of the documents and nothing else.      *)
StoredOK == \A u \in Uploads : stored[u] \subseteq Indexes(u)

(* A snapshot on its way never counts more than is stored.                 *)
SnapshotsOK ==
  \A i \in 1 .. Len(progressLog) :
    progressLog[i].processed <= Cardinality(stored[progressLog[i].upload])

(* A row's total is the document's, its count is covered by the rag        *)
(* database.                                                               *)
RowsOK ==
  \A u \in Uploads :
    /\ row[u].total \in {Unknown, Sections[u]}
    /\ row[u].processed \in 0 .. Cardinality(stored[u])

IInv ==
  /\ DataOK
  /\ ConsumersOK
  /\ CountersOK
  /\ StoredOK
  /\ SnapshotsOK
  /\ RowsOK
  /\ StatusMatchesCounts

-----------------------------------------------------------------------------
(* Facts about the four topics.                                            *)
LEMMA TopicFacts ==
  /\ S3Events \in Topics /\ UploadsTopic \in Topics
  /\ ChunksTopic \in Topics /\ ProgressTopic \in Topics
  /\ S3Events # UploadsTopic /\ S3Events # ChunksTopic /\ S3Events # ProgressTopic
  /\ UploadsTopic # ChunksTopic /\ UploadsTopic # ProgressTopic
  /\ ChunksTopic # ProgressTopic
  /\ LengthOf(S3Events) = Len(s3Log)
  /\ LengthOf(UploadsTopic) = Len(uploadsLog)
  /\ LengthOf(ChunksTopic) = Len(chunksLog)
  /\ LengthOf(ProgressTopic) = Len(progressLog)
  BY DEF S3Events, UploadsTopic, ChunksTopic, ProgressTopic, Topics, LengthOf

LEMMA StepFacts ==
  /\ Steps(S3Events) = {"idle", "update", "produce", "commit"}
  /\ Steps(UploadsTopic) = {"idle", "announce", "chunks", "commit"}
  /\ Steps(ChunksTopic) = {"idle", "upsert", "store", "count", "report", "commit"}
  /\ Steps(ProgressTopic) = {"idle", "apply", "commit"}
  /\ FirstStep(S3Events) = "update"
  /\ FirstStep(UploadsTopic) = "announce"
  /\ FirstStep(ChunksTopic) = "upsert"
  /\ FirstStep(ProgressTopic) = "apply"
  BY DEF S3Events, UploadsTopic, ChunksTopic, ProgressTopic, Steps, FirstStep

LEMMA StepsOfTopic ==
  ASSUME NEW t \in Topics
  PROVE  /\ "idle" \in Steps(t) /\ "commit" \in Steps(t)
         /\ FirstStep(t) \in Steps(t) /\ FirstStep(t) \in StepNames
<1>1. CASE t = S3Events
  BY <1>1, StepFacts DEF StepNames
<1>2. CASE t = UploadsTopic
  BY <1>2, StepFacts DEF StepNames
<1>3. CASE t = ChunksTopic
  BY <1>3, StepFacts DEF StepNames
<1>4. CASE t = ProgressTopic
  BY <1>4, StepFacts DEF StepNames
<1> QED
  BY <1>1, <1>2, <1>3, <1>4 DEF Topics

LEMMA LengthFacts ==
  ASSUME DataOK, NEW t \in Topics
  PROVE  LengthOf(t) \in Nat
  BY TopicFacts DEF DataOK, Topics

(* Idle tasks and tasks that begin a record of the log are well formed.    *)
LEMMA IdleFits ==
  ASSUME NEW t \in Topics
  PROVE  TaskFits(t, Idle)
  BY StepsOfTopic DEF TaskFits, Tasks, StepNames, Idle

LEMMA BeginFits ==
  ASSUME NEW t \in Topics, NEW off \in Nat, off \in 1 .. LengthOf(t)
  PROVE  TaskFits(t, Begin(t, off))
  BY StepsOfTopic DEF TaskFits, Tasks, StepNames, Begin

(* A document with Sections[u] sections has that many indexes.             *)
LEMMA IndexesCount ==
  ASSUME NEW u \in Uploads
  PROVE  /\ IsFiniteSet(Indexes(u))
         /\ Cardinality(Indexes(u)) = Sections[u]
<1>1. Sections[u] \in Nat
  BY PipelineAssumption
<1>2. Sections[u] - 1 \in Int
  BY <1>1
<1>3. /\ IsFiniteSet(0 .. Sections[u] - 1)
      /\ Cardinality(0 .. Sections[u] - 1)
           = IF 0 > Sections[u] - 1 THEN 0 ELSE Sections[u] - 1 - 0 + 1
  BY <1>2, FS_Interval
<1>4. Cardinality(0 .. Sections[u] - 1) = Sections[u]
  BY <1>1, <1>3
<1> QED
  BY <1>3, <1>4 DEF Indexes

(* The cardinality of what is stored is a number up to the section count,  *)
(* and it grows with the set.                                              *)
LEMMA StoredCount ==
  ASSUME NEW u \in Uploads, NEW S \in SUBSET Indexes(u), NEW T \in SUBSET S
  PROVE  /\ Cardinality(S) \in 0 .. Sections[u]
         /\ Cardinality(T) \in 0 .. Sections[u]
         /\ Cardinality(T) <= Cardinality(S)
         /\ Cardinality(S) = Sections[u] => S = Indexes(u)
<1>1. Sections[u] \in Nat
  BY PipelineAssumption
<1>2. /\ IsFiniteSet(Indexes(u))
      /\ Cardinality(Indexes(u)) = Sections[u]
  BY IndexesCount
<1>3. /\ IsFiniteSet(S) /\ Cardinality(S) <= Sections[u]
      /\ Cardinality(S) = Sections[u] => S = Indexes(u)
  BY <1>2, FS_Subset
<1>4. IsFiniteSet(T) /\ Cardinality(T) <= Cardinality(S)
  BY <1>3, FS_Subset
<1>5. Cardinality(S) \in Nat /\ Cardinality(T) \in Nat
  BY <1>3, <1>4, FS_CardinalityType
<1> QED
  BY <1>1, <1>3, <1>4, <1>5

(* What a worker has in hand is a message of its topic.                    *)
LEMMA InHand ==
  ASSUME IInv, NEW w \in Workers
  PROVE  /\ task[S3Events][w].step \in {"update", "produce"} =>
              Notified(w) \in Seq(Uploads) /\ Current(w) \in Uploads
         /\ task[UploadsTopic][w].step # "idle" => Document(w) \in Uploads
         /\ task[ChunksTopic][w].step # "idle" =>
              /\ Chunk(w) \in ChunkMessages
              /\ Chunk(w).upload \in Uploads
              /\ Chunk(w).index \in Indexes(Chunk(w).upload)
              /\ Chunk(w).total = Sections[Chunk(w).upload]
         /\ task[ProgressTopic][w].step # "idle" =>
              /\ Snapshot(w) \in ProgressMessages
              /\ task[ProgressTopic][w].off \in 1 .. Len(progressLog)
              /\ Snapshot(w).upload \in Uploads
              /\ Snapshot(w).total = Sections[Snapshot(w).upload]
              /\ Snapshot(w).processed \in 0 .. Sections[Snapshot(w).upload]
<1>1. \A t \in Topics : task[t][w].step # "idle" => task[t][w].off \in 1 .. LengthOf(t)
  BY DEF IInv, ConsumersOK, TaskFits
<1>2. ASSUME task[S3Events][w].step \in {"update", "produce"}
      PROVE  Notified(w) \in Seq(Uploads) /\ Current(w) \in Uploads
  <2>1. task[S3Events][w].off \in 1 .. Len(s3Log)
    BY <1>1, <1>2, TopicFacts
  <2>2. Notified(w) \in Seq(Uploads)
    BY <2>1, PipelineAssumption, SMTT(30) DEF Notified, IInv, DataOK
  <2>3. task[S3Events][w].n + 1 \in DOMAIN Notified(w)
    BY <1>2, TopicFacts DEF IInv, CountersOK, CounterFits, Notified
  <2> QED
    BY <2>2, <2>3 DEF Current
<1>3. task[UploadsTopic][w].step # "idle" => Document(w) \in Uploads
  BY <1>1, TopicFacts DEF Document, IInv, DataOK
<1>4. ASSUME task[ChunksTopic][w].step # "idle"
      PROVE  /\ Chunk(w) \in ChunkMessages
             /\ Chunk(w).upload \in Uploads
             /\ Chunk(w).index \in Indexes(Chunk(w).upload)
             /\ Chunk(w).total = Sections[Chunk(w).upload]
  <2>1. Chunk(w) \in ChunkMessages
    BY <1>1, <1>4, TopicFacts DEF Chunk, IInv, DataOK
  <2> QED
    BY <2>1 DEF ChunkMessages
<1>5. ASSUME task[ProgressTopic][w].step # "idle"
      PROVE  /\ Snapshot(w) \in ProgressMessages
             /\ task[ProgressTopic][w].off \in 1 .. Len(progressLog)
             /\ Snapshot(w).upload \in Uploads
             /\ Snapshot(w).total = Sections[Snapshot(w).upload]
             /\ Snapshot(w).processed \in 0 .. Sections[Snapshot(w).upload]
  <2>1. task[ProgressTopic][w].off \in 1 .. Len(progressLog)
    BY <1>1, <1>5, TopicFacts
  <2>2. Snapshot(w) \in ProgressMessages
    BY <2>1 DEF Snapshot, IInv, DataOK
  <2> QED
    BY <2>1, <2>2 DEF ProgressMessages
<1> QED
  BY <1>2, <1>3, <1>4, <1>5
-----------------------------------------------------------------------------
(* Every step only adds: records at the end of the topics, sections to the *)
(* rag database.                                                           *)
LogsGrow ==
  /\ Len(s3Log) <= Len(s3Log')
  /\ \A i \in 1 .. Len(s3Log) : s3Log'[i] = s3Log[i]
  /\ Len(uploadsLog) <= Len(uploadsLog')
  /\ \A i \in 1 .. Len(uploadsLog) : uploadsLog'[i] = uploadsLog[i]
  /\ Len(chunksLog) <= Len(chunksLog')
  /\ \A i \in 1 .. Len(chunksLog) : chunksLog'[i] = chunksLog[i]
  /\ Len(progressLog) <= Len(progressLog')
  /\ \A i \in 1 .. Len(progressLog) : progressLog'[i] = progressLog[i]

StoredGrows == \A u \in Uploads : stored[u] \subseteq stored'[u]

LEMMA LengthsGrow ==
  ASSUME DataOK, DataOK', LogsGrow, NEW t \in Topics
  PROVE  LengthOf(t) \in Nat /\ LengthOf(t)' \in Nat /\ LengthOf(t) <= LengthOf(t)'
  BY TopicFacts DEF DataOK, LogsGrow, Topics, LengthOf

(* A task that was well formed stays so as the data grows.                 *)
LEMMA TaskKept ==
  ASSUME DataOK, DataOK', StoredOK', LogsGrow, StoredGrows,
         NEW t \in Topics, NEW k, TaskFits(t, k), CounterFits(t, k)
  PROVE  TaskFits(t, k)' /\ CounterFits(t, k)'
<1>1. TaskFits(t, k)'
  BY LengthsGrow DEF TaskFits
<1>2. ASSUME t = S3Events, k.step \in {"update", "produce"}
      PROVE  k.n + 1 \in DOMAIN s3Log'[k.off]
  <2>1. k.off \in 1 .. Len(s3Log)
    BY <1>2, TopicFacts DEF TaskFits
  <2> QED
    BY <2>1, <1>2 DEF CounterFits, LogsGrow
<1>3. ASSUME t = UploadsTopic, k.step = "chunks"
      PROVE  k.n < Sections[uploadsLog'[k.off]]
  <2>1. k.off \in 1 .. Len(uploadsLog)
    BY <1>3, TopicFacts DEF TaskFits
  <2> QED
    BY <2>1, <1>3 DEF CounterFits, LogsGrow
<1>4. ASSUME t = ChunksTopic, k.step = "report"
      PROVE  k.n <= Cardinality(stored'[chunksLog'[k.off].upload])
  <2>1. k.off \in 1 .. Len(chunksLog)
    BY <1>4, TopicFacts DEF TaskFits
  <2>2. PICK u \in Uploads : u = chunksLog[k.off].upload
    <3>1. chunksLog \in Seq(ChunkMessages)
      BY DEF DataOK
    <3>2. chunksLog[k.off] \in ChunkMessages
      BY <2>1, <3>1
    <3> QED
      BY <3>2 DEF ChunkMessages
  <2>3. chunksLog'[k.off].upload = u
    BY <2>1, <2>2 DEF LogsGrow
  <2>4. stored'[u] \in SUBSET Indexes(u) /\ stored[u] \in SUBSET stored'[u]
    BY DEF StoredOK, StoredGrows
  <2>5. /\ Cardinality(stored[u]) \in Nat /\ Cardinality(stored'[u]) \in Nat
        /\ Cardinality(stored[u]) <= Cardinality(stored'[u])
    BY <2>4, StoredCount, PipelineAssumption
  <2>6. k.n <= Cardinality(stored[u]) /\ k.n \in Nat
    BY <1>4, <2>2 DEF CounterFits, TaskFits, Tasks
  <2> QED
    BY <2>3, <2>5, <2>6
<1> QED
  BY <1>1, <1>2, <1>3, <1>4 DEF CounterFits

(* The consumers stay well formed when one of them gets a new task, is     *)
(* assigned a partition or commits an offset of the log.                   *)
LEMMA ConsumersKept ==
  ASSUME IInv, DataOK', StoredOK', LogsGrow, StoredGrows,
         committed' \in [Topics -> Nat], owner' \in [Topics -> Workers],
         task' \in [Topics -> [Workers -> Tasks]],
         \A t \in Topics : committed'[t] <= LengthOf(t),
         \A t \in Topics, w \in Workers :
           \/ task'[t][w] = task[t][w]
           \/ TaskFits(t, task'[t][w]) /\ CounterFits(t, task'[t][w])
  PROVE  ConsumersOK' /\ CountersOK'
<1>1. ASSUME NEW t \in Topics, NEW w \in Workers
      PROVE  TaskFits(t, task[t][w])' /\ CounterFits(t, task[t][w])'
  <2>1. PICK k : k = task'[t][w]
    OBVIOUS
  <2>2. TaskFits(t, k) /\ CounterFits(t, k)
    BY <2>1 DEF IInv, ConsumersOK, CountersOK
  <2>3. TaskFits(t, k)' /\ CounterFits(t, k)'
    BY <2>2, TaskKept DEF IInv
  <2> QED
    BY <2>1, <2>3 DEF TaskFits, CounterFits
<1>2. ASSUME NEW t \in Topics
      PROVE  committed'[t] <= LengthOf(t)'
  BY LengthsGrow DEF IInv
<1> QED
  BY <1>1, <1>2 DEF ConsumersOK, CountersOK

(* The usual case: a worker moves on with its task.                        *)
LEMMA TaskReplaced ==
  ASSUME IInv, DataOK', StoredOK', LogsGrow, StoredGrows,
         NEW t \in Topics, NEW w \in Workers, NEW k,
         TaskFits(t, k), CounterFits(t, k),
         task' = [task EXCEPT ![t][w] = k],
         UNCHANGED <<committed, owner>>
  PROVE  ConsumersOK' /\ CountersOK'
<1>1. /\ committed' \in [Topics -> Nat] /\ owner' \in [Topics -> Workers]
      /\ task' \in [Topics -> [Workers -> Tasks]]
      /\ \A x \in Topics : committed'[x] <= LengthOf(x)
  BY DEF IInv, ConsumersOK, TaskFits
<1>2. ASSUME NEW x \in Topics, NEW v \in Workers
      PROVE  \/ task'[x][v] = task[x][v]
             \/ TaskFits(x, task'[x][v]) /\ CounterFits(x, task'[x][v])
  <2>1. CASE x = t /\ v = w
    <3>1. task'[x][v] = k
      BY <2>1 DEF IInv, ConsumersOK
    <3> QED
      BY <2>1, <3>1
  <2>2. CASE ~(x = t /\ v = w)
    BY <2>2 DEF IInv, ConsumersOK
  <2> QED
    BY <2>1, <2>2
<1> QED
  BY <1>1, <1>2, ConsumersKept

(* What is said about snapshots survives growth.                           *)
LEMMA SnapshotsKept ==
  ASSUME IInv, DataOK', StoredOK', LogsGrow, StoredGrows,
         \A i \in Len(progressLog) + 1 .. Len(progressLog') :
           progressLog'[i].processed <= Cardinality(stored[progressLog'[i].upload])
  PROVE  SnapshotsOK'
<1> SUFFICES ASSUME NEW i \in 1 .. Len(progressLog')
             PROVE  progressLog'[i].processed
                      <= Cardinality(stored'[progressLog'[i].upload])
  BY DEF SnapshotsOK
<1>1. PICK u \in Uploads : u = progressLog'[i].upload
  BY DEF DataOK, ProgressMessages
<1>2. progressLog'[i].processed \in Nat
  <2>1. progressLog'[i] \in ProgressMessages
    BY DEF DataOK
  <2> QED
    BY <2>1, PipelineAssumption DEF ProgressMessages
<1>3. progressLog'[i].processed <= Cardinality(stored[u])
  <2>1. Len(progressLog) \in Nat /\ Len(progressLog') \in Nat
    BY DEF IInv, DataOK
  <2>2. CASE i \in 1 .. Len(progressLog)
    <3>1. progressLog'[i] = progressLog[i]
      BY <2>2 DEF LogsGrow
    <3> QED
      BY <1>1, <2>2, <3>1 DEF IInv, SnapshotsOK
  <2>3. CASE i \in Len(progressLog) + 1 .. Len(progressLog')
    BY <1>1, <2>3
  <2> QED
    BY <2>1, <2>2, <2>3
<1>4. stored'[u] \in SUBSET Indexes(u) /\ stored[u] \in SUBSET stored'[u]
  BY DEF StoredOK, StoredGrows
<1>5. /\ Cardinality(stored[u]) \in Nat /\ Cardinality(stored'[u]) \in Nat
      /\ Cardinality(stored[u]) <= Cardinality(stored'[u])
  BY <1>4, StoredCount, PipelineAssumption
<1> QED
  BY <1>1, <1>2, <1>3, <1>5

(* What is said about rows survives growth.                                *)
LEMMA RowsKept ==
  ASSUME IInv, StoredOK', StoredGrows, row' = row
  PROVE  RowsOK' /\ StatusMatchesCounts'
<1>1. ASSUME NEW u \in Uploads
      PROVE  row[u].processed \in 0 .. Cardinality(stored'[u])
  <2>1. stored'[u] \in SUBSET Indexes(u) /\ stored[u] \in SUBSET stored'[u]
    BY DEF StoredOK, StoredGrows
  <2>2. /\ Cardinality(stored[u]) \in Nat /\ Cardinality(stored'[u]) \in Nat
        /\ Cardinality(stored[u]) <= Cardinality(stored'[u])
    BY <2>1, StoredCount, PipelineAssumption
  <2> QED
    BY <2>2 DEF IInv, RowsOK
<1> QED
  BY <1>1 DEF IInv, RowsOK, StatusMatchesCounts

-----------------------------------------------------------------------------
(* Steps that touch neither the rows, the sections stored nor the topics   *)
(* keep all but the consumers' half of the invariant for free.             *)
Quiet ==
  /\ UNCHANGED <<row, logs, stored, puts, deletes>>
  /\ signed' \subseteq Uploads /\ ragUploads' \subseteq Uploads
  /\ faults' \in 0..MaxFaults

LEMMA QuietKeeps ==
  ASSUME IInv, Quiet
  PROVE  /\ DataOK' /\ StoredOK' /\ SnapshotsOK' /\ RowsOK' /\ StatusMatchesCounts'
         /\ LogsGrow /\ StoredGrows
<1>1. DataOK'
  BY DEF IInv, DataOK, Quiet, logs
<1>2. StoredOK' /\ SnapshotsOK' /\ RowsOK' /\ StatusMatchesCounts'
  BY DEF IInv, Quiet, logs, StoredOK, SnapshotsOK, RowsOK, StatusMatchesCounts
<1>3. LogsGrow /\ StoredGrows
  <2>1. Len(s3Log) \in Nat /\ Len(uploadsLog) \in Nat
        /\ Len(chunksLog) \in Nat /\ Len(progressLog) \in Nat
    BY DEF IInv, DataOK
  <2> QED
    BY <2>1 DEF Quiet, logs, LogsGrow, StoredGrows
<1> QED
  BY <1>1, <1>2, <1>3

LEMMA QuietTask ==
  ASSUME IInv, Quiet, NEW t \in Topics, NEW w \in Workers, NEW k,
         TaskFits(t, k), CounterFits(t, k),
         task' = [task EXCEPT ![t][w] = k],
         UNCHANGED <<committed, owner>>
  PROVE  IInv'
  BY QuietKeeps, TaskReplaced DEF IInv

(* Tasks at a step whose counter has no meaning.                           *)
LEMMA PlainCounters ==
  /\ \A t : CounterFits(t, Idle)
  /\ \A k : k.step \notin {"update", "produce", "chunks", "report"} =>
       \A t : CounterFits(t, k)
  BY DEF CounterFits, Idle

(* A record just begun; the first part of a notification exists because    *)
(* storage never sends an empty one.                                       *)
LEMMA BeginCounts ==
  ASSUME DataOK, NEW t \in Topics, NEW off \in 1 .. LengthOf(t)
  PROVE  CounterFits(t, Begin(t, off))
<1>1. CASE t = S3Events
  <2>1. s3Log[off] \in Seq(Uploads) \ {<<>>}
    BY <1>1, TopicFacts, PipelineAssumption DEF DataOK
  <2>2. 1 \in DOMAIN s3Log[off]
    BY <2>1
  <2> QED
    BY <1>1, <2>2, TopicFacts DEF CounterFits, Begin
<1>2. CASE t # S3Events
  <2>1. FirstStep(t) \notin {"chunks", "report"}
    BY <1>2, StepFacts DEF Topics
  <2> QED
    BY <1>2, <2>1 DEF CounterFits, Begin
<1> QED
  BY <1>1, <1>2

LEMMA InitIInv == Init => IInv
<1> SUFFICES ASSUME Init PROVE IInv
  OBVIOUS
<1> USE DEF Init, RowsInit
<1>1. DataOK
  BY PipelineAssumption DEF DataOK, Row, NoRow, Unknown, Statuses
<1>2. ConsumersOK
  <2>1. \A t \in Topics : LengthOf(t) = 0
    BY TopicFacts DEF Topics
  <2>2. \A t \in Topics : TaskFits(t, Idle)
    BY IdleFits
  <2>3. Idle \in Tasks
    BY <2>2, TopicFacts DEF TaskFits
  <2> QED
    BY <2>1, <2>2, <2>3 DEF ConsumersOK
<1>3. CountersOK
  BY PlainCounters DEF CountersOK
<1>4. StoredOK /\ SnapshotsOK
  BY DEF StoredOK, SnapshotsOK
<1>5. RowsOK
  <2>1. \A u \in Uploads : stored[u] = {}
    OBVIOUS
  <2>2. \A u \in Uploads : row[u].total = Unknown /\ row[u].processed = 0
    BY DEF NoRow
  <2>3. \A u \in Uploads : Cardinality(stored[u]) = 0
    BY <2>1, FS_EmptySet
  <2>4. ASSUME NEW u \in Uploads
        PROVE  row[u].processed \in 0 .. Cardinality(stored[u])
    <3>1. row[u].processed = 0 /\ Cardinality(stored[u]) = 0
      BY <2>2, <2>3
    <3> HIDE DEF Init, RowsInit
    <3> QED
      BY <3>1
  <2> QED
    BY <2>2, <2>4 DEF RowsOK
<1>6. StatusMatchesCounts
  BY DEF StatusMatchesCounts, NoRow, Unknown
<1> QED
  BY <1>1, <1>2, <1>3, <1>4, <1>5, <1>6 DEF IInv

-----------------------------------------------------------------------------
(* The loop and its faults.                                                *)
LEMMA FetchSafe ==
  ASSUME IInv, NEW t \in Topics, NEW w \in Workers, Fetch(t, w)
  PROVE  IInv'
<1>1. Quiet /\ UNCHANGED <<committed, owner>>
  BY DEF Fetch, Quiet, rag, bounds, IInv, DataOK
<1>2. committed[t] + 1 \in 1 .. LengthOf(t) /\ committed[t] + 1 \in Nat
  BY LengthFacts DEF Fetch, IInv, ConsumersOK
<1>3. TaskFits(t, Begin(t, committed[t] + 1)) /\ CounterFits(t, Begin(t, committed[t] + 1))
  BY <1>2, BeginFits, BeginCounts DEF IInv
<1> QED
  BY <1>1, <1>3, QuietTask DEF Fetch

LEMMA RestartSafe ==
  ASSUME IInv, NEW t \in Topics, NEW w \in Workers,
         HandlerFails(t, w) \/ Crash(t, w)
  PROVE  IInv'
<1>1. Quiet /\ UNCHANGED <<committed, owner>>
  BY PipelineAssumption
     DEF HandlerFails, Crash, Fault, Quiet, rag, IInv, DataOK
<1>2. CASE Crash(t, w)
  <2>1. TaskFits(t, Idle) /\ CounterFits(t, Idle)
    BY IdleFits, PlainCounters
  <2> QED
    BY <1>1, <1>2, <2>1, QuietTask DEF Crash
<1>3. CASE HandlerFails(t, w)
  <2>1. task[t][w].off \in 1 .. LengthOf(t) /\ task[t][w].off \in Nat
    BY <1>3 DEF HandlerFails, IInv, ConsumersOK, TaskFits, Tasks
  <2>2. TaskFits(t, Begin(t, task[t][w].off)) /\ CounterFits(t, Begin(t, task[t][w].off))
    BY <2>1, BeginFits, BeginCounts DEF IInv
  <2> QED
    BY <1>1, <1>3, <2>2, QuietTask DEF HandlerFails
<1> QED
  BY <1>2, <1>3

LEMMA CommitSafe ==
  ASSUME IInv, NEW t \in Topics, NEW w \in Workers, Commit(t, w)
  PROVE  IInv'
<1>1. Quiet
  BY DEF Commit, Quiet, rag, bounds, IInv, DataOK
<1>2. task[t][w].off \in 1 .. LengthOf(t) /\ task[t][w].off \in Nat
  BY DEF Commit, At, IInv, ConsumersOK, TaskFits, Tasks
<1>3. TaskFits(t, Idle) /\ CounterFits(t, Idle)
  BY IdleFits, PlainCounters
<1>4. /\ committed' \in [Topics -> Nat] /\ owner' \in [Topics -> Workers]
      /\ task' \in [Topics -> [Workers -> Tasks]]
      /\ \A x \in Topics : committed'[x] <= LengthOf(x)
  BY <1>2, <1>3 DEF Commit, IInv, ConsumersOK, TaskFits
<1>5. ASSUME NEW x \in Topics, NEW v \in Workers
      PROVE  \/ task'[x][v] = task[x][v]
             \/ TaskFits(x, task'[x][v]) /\ CounterFits(x, task'[x][v])
  BY <1>3 DEF Commit, IInv, ConsumersOK
<1> QED
  BY <1>1, <1>4, <1>5, QuietKeeps, ConsumersKept DEF IInv

LEMMA LosePartitionsSafe ==
  ASSUME IInv, NEW s, NEW w \in Workers, NEW v \in Workers, LosePartitions(s, w, v)
  PROVE  IInv'
<1>1. Quiet
  BY PipelineAssumption DEF LosePartitions, Fault, Quiet, rag, IInv, DataOK
<1>2. /\ committed' \in [Topics -> Nat] /\ owner' \in [Topics -> Workers]
      /\ task' \in [Topics -> [Workers -> Tasks]]
      /\ \A x \in Topics : committed'[x] <= LengthOf(x)
      /\ task' = task
  BY DEF LosePartitions, IInv, ConsumersOK
<1> QED
  BY <1>1, <1>2, QuietKeeps, ConsumersKept DEF IInv

-----------------------------------------------------------------------------
(* The dashboard API and its clients.                                      *)

(* A change of one row keeps what is said about all of them.               *)
LEMMA RowReplaced ==
  ASSUME IInv, NEW u \in Uploads, NEW r \in Row,
         row' = [row EXCEPT ![u] = r], UNCHANGED stored,
         r.total \in {Unknown, Sections[u]},
         r.processed \in 0 .. Cardinality(stored[u]),
         r.status = "processed" <=> r.total # Unknown /\ r.processed = r.total,
         r.status = "processing" <=> r.total # Unknown /\ r.processed < r.total,
         r.total = Unknown => r.processed = 0
  PROVE  RowsOK' /\ StatusMatchesCounts'
<1>1. ASSUME NEW v \in Uploads
      PROVE  /\ row'[v].total \in {Unknown, Sections[v]}
             /\ row'[v].processed \in 0 .. Cardinality(stored[v])
             /\ row'[v].status = "processed" <=>
                  row'[v].total # Unknown /\ row'[v].processed = row'[v].total
             /\ row'[v].status = "processing" <=>
                  row'[v].total # Unknown /\ row'[v].processed < row'[v].total
             /\ row'[v].total = Unknown => row'[v].processed = 0
  <2>1. CASE v = u
    <3>1. row'[v] = r
      BY <2>1 DEF IInv, DataOK
    <3> QED
      BY <2>1, <3>1
  <2>2. CASE v # u
    <3>1. row'[v] = row[v]
      BY <2>2 DEF IInv, DataOK
    <3> QED
      BY <3>1 DEF IInv, RowsOK, StatusMatchesCounts
  <2> QED
    BY <2>1, <2>2
<1> QED
  BY <1>1 DEF RowsOK, StatusMatchesCounts

LEMMA StoredIsCounted ==
  ASSUME IInv, NEW u \in Uploads
  PROVE  /\ Cardinality(stored[u]) \in 0 .. Sections[u] /\ Sections[u] \in Nat
         /\ Cardinality(stored[u]) = Sections[u] => stored[u] = Indexes(u)
<1>1. stored[u] \in SUBSET Indexes(u) /\ stored[u] \in SUBSET stored[u]
  BY DEF IInv, StoredOK
<1> QED
  BY <1>1, StoredCount, PipelineAssumption

(* A step of the data that leaves the consumers, the topics and the rag    *)
(* database alone.                                                         *)
LEMMA ApiKeeps ==
  ASSUME IInv, DataOK', RowsOK', StatusMatchesCounts',
         UNCHANGED <<logs, stored, committed, owner, task>>
  PROVE  IInv'
<1>1. StoredOK' /\ SnapshotsOK'
  BY DEF IInv, logs, StoredOK, SnapshotsOK
<1>2. ConsumersOK' /\ CountersOK'
  <2>1. \A t \in Topics : LengthOf(t)' = LengthOf(t)
    BY DEF LengthOf, logs
  <2>2. ASSUME NEW t \in Topics, NEW w \in Workers
        PROVE  TaskFits(t, task[t][w])' /\ CounterFits(t, task[t][w])'
    BY <2>1 DEF IInv, ConsumersOK, CountersOK, TaskFits, CounterFits, logs
  <2> QED
    BY <2>1, <2>2 DEF IInv, ConsumersOK, CountersOK
<1> QED
  BY <1>1, <1>2 DEF IInv

LEMMA CreateUploadSafe ==
  ASSUME IInv, NEW u \in Uploads, CreateUpload(u)
  PROVE  IInv'
<1>1. PICK r : r = NoRow("pending")
  OBVIOUS
<1>2. r \in Row /\ r.total = Unknown /\ r.processed = 0 /\ r.status = "pending"
  BY <1>1 DEF NoRow, Row, Statuses, Unknown
<1>3. row' = [row EXCEPT ![u] = r] /\ UNCHANGED stored
  BY <1>1 DEF CreateUpload, Create, rag
<1>4. RowsOK' /\ StatusMatchesCounts'
  <2>1. r.processed \in 0 .. Cardinality(stored[u])
    BY <1>2, StoredIsCounted
  <2> QED
    BY <1>2, <1>3, <2>1, RowReplaced
<1>5. DataOK'
  BY <1>2, <1>3 DEF CreateUpload, SignedPutURL, logs, rag, bounds, IInv, DataOK
<1> QED
  BY <1>3, <1>4, <1>5, ApiKeeps DEF CreateUpload

LEMMA DeleteUploadSafe ==
  ASSUME IInv, NEW u \in Uploads, DeleteUpload(u)
  PROVE  IInv'
<1>1. PICK r : r = NoRow("deleted")
  OBVIOUS
<1>2. r \in Row /\ r.total = Unknown /\ r.processed = 0 /\ r.status = "deleted"
  BY <1>1 DEF NoRow, Row, Statuses, Unknown
<1>3. row' = [row EXCEPT ![u] = r] /\ UNCHANGED stored
  BY <1>1 DEF DeleteUpload, DeleteByID, rag
<1>4. RowsOK' /\ StatusMatchesCounts'
  <2>1. r.processed \in 0 .. Cardinality(stored[u])
    BY <1>2, StoredIsCounted
  <2> QED
    BY <1>2, <1>3, <2>1, RowReplaced
<1>5. DataOK'
  BY <1>2, <1>3, PipelineAssumption DEF DeleteUpload, logs, rag, IInv, DataOK
<1> QED
  BY <1>3, <1>4, <1>5, ApiKeeps DEF DeleteUpload

LEMMA PutObjectsSafe ==
  ASSUME IInv, NEW objects \in Notifications, PutObjects(objects)
  PROVE  IInv'
<1>1. DataOK' /\ LogsGrow /\ StoredGrows
  <2>1. s3Log \in Seq(Notifications) /\ s3Log' = Append(s3Log, objects)
    BY DEF PutObjects, IInv, DataOK
  <2>2. s3Log' \in Seq(Notifications) /\ Len(s3Log) <= Len(s3Log')
        /\ \A i \in 1 .. Len(s3Log) : s3Log'[i] = s3Log[i]
    BY <2>1
  <2>3. puts' \in 0..MaxPuts
    BY PipelineAssumption DEF PutObjects, IInv, DataOK
  <2>4. Len(uploadsLog) \in Nat /\ Len(chunksLog) \in Nat /\ Len(progressLog) \in Nat
    BY DEF IInv, DataOK
  <2> QED
    BY <2>2, <2>3, <2>4 DEF PutObjects, rag, IInv, DataOK, LogsGrow, StoredGrows
<1>2. StoredOK' /\ SnapshotsOK' /\ RowsOK' /\ StatusMatchesCounts'
  BY DEF PutObjects, rag, IInv, StoredOK, SnapshotsOK, RowsOK, StatusMatchesCounts
<1>3. /\ committed' \in [Topics -> Nat] /\ owner' \in [Topics -> Workers]
      /\ task' \in [Topics -> [Workers -> Tasks]]
      /\ \A x \in Topics : committed'[x] <= LengthOf(x)
      /\ task' = task
  BY DEF PutObjects, IInv, ConsumersOK
<1> QED
  BY <1>1, <1>2, <1>3, ConsumersKept DEF IInv

-----------------------------------------------------------------------------
(* The dashboard consumer on s3-events.                                    *)
LEMMA NextPartSafe ==
  ASSUME IInv, DataOK', StoredOK', LogsGrow, StoredGrows,
         NEW w \in Workers, NEW failed \in BOOLEAN,
         task[S3Events][w].step \in {"update", "produce"},
         NextPart(w, failed), UNCHANGED <<committed, owner>>
  PROVE  ConsumersOK' /\ CountersOK'
<1> DEFINE k == task[S3Events][w]
<1>1. /\ k \in Tasks /\ k.off \in 1 .. LengthOf(S3Events)
  BY TopicFacts DEF IInv, ConsumersOK, TaskFits
<1>2. Notified(w) \in Seq(Uploads) /\ Notified(w) = s3Log[k.off]
  BY InHand DEF Notified
<1>3. CASE k.n + 1 < Len(Notified(w))
  <2> DEFINE next == [off |-> k.off, step |-> "update", n |-> k.n + 1, failed |-> failed]
  <2>1. TaskFits(S3Events, next)
    BY <1>1, StepFacts, TopicFacts DEF TaskFits, Tasks, StepNames
  <2>2. CounterFits(S3Events, next)
    BY <1>1, <1>2, <1>3, TopicFacts DEF CounterFits, Tasks
  <2>3. task' = [task EXCEPT ![S3Events][w] = next]
    BY <1>3 DEF NextPart
  <2> QED
    BY <2>1, <2>2, <2>3, TaskReplaced, TopicFacts
<1>4. CASE ~(k.n + 1 < Len(Notified(w))) /\ failed
  <2>1. k.off \in Nat
    BY <1>1 DEF Tasks
  <2>2. TaskFits(S3Events, Begin(S3Events, k.off)) /\ CounterFits(S3Events, Begin(S3Events, k.off))
    BY <1>1, <2>1, BeginFits, BeginCounts, TopicFacts DEF IInv
  <2>3. task' = [task EXCEPT ![S3Events][w] = Begin(S3Events, k.off)]
    BY <1>4 DEF NextPart
  <2> QED
    BY <2>2, <2>3, TaskReplaced, TopicFacts
<1>5. CASE ~(k.n + 1 < Len(Notified(w))) /\ ~failed
  <2> DEFINE done == [off |-> k.off, step |-> "commit", n |-> 0, failed |-> FALSE]
  <2>1. TaskFits(S3Events, done) /\ CounterFits(S3Events, done)
    BY <1>1, StepFacts, TopicFacts, PlainCounters DEF TaskFits, Tasks, StepNames
  <2>2. task' = [task EXCEPT ![S3Events][w] = done]
    BY <1>5 DEF NextPart
  <2> QED
    BY <2>1, <2>2, TaskReplaced, TopicFacts
<1> QED
  BY <1>3, <1>4, <1>5

LEMMA SkipSafe ==
  ASSUME IInv, NEW w \in Workers, SkipDeleted(w) \/ PartFails(w)
  PROVE  IInv'
<1>1. Quiet
  <2>1. CASE SkipDeleted(w)
    BY <2>1 DEF SkipDeleted, Quiet, rag, bounds, IInv, DataOK
  <2>2. CASE PartFails(w)
    BY <2>2, PipelineAssumption DEF PartFails, Fault, Quiet, rag, IInv, DataOK
  <2> QED
    BY <2>1, <2>2
<1>2. task[S3Events][w].failed \in BOOLEAN
  BY TopicFacts DEF IInv, ConsumersOK, Tasks
<1>3. PICK failed \in BOOLEAN :
        /\ task[S3Events][w].step \in {"update", "produce"}
        /\ NextPart(w, failed) /\ UNCHANGED <<committed, owner>>
  BY <1>2 DEF SkipDeleted, PartFails, At
<1> QED
  BY <1>1, <1>3, QuietKeeps, NextPartSafe DEF IInv

LEMMA ProduceCompletedSafe ==
  ASSUME IInv, NEW w \in Workers, ProduceCompleted(w)
  PROVE  IInv'
<1>1. Current(w) \in Uploads
  BY InHand DEF ProduceCompleted, At
<1>2. DataOK' /\ LogsGrow /\ StoredGrows
  <2>1. uploadsLog \in Seq(Uploads) /\ uploadsLog' = Append(uploadsLog, Current(w))
    BY DEF ProduceCompleted, IInv, DataOK
  <2>2. uploadsLog' \in Seq(Uploads) /\ Len(uploadsLog) <= Len(uploadsLog')
        /\ \A i \in 1 .. Len(uploadsLog) : uploadsLog'[i] = uploadsLog[i]
    BY <1>1, <2>1
  <2>3. Len(s3Log) \in Nat /\ Len(chunksLog) \in Nat /\ Len(progressLog) \in Nat
    BY DEF IInv, DataOK
  <2> QED
    BY <2>2, <2>3
       DEF ProduceCompleted, rag, bounds, IInv, DataOK, LogsGrow, StoredGrows
<1>3. StoredOK' /\ SnapshotsOK' /\ RowsOK' /\ StatusMatchesCounts'
  BY DEF ProduceCompleted, rag, IInv, StoredOK, SnapshotsOK, RowsOK, StatusMatchesCounts
<1>4. task[S3Events][w].failed \in BOOLEAN
  BY TopicFacts DEF IInv, ConsumersOK, Tasks
<1> QED
  BY <1>2, <1>3, <1>4, NextPartSafe DEF ProduceCompleted, At, IInv

(* A task that goes on at a step whose counter has no meaning, or with a   *)
(* counter that is in range.                                               *)
LEMMA ContinueSafe ==
  ASSUME IInv, DataOK', StoredOK', LogsGrow, StoredGrows,
         NEW t \in Topics, NEW w \in Workers,
         NEW step \in Steps(t) \cap StepNames, NEW n \in Nat,
         task[t][w].step # "idle",
         CounterFits(t, [task[t][w] EXCEPT !.step = step, !.n = n]),
         Continue(t, w, step, n), UNCHANGED <<committed, owner>>
  PROVE  ConsumersOK' /\ CountersOK'
<1> DEFINE k == [task[t][w] EXCEPT !.step = step, !.n = n]
<1>1. task[t][w] \in Tasks /\ task[t][w].off \in 1 .. LengthOf(t)
  BY DEF IInv, ConsumersOK, TaskFits
<1>2. k \in Tasks /\ k.step = step /\ k.off = task[t][w].off
  BY <1>1 DEF Tasks
<1>3. TaskFits(t, k)
  BY <1>1, <1>2 DEF TaskFits
<1>4. task' = [task EXCEPT ![t][w] = k]
  BY DEF Continue, IInv, ConsumersOK
<1> QED
  BY <1>3, <1>4, TaskReplaced

LEMMA MarkUploadedSafe ==
  ASSUME IInv, NEW w \in Workers, MarkUploaded(w)
  PROVE  IInv'
<1>1. PICK u \in Uploads : u = Current(w)
  BY InHand DEF MarkUploaded, At
<1>2. PICK r : r = [row[u] EXCEPT !.status =
                      IF @ \in {"processing", "processed"} THEN @ ELSE "uploaded"]
  OBVIOUS
<1>3. row[u] \in Row /\ row[u].status \in Statuses
  BY <1>1 DEF MarkUploaded, UpdateStatus, Exists, IInv, DataOK
<1>4. /\ r \in Row /\ r.total = row[u].total /\ r.processed = row[u].processed
      /\ r.status = IF row[u].status \in {"processing", "processed"}
                    THEN row[u].status ELSE "uploaded"
  BY <1>2, <1>3 DEF Row, Statuses
<1>5. row' = [row EXCEPT ![u] = r] /\ UNCHANGED stored
  BY <1>1, <1>2 DEF MarkUploaded, UpdateStatus, rag, IInv, DataOK
<1>6. RowsOK' /\ StatusMatchesCounts'
  <2>1. \/ row[u].status \in {"processing", "processed"} /\ r.status = row[u].status
        \/ r.status = "uploaded" /\ row[u].status \notin {"processing", "processed"}
    BY <1>4
  <2>2. /\ row[u].total \in {Unknown, Sections[u]}
        /\ row[u].processed \in 0 .. Cardinality(stored[u])
        /\ row[u].status = "processed" <=>
             row[u].total # Unknown /\ row[u].processed = row[u].total
        /\ row[u].status = "processing" <=>
             row[u].total # Unknown /\ row[u].processed < row[u].total
        /\ row[u].total = Unknown => row[u].processed = 0
    BY DEF IInv, RowsOK, StatusMatchesCounts
  <2> QED
    BY <1>4, <1>5, <2>1, <2>2, RowReplaced
<1>7. DataOK'
  BY <1>4, <1>5 DEF MarkUploaded, logs, rag, bounds, IInv, DataOK
<1>8. StoredOK' /\ SnapshotsOK' /\ LogsGrow /\ StoredGrows
  <2>1. Len(s3Log) \in Nat /\ Len(uploadsLog) \in Nat
        /\ Len(chunksLog) \in Nat /\ Len(progressLog) \in Nat
    BY DEF IInv, DataOK
  <2> QED
    BY <2>1 DEF MarkUploaded, logs, rag, IInv, StoredOK, SnapshotsOK, LogsGrow, StoredGrows
<1>9. ConsumersOK' /\ CountersOK'
  <2> DEFINE k == task[S3Events][w]
  <2>1. k \in Tasks /\ k.step = "update" /\ k.n + 1 \in DOMAIN s3Log[k.off]
    BY TopicFacts DEF MarkUploaded, At, IInv, ConsumersOK, CountersOK, CounterFits
  <2>2. CounterFits(S3Events, [k EXCEPT !.step = "produce", !.n = k.n])
    BY <2>1, TopicFacts DEF CounterFits, Tasks
  <2>3. "produce" \in Steps(S3Events) \cap StepNames /\ k.n \in Nat /\ k.step # "idle"
    BY <2>1, StepFacts DEF StepNames, Tasks
  <2> QED
    BY <1>7, <1>8, <2>2, <2>3, ContinueSafe, TopicFacts DEF MarkUploaded
<1> QED
  BY <1>6, <1>7, <1>8, <1>9 DEF IInv

-----------------------------------------------------------------------------
(* The ingestion worker.                                                   *)
LEMMA AnnounceTotalSafe ==
  ASSUME IInv, NEW w \in Workers, AnnounceTotal(w)
  PROVE  IInv'
<1> DEFINE k == task[UploadsTopic][w]
<1>1. PICK u \in Uploads : u = Document(w)
  BY InHand DEF AnnounceTotal, At
<1>2. Sections[u] \in Nat
  BY PipelineAssumption
<1>3. PICK m : m = [upload |-> u, total |-> Sections[u], processed |-> 0]
  OBVIOUS
<1>4. m \in ProgressMessages /\ m.upload = u /\ m.processed = 0
  BY <1>2, <1>3 DEF ProgressMessages
<1>5. progressLog \in Seq(ProgressMessages) /\ progressLog' = Append(progressLog, m)
  BY <1>1, <1>3 DEF AnnounceTotal, IInv, DataOK
<1>6. /\ progressLog' \in Seq(ProgressMessages) /\ Len(progressLog) \in Nat
      /\ Len(progressLog') = Len(progressLog) + 1
      /\ \A i \in 1 .. Len(progressLog) : progressLog'[i] = progressLog[i]
      /\ progressLog'[Len(progressLog) + 1] = m
  BY <1>4, <1>5
<1>7. DataOK' /\ LogsGrow /\ StoredGrows
  <2>1. Len(s3Log) \in Nat /\ Len(uploadsLog) \in Nat /\ Len(chunksLog) \in Nat
    BY DEF IInv, DataOK
  <2> QED
    BY <1>6, <2>1
       DEF AnnounceTotal, rag, bounds, IInv, DataOK, LogsGrow, StoredGrows
<1>8. StoredOK' /\ RowsOK' /\ StatusMatchesCounts'
  BY DEF AnnounceTotal, rag, IInv, StoredOK, RowsOK, StatusMatchesCounts
<1>9. SnapshotsOK'
  <2>1. m.processed <= Cardinality(stored[m.upload])
    BY <1>4, StoredIsCounted
  <2>2. \A i \in Len(progressLog) + 1 .. Len(progressLog') :
          progressLog'[i].processed <= Cardinality(stored[progressLog'[i].upload])
    BY <1>6, <2>1
  <2> QED
    BY <1>7, <1>8, <2>2, SnapshotsKept
<1>10. ConsumersOK' /\ CountersOK'
  <2> DEFINE step == IF Sections[u] = 0 THEN "commit" ELSE "chunks"
  <2>1. k \in Tasks /\ k.step # "idle" /\ u = uploadsLog[k.off]
    BY <1>1, TopicFacts DEF AnnounceTotal, At, IInv, ConsumersOK, Document
  <2>2. [k EXCEPT !.step = step, !.n = 0].off = k.off
        /\ [k EXCEPT !.step = step, !.n = 0].n = 0
        /\ [k EXCEPT !.step = step, !.n = 0].step = step
    BY <2>1 DEF Tasks
  <2>3. step = "chunks" => 0 < Sections[u]
    BY <1>2
  <2>4. CounterFits(UploadsTopic, [k EXCEPT !.step = step, !.n = 0])
    BY <2>1, <2>2, <2>3, TopicFacts DEF CounterFits
  <2>5. step \in Steps(UploadsTopic) \cap StepNames
    BY StepFacts DEF StepNames
  <2>6. Continue(UploadsTopic, w, step, 0) /\ UNCHANGED <<committed, owner>>
    BY <1>1 DEF AnnounceTotal
  <2> HIDE DEF step
  <2> QED
    BY <1>7, <1>8, <2>1, <2>4, <2>5, <2>6, ContinueSafe, TopicFacts
<1> QED
  BY <1>7, <1>8, <1>9, <1>10 DEF IInv

LEMMA ProduceChunkSafe ==
  ASSUME IInv, NEW w \in Workers, ProduceChunk(w)
  PROVE  IInv'
<1> DEFINE k == task[UploadsTopic][w]
<1>1. PICK u \in Uploads : u = Document(w)
  BY InHand DEF ProduceChunk, At
<1>2. /\ k \in Tasks /\ k.step = "chunks" /\ u = uploadsLog[k.off]
      /\ k.n \in Nat /\ k.n < Sections[u] /\ Sections[u] \in Nat
  BY <1>1, TopicFacts, PipelineAssumption
     DEF ProduceChunk, At, IInv, ConsumersOK, CountersOK, CounterFits, Document, Tasks
<1>3. PICK m : m = [upload |-> u, index |-> k.n, total |-> Sections[u]]
  OBVIOUS
<1>4. m \in ChunkMessages
  BY <1>2, <1>3 DEF ChunkMessages, Indexes
<1>5. chunksLog \in Seq(ChunkMessages) /\ chunksLog' = Append(chunksLog, m)
  BY <1>1, <1>3 DEF ProduceChunk, IInv, DataOK
<1>6. /\ chunksLog' \in Seq(ChunkMessages) /\ Len(chunksLog) <= Len(chunksLog')
      /\ \A i \in 1 .. Len(chunksLog) : chunksLog'[i] = chunksLog[i]
  BY <1>4, <1>5
<1>7. DataOK' /\ LogsGrow /\ StoredGrows
  <2>1. Len(s3Log) \in Nat /\ Len(uploadsLog) \in Nat /\ Len(progressLog) \in Nat
    BY DEF IInv, DataOK
  <2> QED
    BY <1>6, <2>1
       DEF ProduceChunk, rag, bounds, IInv, DataOK, LogsGrow, StoredGrows
<1>8. StoredOK' /\ SnapshotsOK' /\ RowsOK' /\ StatusMatchesCounts'
  BY DEF ProduceChunk, rag, IInv, StoredOK, SnapshotsOK, RowsOK, StatusMatchesCounts
<1>9. ConsumersOK' /\ CountersOK'
  <2> DEFINE step == IF k.n + 1 = Sections[u] THEN "commit" ELSE "chunks"
  <2>1. [k EXCEPT !.step = step, !.n = k.n + 1].off = k.off
        /\ [k EXCEPT !.step = step, !.n = k.n + 1].n = k.n + 1
        /\ [k EXCEPT !.step = step, !.n = k.n + 1].step = step
    BY <1>2 DEF Tasks
  <2>2. step = "chunks" => k.n + 1 < Sections[u]
    BY <1>2
  <2>3. CounterFits(UploadsTopic, [k EXCEPT !.step = step, !.n = k.n + 1])
    BY <1>2, <2>1, <2>2, TopicFacts DEF CounterFits
  <2>4. step \in Steps(UploadsTopic) \cap StepNames /\ k.n + 1 \in Nat
    BY <1>2, StepFacts DEF StepNames
  <2>5. Continue(UploadsTopic, w, step, k.n + 1) /\ UNCHANGED <<committed, owner>>
    BY <1>1 DEF ProduceChunk
  <2> HIDE DEF step
  <2> QED
    BY <1>2, <1>7, <1>8, <2>3, <2>4, <2>5, ContinueSafe, TopicFacts
<1> QED
  BY <1>7, <1>8, <1>9 DEF IInv

-----------------------------------------------------------------------------
(* The RAG service.                                                        *)
LEMMA UpsertUploadSafe ==
  ASSUME IInv, NEW w \in Workers, UpsertUpload(w)
  PROVE  IInv'
<1> DEFINE k == task[ChunksTopic][w]
<1>1. k.step = "upsert" /\ Chunk(w).upload \in Uploads
  BY InHand DEF UpsertUpload, At
<1>2. Quiet /\ UNCHANGED <<committed, owner>>
  BY <1>1 DEF UpsertUpload, Upsert, Quiet, bounds, IInv, DataOK
<1>3. PICK step \in {"store", "commit"} : Continue(ChunksTopic, w, step, 0)
  BY DEF UpsertUpload
<1>4. step \in Steps(ChunksTopic) \cap StepNames
  BY StepFacts DEF StepNames
<1>5. CounterFits(ChunksTopic, [k EXCEPT !.step = step, !.n = 0])
  <2>1. k \in Tasks
    BY TopicFacts DEF IInv, ConsumersOK
  <2> QED
    BY <2>1, PlainCounters DEF Tasks
<1> QED
  BY <1>1, <1>2, <1>3, <1>4, <1>5, QuietKeeps, ContinueSafe, TopicFacts DEF IInv

LEMMA StoreChunkSafe ==
  ASSUME IInv, NEW w \in Workers, StoreChunk(w)
  PROVE  IInv'
<1> DEFINE k == task[ChunksTopic][w]
<1>1. PICK u \in Uploads : u = Chunk(w).upload
  BY InHand DEF StoreChunk, At
<1>2. PICK i \in Indexes(u) : i = Chunk(w).index
  BY <1>1, InHand DEF StoreChunk, At
<1>3. i \in Nat
  BY <1>2, PipelineAssumption DEF Indexes
<1>4. stored' = [stored EXCEPT ![u] = @ \cup {i}] /\ stored \in [Uploads -> SUBSET Nat]
  BY <1>1, <1>2 DEF StoreChunk, CreateChunk, IInv, DataOK
<1>5. DataOK'
  <2>1. stored' \in [Uploads -> SUBSET Nat]
    BY <1>3, <1>4
  <2> QED
    BY <2>1 DEF StoreChunk, logs, bounds, IInv, DataOK
<1>6. StoredOK' /\ StoredGrows
  BY <1>4 DEF IInv, StoredOK, StoredGrows
<1>7. LogsGrow
  <2>1. Len(s3Log) \in Nat /\ Len(uploadsLog) \in Nat
        /\ Len(chunksLog) \in Nat /\ Len(progressLog) \in Nat
    BY DEF IInv, DataOK
  <2> QED
    BY <2>1 DEF StoreChunk, logs, LogsGrow
<1>8. SnapshotsOK'
  <2>1. progressLog' = progressLog /\ Len(progressLog) \in Nat
    BY DEF StoreChunk, logs, IInv, DataOK
  <2>2. Len(progressLog) + 1 .. Len(progressLog') = {}
    BY <2>1
  <2> QED
    BY <1>5, <1>6, <1>7, <2>2, SnapshotsKept
<1>9. RowsOK' /\ StatusMatchesCounts'
  BY <1>6, RowsKept DEF StoreChunk
<1>10. ConsumersOK' /\ CountersOK'
  <2>1. k \in Tasks /\ k.step # "idle"
    BY TopicFacts DEF StoreChunk, At, IInv, ConsumersOK
  <2>2. CounterFits(ChunksTopic, [k EXCEPT !.step = "count", !.n = 0])
    BY <2>1, PlainCounters DEF Tasks
  <2>3. "count" \in Steps(ChunksTopic) \cap StepNames
    BY StepFacts DEF StepNames
  <2> QED
    BY <1>5, <1>6, <1>7, <2>1, <2>2, <2>3, ContinueSafe, TopicFacts DEF StoreChunk
<1> QED
  BY <1>5, <1>6, <1>8, <1>9, <1>10 DEF IInv

LEMMA CountChunksSafe ==
  ASSUME IInv, NEW w \in Workers, CountChunks(w)
  PROVE  IInv'
<1> DEFINE k == task[ChunksTopic][w]
<1>1. PICK u \in Uploads : u = Chunk(w).upload /\ u = chunksLog[k.off].upload
  BY InHand DEF CountChunks, At, Chunk
<1>2. PICK n \in Nat : n = Cardinality(stored[u])
  BY StoredIsCounted
<1>3. Quiet /\ UNCHANGED <<committed, owner>>
  BY DEF CountChunks, Quiet, rag, bounds, IInv, DataOK
<1>4. k \in Tasks /\ k.step # "idle"
  BY TopicFacts DEF CountChunks, At, IInv, ConsumersOK
<1>5. CounterFits(ChunksTopic, [k EXCEPT !.step = "report", !.n = n])
  <2>1. [k EXCEPT !.step = "report", !.n = n].off = k.off
        /\ [k EXCEPT !.step = "report", !.n = n].n = n
    BY <1>4 DEF Tasks
  <2>2. n <= Cardinality(stored[u])
    BY <1>2
  <2> QED
    BY <1>1, <2>1, <2>2, TopicFacts DEF CounterFits
<1>6. "report" \in Steps(ChunksTopic) \cap StepNames
  BY StepFacts DEF StepNames
<1>7. Continue(ChunksTopic, w, "report", n)
  BY <1>1, <1>2 DEF CountChunks, CountByUploadID
<1> QED
  BY <1>3, <1>4, <1>5, <1>6, <1>7, QuietKeeps, ContinueSafe, TopicFacts DEF IInv

LEMMA ReportProgressSafe ==
  ASSUME IInv, NEW w \in Workers, ReportProgress(w)
  PROVE  IInv'
<1> DEFINE k == task[ChunksTopic][w]
<1>1. PICK u \in Uploads : u = Chunk(w).upload /\ u = chunksLog[k.off].upload
  BY InHand DEF ReportProgress, At, Chunk
<1>2. /\ k \in Tasks /\ k.step # "idle" /\ k.n \in Nat
      /\ k.n <= Cardinality(stored[u]) /\ Chunk(w).total = Sections[u]
  BY <1>1, InHand, TopicFacts
     DEF ReportProgress, At, IInv, ConsumersOK, CountersOK, CounterFits, Tasks
<1>3. PICK m : m = [upload |-> u, total |-> Sections[u], processed |-> k.n]
  OBVIOUS
<1>4. /\ m \in ProgressMessages /\ m.upload = u /\ m.processed = k.n
  <2>1. k.n \in 0 .. Sections[u]
    BY <1>2, StoredIsCounted
  <2> QED
    BY <1>3, <2>1 DEF ProgressMessages
<1>5. progressLog \in Seq(ProgressMessages) /\ progressLog' = Append(progressLog, m)
  BY <1>1, <1>2, <1>3 DEF ReportProgress, IInv, DataOK
<1>6. /\ progressLog' \in Seq(ProgressMessages) /\ Len(progressLog) \in Nat
      /\ Len(progressLog') = Len(progressLog) + 1
      /\ \A i \in 1 .. Len(progressLog) : progressLog'[i] = progressLog[i]
      /\ progressLog'[Len(progressLog) + 1] = m
  BY <1>4, <1>5
<1>7. DataOK' /\ LogsGrow /\ StoredGrows
  <2>1. Len(s3Log) \in Nat /\ Len(uploadsLog) \in Nat /\ Len(chunksLog) \in Nat
    BY DEF IInv, DataOK
  <2> QED
    BY <1>6, <2>1
       DEF ReportProgress, rag, bounds, IInv, DataOK, LogsGrow, StoredGrows
<1>8. StoredOK' /\ RowsOK' /\ StatusMatchesCounts'
  BY DEF ReportProgress, rag, IInv, StoredOK, RowsOK, StatusMatchesCounts
<1>9. SnapshotsOK'
  <2>1. \A i \in Len(progressLog) + 1 .. Len(progressLog') :
          progressLog'[i].processed <= Cardinality(stored[progressLog'[i].upload])
    BY <1>2, <1>4, <1>6
  <2> QED
    BY <1>7, <1>8, <2>1, SnapshotsKept
<1>10. ConsumersOK' /\ CountersOK'
  <2>1. CounterFits(ChunksTopic, [k EXCEPT !.step = "commit", !.n = 0])
    BY <1>2, PlainCounters DEF Tasks
  <2>2. "commit" \in Steps(ChunksTopic) \cap StepNames
    BY StepFacts DEF StepNames
  <2> QED
    BY <1>2, <1>7, <1>8, <2>1, <2>2, ContinueSafe, TopicFacts DEF ReportProgress
<1> QED
  BY <1>7, <1>8, <1>9, <1>10 DEF IInv

-----------------------------------------------------------------------------
(* The dashboard consumer on upload-progress.                              *)

(* The merge of a snapshot that the rag database covers.                   *)
LEMMA MergeKeeps ==
  ASSUME IInv, NEW u \in Uploads, NEW done \in 0 .. Cardinality(stored[u]),
         ApplyProgress(u, Sections[u], done), UNCHANGED stored
  PROVE  RowsOK' /\ StatusMatchesCounts' /\ row' \in [Uploads -> Row]
<1> DEFINE total == Sections[u]
           r == Merged(row[u], total, done)
<1>1. /\ row[u] \in Row /\ row[u].total \in {Unknown, total}
      /\ row[u].processed \in 0 .. Cardinality(stored[u])
      /\ Cardinality(stored[u]) \in 0 .. total /\ total \in Nat
  BY StoredIsCounted DEF IInv, DataOK, RowsOK
<1>2. CASE ApplyVerdict(u, total, done) = "ok"
  <2>1. /\ r \in Row /\ r.total = total
        /\ r.processed = Greatest(row[u].processed, done)
        /\ r.status = IF r.processed = total THEN "processed" ELSE "processing"
    BY <1>1 DEF Merged, Greatest, Row, Statuses
  <2>2. r.processed \in 0 .. Cardinality(stored[u])
    BY <1>1, <2>1 DEF Greatest
  <2>3. row' = [row EXCEPT ![u] = r]
    BY <1>2 DEF ApplyProgress
  <2>4. /\ r.status = "processed" <=> r.total # Unknown /\ r.processed = r.total
        /\ r.status = "processing" <=> r.total # Unknown /\ r.processed < r.total
        /\ r.total = Unknown => r.processed = 0
    BY <1>1, <2>1, <2>2 DEF Unknown
  <2>5. row' \in [Uploads -> Row]
    BY <2>1, <2>3 DEF IInv, DataOK
  <2> HIDE DEF r
  <2> QED
    BY <2>1, <2>2, <2>3, <2>4, <2>5, RowReplaced
<1>3. CASE ApplyVerdict(u, total, done) # "ok"
  <2>1. row' = row
    BY <1>3 DEF ApplyProgress
  <2> QED
    BY <2>1 DEF IInv, DataOK, RowsOK, StatusMatchesCounts
<1> QED
  BY <1>2, <1>3

LEMMA MergeProgressSafe ==
  ASSUME IInv, NEW w \in Workers, MergeProgress(w)
  PROVE  IInv'
<1> DEFINE k == task[ProgressTopic][w]
<1>1. /\ k \in Tasks /\ k.step = "apply" /\ k.off \in 1 .. Len(progressLog)
      /\ Snapshot(w) = progressLog[k.off]
      /\ Snapshot(w).upload \in Uploads
      /\ Snapshot(w).total = Sections[Snapshot(w).upload]
      /\ Snapshot(w).processed \in 0 .. Sections[Snapshot(w).upload]
  BY InHand, TopicFacts DEF MergeProgress, At, IInv, ConsumersOK, Snapshot
<1>2. PICK u \in Uploads : u = Snapshot(w).upload
  BY <1>1
<1>3. Snapshot(w).processed \in 0 .. Cardinality(stored[u])
  BY <1>1, <1>2, StoredIsCounted, PipelineAssumption DEF IInv, SnapshotsOK
<1>4. RowsOK' /\ StatusMatchesCounts' /\ row' \in [Uploads -> Row]
  <2>1. ApplyProgress(u, Sections[u], Snapshot(w).processed) /\ UNCHANGED stored
    BY <1>1, <1>2 DEF MergeProgress, rag
  <2> QED
    BY <1>3, <2>1, MergeKeeps
<1>5. DataOK'
  BY <1>4 DEF MergeProgress, logs, rag, bounds, IInv, DataOK
<1>6. StoredOK' /\ SnapshotsOK' /\ LogsGrow /\ StoredGrows
  <2>1. Len(s3Log) \in Nat /\ Len(uploadsLog) \in Nat
        /\ Len(chunksLog) \in Nat /\ Len(progressLog) \in Nat
    BY DEF IInv, DataOK
  <2> QED
    BY <2>1 DEF MergeProgress, logs, rag, IInv, StoredOK, SnapshotsOK, LogsGrow, StoredGrows
<1>7. ConsumersOK' /\ CountersOK'
  <2>1. CounterFits(ProgressTopic, [k EXCEPT !.step = "commit", !.n = 0])
    BY <1>1, PlainCounters DEF Tasks
  <2>2. "commit" \in Steps(ProgressTopic) \cap StepNames
    BY StepFacts DEF StepNames
  <2> QED
    BY <1>1, <1>5, <1>6, <2>1, <2>2, ContinueSafe, TopicFacts DEF MergeProgress
<1> QED
  BY <1>4, <1>5, <1>6, <1>7 DEF IInv

-----------------------------------------------------------------------------
LEMMA StutterSafe ==
  ASSUME IInv, UNCHANGED vars
  PROVE  IInv'
<1>1. UNCHANGED <<row, signed, logs, stored, committed, owner, task>>
  BY DEF vars, rag
<1>2. DataOK' /\ RowsOK' /\ StatusMatchesCounts'
  BY DEF vars, logs, rag, bounds, IInv, DataOK, RowsOK, StatusMatchesCounts
<1> QED
  BY <1>1, <1>2, ApiKeeps

LEMMA NextSafe == IInv /\ [Next]_vars => IInv'
<1> SUFFICES ASSUME IInv, [Next]_vars PROVE IInv'
  OBVIOUS
<1>1. CASE UNCHANGED vars
  BY <1>1, StutterSafe
<1>2. CASE Client
  BY <1>2, CreateUploadSafe, PutObjectsSafe, DeleteUploadSafe DEF Client
<1>3. ASSUME NEW w \in Workers, Handle(w)
      PROVE  IInv'
  BY <1>3, MarkUploadedSafe, SkipSafe, ProduceCompletedSafe, AnnounceTotalSafe,
     ProduceChunkSafe, UpsertUploadSafe, StoreChunkSafe, CountChunksSafe,
     ReportProgressSafe, MergeProgressSafe
  DEF Handle
<1>4. ASSUME NEW w \in Workers, Consume(w)
      PROVE  IInv'
  BY <1>4, FetchSafe, CommitSafe DEF Consume
<1>5. CASE Disturb
  BY <1>5, SkipSafe, RestartSafe, LosePartitionsSafe DEF Disturb
<1> QED
  BY <1>1, <1>2, <1>3, <1>4, <1>5 DEF Next

THEOREM Invariance == Spec => []IInv
<1>1. Init => IInv
  BY InitIInv
<1>2. IInv /\ [Next]_vars => IInv'
  BY NextSafe
<1> QED
  BY <1>1, <1>2, PTL DEF Spec

-----------------------------------------------------------------------------
(* Every variable keeps its type, and every consumer points into its log.  *)
THEOREM TypeCorrect == Spec => []TypeOK
<1>1. IInv => TypeOK
  BY TypeHalves DEF IInv
<1> QED
  BY <1>1, Invariance, PTL

(* ApplyProgress never records a count that the rag database does not      *)
(* cover, whatever the order of stores, counts and merges.                 *)
THEOREM CountsAreCovered == Spec => []ProgressNeverOverstates
<1>1. ASSUME IInv PROVE ProgressNeverOverstates
  <2> SUFFICES ASSUME NEW u \in Uploads
               PROVE  row[u].processed <= Cardinality(stored[u])
    BY DEF ProgressNeverOverstates
  <2> QED
    BY <1>1, StoredIsCounted DEF IInv, RowsOK
<1> QED
  BY <1>1, Invariance, PTL

(* A row in status processed has all its sections stored.                  *)
THEOREM ReadyMeansSearchable == Spec => []ProcessedMeansSearchable
<1>1. ASSUME IInv PROVE ProcessedMeansSearchable
  <2> SUFFICES ASSUME NEW u \in Uploads, row[u].status = "processed"
               PROVE  Indexes(u) \subseteq stored[u]
    BY DEF ProcessedMeansSearchable
  <2>1. row[u].total = Sections[u] /\ row[u].processed = Sections[u]
    BY <1>1 DEF IInv, RowsOK, StatusMatchesCounts
  <2>2. row[u].processed <= Cardinality(stored[u])
    BY <1>1, StoredIsCounted DEF IInv, RowsOK
  <2>3. stored[u] = Indexes(u)
    BY <1>1, <2>1, <2>2, StoredIsCounted
  <2> QED
    BY <2>3
<1> QED
  BY <1>1, Invariance, PTL

(* The counters and the status of a row always agree.                      *)
THEOREM CountersAgree == Spec => []StatusMatchesCounts
<1>1. IInv => StatusMatchesCounts
  BY DEF IInv
<1> QED
  BY <1>1, Invariance, PTL

(* The CHECK constraints of the uploads table never refuse an update.      *)
THEOREM ChecksNeverFail == Spec => []RowsWithinChecks
<1>1. ASSUME IInv PROVE RowsWithinChecks
  <2> SUFFICES ASSUME NEW u \in Uploads PROVE WithinChecks(row[u])
    BY DEF RowsWithinChecks
  <2>1. /\ row[u].total \in {Unknown, Sections[u]} /\ Sections[u] \in Nat
        /\ row[u].processed \in 0 .. Cardinality(stored[u])
        /\ Cardinality(stored[u]) \in 0 .. Sections[u]
    BY <1>1, StoredIsCounted DEF IInv, RowsOK
  <2> QED
    BY <2>1 DEF WithinChecks
<1> QED
  BY <1>1, Invariance, PTL

-----------------------------------------------------------------------------
(* What a step may do to a row.                                            *)
RowStep(u) ==
  /\ Rank(row'[u].status) >= Rank(row[u].status)
  /\ row'[u].status # "deleted" =>
       /\ row'[u].processed >= row[u].processed
       /\ row[u].total \in {Unknown, row'[u].total}

LEMMA RankFacts ==
  /\ Rank("none") = 0 /\ Rank("pending") = 1 /\ Rank("uploaded") = 2
  /\ Rank("processing") = 3 /\ Rank("processed") = 4 /\ Rank("deleted") = 5
  BY DEF Rank

LEMMA RowTypes ==
  ASSUME IInv, NEW u \in Uploads
  PROVE  /\ row[u] \in Row /\ row[u].processed \in Nat
         /\ row[u].status \in {"none", "pending", "uploaded", "processing",
                               "processed", "deleted"}
         /\ Rank(row[u].status) \in 0 .. 5
<1>1. row[u] \in Row /\ row[u].processed \in Nat
  BY StoredIsCounted DEF IInv, DataOK, RowsOK
<1>2. row[u].status \in {"none", "pending", "uploaded", "processing",
                        "processed", "deleted"}
  BY <1>1 DEF Row, Statuses
<1> QED
  BY <1>1, <1>2, RankFacts

(* A row whose status is not processing or processed has no counts.        *)
LEMMA BlankRows ==
  ASSUME IInv, NEW u \in Uploads, row[u].status \notin {"processing", "processed"}
  PROVE  row[u].total = Unknown /\ row[u].processed = 0
<1>1. /\ row[u].total \in {Unknown, Sections[u]} /\ Sections[u] \in Nat
      /\ row[u].processed \in 0 .. Cardinality(stored[u])
      /\ Cardinality(stored[u]) \in 0 .. Sections[u]
  BY StoredIsCounted DEF IInv, RowsOK
<1> QED
  BY <1>1 DEF IInv, StatusMatchesCounts

LEMMA RowStands ==
  ASSUME IInv, NEW u \in Uploads, row'[u] = row[u]
  PROVE  RowStep(u)
  BY RowTypes DEF RowStep

LEMMA CreateRowStep ==
  ASSUME IInv, NEW v \in Uploads, Create(v), NEW u \in Uploads
  PROVE  RowStep(u)
<1>1. CASE u = v
  <2>1. row'[u] = NoRow("pending") /\ row[u].status = "none"
    BY <1>1 DEF Create, IInv, DataOK
  <2> QED
    BY <2>1, BlankRows, RankFacts DEF RowStep, NoRow
<1>2. CASE u # v
  BY <1>2, RowStands DEF Create, IInv, DataOK
<1> QED
  BY <1>1, <1>2

LEMMA DeleteRowStep ==
  ASSUME IInv, NEW v \in Uploads, DeleteByID(v), NEW u \in Uploads
  PROVE  RowStep(u)
<1>1. CASE u = v
  <2>1. row'[u] = NoRow("deleted")
    BY <1>1 DEF DeleteByID, IInv, DataOK
  <2> QED
    BY <2>1, RowTypes, RankFacts DEF RowStep, NoRow
<1>2. CASE u # v
  BY <1>2, RowStands DEF DeleteByID, IInv, DataOK
<1> QED
  BY <1>1, <1>2

LEMMA UpdateStatusRowStep ==
  ASSUME IInv, NEW v \in Uploads, UpdateStatus(v), NEW u \in Uploads
  PROVE  RowStep(u)
<1>1. CASE u = v /\ row[u].status \in {"processing", "processed"}
  <2>1. row'[u] = row[u]
    BY <1>1, RowTypes DEF UpdateStatus, IInv, DataOK, Row
  <2> QED
    BY <2>1, RowStands
<1>2. CASE u = v /\ row[u].status \notin {"processing", "processed"}
  <2>1. row[u].status \in {"pending", "uploaded"}
    BY <1>2, RowTypes DEF UpdateStatus, Exists, Statuses
  <2>2. /\ row'[u].status = "uploaded" /\ row'[u].total = row[u].total
        /\ row'[u].processed = row[u].processed
    BY <1>2, RowTypes DEF UpdateStatus, IInv, DataOK, Row
  <2> QED
    BY <2>1, <2>2, RowTypes, RankFacts DEF RowStep
<1>3. CASE u # v
  BY <1>3, RowStands DEF UpdateStatus, IInv, DataOK
<1> QED
  BY <1>1, <1>2, <1>3

(* A merge, in full: the row is under way or done, with the greater count. *)
LEMMA MergeEffect ==
  ASSUME IInv, NEW v \in Uploads, NEW done \in 0 .. Cardinality(stored[v]),
         ApplyProgress(v, Sections[v], done)
  PROVE  \/ row' = row
         \/ /\ Exists(v)
            /\ row' = [row EXCEPT ![v] = Merged(row[v], Sections[v], done)]
            /\ row'[v].total = Sections[v]
            /\ row'[v].processed = Greatest(row[v].processed, done)
            /\ row'[v].status = IF row'[v].processed = Sections[v]
                                THEN "processed" ELSE "processing"
<1>1. CASE ApplyVerdict(v, Sections[v], done) = "ok"
  <2>1. Exists(v)
    BY <1>1 DEF ApplyVerdict, ValidSnapshot
  <2>2. row' = [row EXCEPT ![v] = Merged(row[v], Sections[v], done)]
    BY <1>1 DEF ApplyProgress
  <2>3. row'[v] = Merged(row[v], Sections[v], done)
    BY <2>2 DEF IInv, DataOK
  <2> QED
    BY <2>1, <2>2, <2>3 DEF Merged
<1>2. CASE ApplyVerdict(v, Sections[v], done) # "ok"
  BY <1>2 DEF ApplyProgress
<1> QED
  BY <1>1, <1>2

LEMMA MergeRowStep ==
  ASSUME IInv, NEW v \in Uploads, NEW done \in 0 .. Cardinality(stored[v]),
         ApplyProgress(v, Sections[v], done), NEW u \in Uploads
  PROVE  RowStep(u)
<1>1. CASE row'[u] = row[u]
  BY <1>1, RowStands
<1>2. CASE row'[u] # row[u]
  <2>1. u = v
    BY <1>2, MergeEffect DEF IInv, DataOK
  <2>2. /\ row'[u].total = Sections[u]
        /\ row'[u].processed = Greatest(row[u].processed, done)
        /\ row'[u].status = IF row'[u].processed = Sections[u]
                            THEN "processed" ELSE "processing"
        /\ row[u].status \in Statuses
    BY <1>2, <2>1, MergeEffect DEF Exists
  <2>3. /\ row[u].total \in {Unknown, Sections[u]} /\ Sections[u] \in Nat
        /\ row[u].processed \in Nat /\ done \in 0 .. Sections[u]
        /\ row[u].processed <= Sections[u]
    BY <2>1, StoredIsCounted DEF IInv, RowsOK
  <2>4. row'[u].processed >= row[u].processed /\ row'[u].processed <= Sections[u]
    BY <2>2, <2>3 DEF Greatest
  <2>5. row[u].status = "processed" => row'[u].status = "processed"
    <3>1. row[u].status = "processed" => row[u].processed = Sections[u]
      BY <2>3 DEF IInv, StatusMatchesCounts
    <3> QED
      BY <2>2, <2>3, <2>4, <3>1 DEF Greatest
  <2>6. Rank(row'[u].status) >= Rank(row[u].status)
    BY <2>2, <2>5, RankFacts DEF Statuses
  <2> QED
    BY <2>2, <2>3, <2>4, <2>6 DEF RowStep
<1> QED
  BY <1>1, <1>2

(* A snapshot in hand is covered by the rag database.                      *)
LEMMA SnapshotInHand ==
  ASSUME IInv, NEW w \in Workers, MergeProgress(w)
  PROVE  /\ Snapshot(w).upload \in Uploads
         /\ Snapshot(w).total = Sections[Snapshot(w).upload]
         /\ Snapshot(w).processed \in 0 .. Cardinality(stored[Snapshot(w).upload])
<1>1. /\ Snapshot(w).upload \in Uploads
      /\ Snapshot(w).total = Sections[Snapshot(w).upload]
      /\ Snapshot(w).processed \in 0 .. Sections[Snapshot(w).upload]
      /\ task[ProgressTopic][w].off \in 1 .. Len(progressLog)
  BY InHand DEF MergeProgress, At
<1> QED
  BY <1>1, StoredIsCounted DEF IInv, SnapshotsOK, Snapshot

LEMMA HandleRowStep ==
  ASSUME IInv, NEW w \in Workers, Handle(w), NEW u \in Uploads
  PROVE  RowStep(u)
<1>1. CASE MarkUploaded(w)
  <2>1. Current(w) \in Uploads
    BY <1>1, InHand DEF MarkUploaded, At
  <2> QED
    BY <1>1, <2>1, UpdateStatusRowStep DEF MarkUploaded
<1>2. CASE MergeProgress(w)
  BY <1>2, SnapshotInHand, MergeRowStep DEF MergeProgress
<1>3. CASE row' = row
  BY <1>3, RowStands
<1> QED
  BY <1>1, <1>2, <1>3
  DEF Handle, SkipDeleted, ProduceCompleted, AnnounceTotal, ProduceChunk,
      UpsertUpload, StoreChunk, CountChunks, ReportProgress

-----------------------------------------------------------------------------
(* A document whose notification was handled; its row never goes back to   *)
(* waiting for one, so every record and part behind the notification finds *)
(* it accepted.                                                            *)
Accepted(u) == row[u].status \in {"uploaded", "processing", "processed", "deleted"}

AcceptedOK ==
  /\ \A i \in 1 .. Len(uploadsLog) : Accepted(uploadsLog[i])
  /\ \A i \in 1 .. Len(chunksLog) : Accepted(chunksLog[i].upload)
  /\ \A i \in 1 .. Len(progressLog) : Accepted(progressLog[i].upload)
  /\ \A w \in Workers :
       task[S3Events][w].step = "produce" => Accepted(Current(w))

LEMMA AcceptedByRank ==
  ASSUME IInv, NEW u \in Uploads
  PROVE  Accepted(u) <=> Rank(row[u].status) >= 2
  BY RowTypes, RankFacts DEF Accepted

LEMMA AcceptedStays ==
  ASSUME IInv, IInv', NEW u \in Uploads, RowStep(u), Accepted(u)
  PROVE  Accepted(u)'
<1>1. Rank(row[u].status) >= 2 /\ Rank(row[u].status) \in 0 .. 5
  BY AcceptedByRank, RowTypes
<1>2. /\ row'[u].status \in {"none", "pending", "uploaded", "processing",
                             "processed", "deleted"}
      /\ Rank(row'[u].status) \in 0 .. 5
  <2>1. row'[u].status \in Statuses \cup {"none", "deleted"}
    BY DEF IInv, DataOK, Row
  <2> QED
    BY <2>1, RankFacts DEF Statuses
<1>3. Rank(row'[u].status) >= 2
  BY <1>1, <1>2 DEF RowStep
<1> QED
  BY <1>2, <1>3, RankFacts DEF Accepted

(* A step of the system, for every row.                                    *)
LEMMA NextRowStep ==
  ASSUME IInv, [Next]_vars, NEW u \in Uploads
  PROVE  RowStep(u)
<1>1. CASE \E v \in Uploads : CreateUpload(v)
  BY <1>1, CreateRowStep DEF CreateUpload
<1>2. CASE \E v \in Uploads : DeleteUpload(v)
  BY <1>2, DeleteRowStep DEF DeleteUpload
<1>3. CASE \E w \in Workers : Handle(w)
  BY <1>3, HandleRowStep
<1>4. CASE row' = row
  BY <1>4, RowStands
<1> QED
  BY <1>1, <1>2, <1>3, <1>4
  DEF Next, Client, Consume, Disturb, PutObjects, Fetch, Commit, PartFails,
      HandlerFails, Crash, LosePartitions, vars

(* Rows only move forward: statuses by rank, counts upward, totals once.   *)
THEOREM RowsMoveForward == Spec => RowNeverRegresses
<1>1. IInv /\ [Next]_vars => [\A u \in Uploads : RowStep(u)]_row
  BY NextRowStep
<1> QED
  BY <1>1, Invariance, PTL DEF Spec, RowNeverRegresses, RowStep

-----------------------------------------------------------------------------
(* Only MarkUploaded takes a part to the step "produce".                   *)
LEMMA ProduceStep ==
  ASSUME IInv, [Next]_vars, NEW w \in Workers, task'[S3Events][w].step = "produce"
  PROVE  task'[S3Events][w] = task[S3Events][w] \/ MarkUploaded(w)
<1> SUFFICES ASSUME task'[S3Events][w] # task[S3Events][w]
             PROVE  MarkUploaded(w)
  OBVIOUS
<1>1. task \in [Topics -> [Workers -> Tasks]]
  BY DEF IInv, ConsumersOK
<1>2. ASSUME NEW t \in Topics, NEW v \in Workers, NEW k,
             task' = [task EXCEPT ![t][v] = k]
      PROVE  t = S3Events /\ v = w /\ k.step = "produce"
  BY <1>1, <1>2, TopicFacts
<1>3. \A t \in Topics : \A off : Begin(t, off).step # "produce"
  BY StepFacts DEF Begin, Topics
<1>4. Idle.step # "produce"
  BY DEF Idle
<1>5. task' # task
  OBVIOUS
<1>6. ASSUME NEW v \in Workers, NEW failed, NextPart(v, failed)
      PROVE  FALSE
  <2>1. PICK k : k.step # "produce" /\ task' = [task EXCEPT ![S3Events][v] = k]
    BY <1>3, <1>6, TopicFacts DEF NextPart
  <2> QED
    BY <1>2, <2>1, TopicFacts
<1>7. ASSUME NEW t \in Topics, NEW v \in Workers, NEW step, NEW n,
             Continue(t, v, step, n)
      PROVE  t = S3Events /\ v = w /\ step = "produce"
  <2>1. task' = [task EXCEPT ![t][v] = [task[t][v] EXCEPT !.step = step, !.n = n]]
    BY <1>1, <1>7 DEF Continue
  <2>2. t = S3Events /\ v = w /\ [task[t][v] EXCEPT !.step = step, !.n = n].step = "produce"
    BY <1>2, <2>1
  <2>3. task[t][v] \in Tasks
    BY <1>1
  <2> QED
    BY <2>2, <2>3 DEF Tasks
<1>8. ASSUME NEW v \in Workers, Handle(v)
      PROVE  MarkUploaded(w)
  <2>1. CASE MarkUploaded(v)
    BY <1>7, <2>1, TopicFacts DEF MarkUploaded
  <2>2. CASE SkipDeleted(v) \/ ProduceCompleted(v)
    BY <1>6, <2>2 DEF SkipDeleted, ProduceCompleted
  <2>3. CASE AnnounceTotal(v) \/ ProduceChunk(v)
    BY <1>7, <2>3, TopicFacts DEF AnnounceTotal, ProduceChunk
  <2>4. CASE UpsertUpload(v) \/ StoreChunk(v) \/ CountChunks(v) \/ ReportProgress(v)
    BY <1>7, <2>4, TopicFacts DEF UpsertUpload, StoreChunk, CountChunks, ReportProgress
  <2>5. CASE MergeProgress(v)
    BY <1>7, <2>5, TopicFacts DEF MergeProgress
  <2> QED
    BY <1>8, <2>1, <2>2, <2>3, <2>4, <2>5 DEF Handle
<1>9. ASSUME NEW v \in Workers, NEW t \in Topics,
             Fetch(t, v) \/ Commit(t, v) \/ HandlerFails(t, v) \/ Crash(t, v)
      PROVE  FALSE
  <2>1. PICK k : k.step # "produce" /\ task' = [task EXCEPT ![t][v] = k]
    BY <1>3, <1>4, <1>9 DEF Fetch, Commit, HandlerFails, Crash
  <2> QED
    BY <1>2, <2>1
<1>10. ASSUME NEW v \in Workers, PartFails(v)
       PROVE  FALSE
  BY <1>6, <1>10 DEF PartFails
<1>11. ~Client /\ ~(\E s \in {Service(t) : t \in Topics}, v, x \in Workers : LosePartitions(s, v, x))
  BY <1>5 DEF Client, CreateUpload, PutObjects, DeleteUpload, LosePartitions
<1> QED
  BY <1>5, <1>8, <1>9, <1>10, <1>11 DEF Next, Consume, Disturb, vars

(* Every record behind the notification names an accepted document.        *)
LEMMA RecordSources ==
  ASSUME IInv, AcceptedOK, [Next]_vars
  PROVE  /\ \/ uploadsLog' = uploadsLog
            \/ \E u \in Uploads : Accepted(u) /\ uploadsLog' = Append(uploadsLog, u)
         /\ \/ chunksLog' = chunksLog
            \/ \E m \in ChunkMessages :
                 Accepted(m.upload) /\ chunksLog' = Append(chunksLog, m)
         /\ \/ progressLog' = progressLog
            \/ \E m \in ProgressMessages :
                 Accepted(m.upload) /\ progressLog' = Append(progressLog, m)
<1>1. CASE UNCHANGED <<uploadsLog, chunksLog, progressLog>>
  BY <1>1
<1>2. ASSUME NEW w \in Workers, ProduceCompleted(w)
      PROVE  /\ \E u \in Uploads : Accepted(u) /\ uploadsLog' = Append(uploadsLog, u)
             /\ UNCHANGED <<chunksLog, progressLog>>
  BY <1>2, InHand DEF ProduceCompleted, At, AcceptedOK
<1>3. ASSUME NEW w \in Workers, At(UploadsTopic, w, "announce") \/ At(UploadsTopic, w, "chunks")
      PROVE  Document(w) \in Uploads /\ Accepted(Document(w))
  <2>1. task[UploadsTopic][w].off \in 1 .. Len(uploadsLog)
    BY <1>3, TopicFacts DEF At, IInv, ConsumersOK, TaskFits
  <2> QED
    BY <1>3, <2>1, InHand DEF At, AcceptedOK, Document
<1>4. ASSUME NEW w \in Workers, AnnounceTotal(w)
      PROVE  /\ \E m \in ProgressMessages :
                   Accepted(m.upload) /\ progressLog' = Append(progressLog, m)
             /\ UNCHANGED <<uploadsLog, chunksLog>>
  <2>1. PICK u \in Uploads : u = Document(w) /\ Accepted(u)
    BY <1>3, <1>4 DEF AnnounceTotal
  <2>2. PICK m : m = [upload |-> u, total |-> Sections[u], processed |-> 0]
    OBVIOUS
  <2>3. m \in ProgressMessages /\ m.upload = u
    BY <2>2, PipelineAssumption DEF ProgressMessages
  <2>4. progressLog' = Append(progressLog, m) /\ UNCHANGED <<uploadsLog, chunksLog>>
    BY <1>4, <2>1, <2>2 DEF AnnounceTotal
  <2> QED
    BY <2>1, <2>3, <2>4
<1>5. ASSUME NEW w \in Workers, ProduceChunk(w)
      PROVE  /\ \E m \in ChunkMessages :
                   Accepted(m.upload) /\ chunksLog' = Append(chunksLog, m)
             /\ UNCHANGED <<uploadsLog, progressLog>>
  <2>1. PICK u \in Uploads : u = Document(w) /\ Accepted(u)
    BY <1>3, <1>5 DEF ProduceChunk
  <2>2. /\ task[UploadsTopic][w].n \in Nat /\ task[UploadsTopic][w].n < Sections[u]
        /\ Sections[u] \in Nat
    BY <1>5, <2>1, TopicFacts, PipelineAssumption
       DEF ProduceChunk, At, IInv, ConsumersOK, CountersOK, CounterFits, Document, Tasks
  <2>3. PICK m : m = [upload |-> u, index |-> task[UploadsTopic][w].n, total |-> Sections[u]]
    OBVIOUS
  <2>4. m \in ChunkMessages /\ m.upload = u
    BY <2>2, <2>3 DEF ChunkMessages, Indexes
  <2>5. chunksLog' = Append(chunksLog, m) /\ UNCHANGED <<uploadsLog, progressLog>>
    BY <1>5, <2>1, <2>3 DEF ProduceChunk
  <2> QED
    BY <2>1, <2>4, <2>5
<1>6. ASSUME NEW w \in Workers, ReportProgress(w)
      PROVE  /\ \E m \in ProgressMessages :
                   Accepted(m.upload) /\ progressLog' = Append(progressLog, m)
             /\ UNCHANGED <<uploadsLog, chunksLog>>
  <2>1. task[ChunksTopic][w].off \in 1 .. Len(chunksLog)
    BY <1>6, TopicFacts DEF ReportProgress, At, IInv, ConsumersOK, TaskFits
  <2>2. PICK u \in Uploads : /\ u = Chunk(w).upload /\ Accepted(u)
                             /\ Chunk(w).total = Sections[u]
    BY <1>6, <2>1, InHand DEF ReportProgress, At, AcceptedOK, Chunk
  <2>3. task[ChunksTopic][w].n \in 0 .. Sections[u]
    <3>1. /\ task[ChunksTopic][w].n \in Nat
          /\ task[ChunksTopic][w].n <= Cardinality(stored[u])
      BY <1>6, <2>2, TopicFacts
         DEF ReportProgress, At, IInv, ConsumersOK, CountersOK, CounterFits, Chunk, Tasks
    <3> QED
      BY <3>1, StoredIsCounted
  <2>4. PICK m : m = [upload |-> u, total |-> Sections[u], processed |-> task[ChunksTopic][w].n]
    OBVIOUS
  <2>5. m \in ProgressMessages /\ m.upload = u
    BY <2>3, <2>4 DEF ProgressMessages
  <2>6. progressLog' = Append(progressLog, m) /\ UNCHANGED <<uploadsLog, chunksLog>>
    BY <1>6, <2>2, <2>4 DEF ReportProgress
  <2> QED
    BY <2>2, <2>5, <2>6
<1>7. \/ UNCHANGED <<uploadsLog, chunksLog, progressLog>>
      \/ \E w \in Workers : \/ ProduceCompleted(w) \/ AnnounceTotal(w)
                            \/ ProduceChunk(w) \/ ReportProgress(w)
  BY DEF Next, Client, CreateUpload, PutObjects, DeleteUpload, Consume, Fetch, Commit,
         Disturb, PartFails, HandlerFails, Crash, LosePartitions, vars, logs, Handle,
         MarkUploaded, SkipDeleted, UpsertUpload, StoreChunk, CountChunks, MergeProgress
<1> QED
  BY <1>1, <1>2, <1>4, <1>5, <1>6, <1>7

LEMMA AcceptedInit == Init => AcceptedOK
<1> SUFFICES ASSUME Init PROVE AcceptedOK
  OBVIOUS
<1>1. /\ Len(uploadsLog) = 0 /\ Len(chunksLog) = 0 /\ Len(progressLog) = 0
      /\ \A w \in Workers : task[S3Events][w].step = "idle"
  BY TopicFacts DEF Init, Idle
<1> QED
  BY <1>1 DEF AcceptedOK

LEMMA AcceptedSafe ==
  ASSUME IInv, AcceptedOK, [Next]_vars
  PROVE  AcceptedOK'
<1>1. IInv'
  BY NextSafe
<1>2. ASSUME NEW u \in Uploads, Accepted(u)
      PROVE  Accepted(u)'
  BY <1>1, <1>2, NextRowStep, AcceptedStays
<1>3. ASSUME NEW i \in 1 .. Len(uploadsLog')
      PROVE  Accepted(uploadsLog[i])'
  <2>1. uploadsLog \in Seq(Uploads) /\ uploadsLog' \in Seq(Uploads)
    BY <1>1 DEF IInv, DataOK
  <2>2. uploadsLog'[i] \in Uploads /\ Accepted(uploadsLog'[i])
    BY <2>1, RecordSources, SMTT(30) DEF AcceptedOK
  <2>3. PICK u \in Uploads : u = uploadsLog'[i]
    BY <2>2
  <2>4. Accepted(u)'
    BY <1>2, <2>2, <2>3
  <2> QED
    BY <2>3, <2>4 DEF Accepted
<1>4. ASSUME NEW i \in 1 .. Len(chunksLog')
      PROVE  Accepted(chunksLog[i].upload)'
  <2>1. chunksLog \in Seq(ChunkMessages) /\ chunksLog' \in Seq(ChunkMessages)
    BY <1>1 DEF IInv, DataOK
  <2>2. chunksLog'[i] \in ChunkMessages /\ Accepted(chunksLog'[i].upload)
    <3>1. CASE chunksLog' = chunksLog
      BY <2>1, <3>1 DEF AcceptedOK
    <3>2. CASE \E m \in ChunkMessages : Accepted(m.upload) /\ chunksLog' = Append(chunksLog, m)
      <4>1. PICK m \in ChunkMessages : Accepted(m.upload) /\ chunksLog' = Append(chunksLog, m)
        BY <3>2
      <4>2. CASE i \in 1 .. Len(chunksLog)
        BY <2>1, <4>1, <4>2 DEF AcceptedOK
      <4>3. CASE i = Len(chunksLog) + 1
        BY <2>1, <4>1, <4>3
      <4> QED
        BY <2>1, <4>1, <4>2, <4>3
    <3> QED
      BY <3>1, <3>2, RecordSources
  <2>3. PICK u \in Uploads : u = chunksLog'[i].upload
    BY <2>2 DEF ChunkMessages
  <2>4. Accepted(u)'
    BY <1>2, <2>2, <2>3
  <2> QED
    BY <2>3, <2>4 DEF Accepted
<1>5. ASSUME NEW i \in 1 .. Len(progressLog')
      PROVE  Accepted(progressLog[i].upload)'
  <2>1. progressLog \in Seq(ProgressMessages) /\ progressLog' \in Seq(ProgressMessages)
    BY <1>1 DEF IInv, DataOK
  <2>2. progressLog'[i] \in ProgressMessages /\ Accepted(progressLog'[i].upload)
    <3>1. CASE progressLog' = progressLog
      BY <2>1, <3>1 DEF AcceptedOK
    <3>2. CASE \E m \in ProgressMessages : Accepted(m.upload) /\ progressLog' = Append(progressLog, m)
      <4>1. PICK m \in ProgressMessages : Accepted(m.upload) /\ progressLog' = Append(progressLog, m)
        BY <3>2
      <4>2. CASE i \in 1 .. Len(progressLog)
        BY <2>1, <4>1, <4>2 DEF AcceptedOK
      <4>3. CASE i = Len(progressLog) + 1
        BY <2>1, <4>1, <4>3
      <4> QED
        BY <2>1, <4>1, <4>2, <4>3
    <3> QED
      BY <3>1, <3>2, RecordSources
  <2>3. PICK u \in Uploads : u = progressLog'[i].upload
    BY <2>2 DEF ProgressMessages
  <2>4. Accepted(u)'
    BY <1>2, <2>2, <2>3
  <2> QED
    BY <2>3, <2>4 DEF Accepted
<1>6. ASSUME NEW w \in Workers, task'[S3Events][w].step = "produce"
      PROVE  Accepted(Current(w))'
  <2>1. CASE task'[S3Events][w] = task[S3Events][w]
    <3>1. task[S3Events][w].off \in 1 .. Len(s3Log)
      BY <1>6, <2>1, TopicFacts DEF IInv, ConsumersOK, TaskFits
    <3>2. s3Log' = s3Log \/ \E objects \in Notifications : s3Log' = Append(s3Log, objects)
      BY DEF Next, Client, CreateUpload, PutObjects, DeleteUpload, Consume, Fetch, Commit,
             Disturb, PartFails, HandlerFails, Crash, LosePartitions, vars, logs, Handle,
             MarkUploaded, SkipDeleted, UpsertUpload, StoreChunk, CountChunks,
             MergeProgress, ProduceCompleted, AnnounceTotal, ProduceChunk, ReportProgress
    <3>3. s3Log'[task[S3Events][w].off] = s3Log[task[S3Events][w].off]
      BY <3>1, <3>2 DEF IInv, DataOK
    <3>4. PICK u \in Uploads : u = Current(w) /\ Accepted(u)
      BY <1>6, <2>1, InHand DEF AcceptedOK
    <3>5. Current(w)' = u
      BY <2>1, <3>3, <3>4 DEF Current, Notified
    <3>6. Accepted(u)'
      BY <1>2, <3>4
    <3> QED
      BY <3>5, <3>6 DEF Accepted
  <2>2. CASE MarkUploaded(w)
    <3>1. PICK u \in Uploads : u = Current(w)
      BY <2>2, InHand DEF MarkUploaded, At
    <3>2. /\ task[S3Events][w] \in Tasks
          /\ task' = [task EXCEPT ![S3Events][w] =
                        [task[S3Events][w] EXCEPT !.step = "produce",
                                                  !.n = task[S3Events][w].n]]
          /\ s3Log' = s3Log
      BY <2>2, TopicFacts DEF MarkUploaded, Continue, IInv, ConsumersOK, logs
    <3>3. /\ task'[S3Events][w].off = task[S3Events][w].off
          /\ task'[S3Events][w].n = task[S3Events][w].n
      BY <3>2, TopicFacts DEF IInv, ConsumersOK, Tasks
    <3>4. Current(w)' = u
      BY <3>1, <3>2, <3>3 DEF Current, Notified
    <3>5. row'[u].status \in {"uploaded", "processing", "processed"}
      BY <2>2, <3>1, RowTypes DEF MarkUploaded, UpdateStatus, IInv, DataOK, Row
    <3> QED
      BY <3>4, <3>5 DEF Accepted
  <2> QED
    BY <1>6, <2>1, <2>2, ProduceStep
<1> QED
  BY <1>3, <1>4, <1>5, <1>6 DEF AcceptedOK

-----------------------------------------------------------------------------
(* The refinement: how the steps of the system look from the dashboard.    *)
Shown == <<row, stored>>

LEMMA CreateIsRegister ==
  ASSUME IInv, NEW u \in Uploads, CreateUpload(u)
  PROVE  Lifecycle!Next
<1>1. /\ row[u].status = "none" /\ row' = [row EXCEPT ![u] = NoRow("pending")]
      /\ stored' = stored /\ row \in [Uploads -> Row]
  BY DEF CreateUpload, Create, rag, IInv, DataOK
<1>2. row[u].processed = 0
  BY <1>1, BlankRows
<1>3. \A v \in Uploads : /\ row'[v].status = IF v = u THEN "pending" ELSE row[v].status
                         /\ row'[v].processed = row[v].processed
  BY <1>1, <1>2 DEF NoRow
<1>4. Lifecycle!Register(u)
  BY <1>1, <1>3 DEF Lifecycle!Register
<1> QED
  BY <1>4 DEF Lifecycle!Next

LEMMA DeleteIsRemove ==
  ASSUME IInv, NEW u \in Uploads, DeleteUpload(u)
  PROVE  Lifecycle!Next
<1>1. /\ row[u].status \in Statuses /\ row' = [row EXCEPT ![u] = NoRow("deleted")]
      /\ stored' = stored /\ row \in [Uploads -> Row]
  BY DEF DeleteUpload, DeleteByID, Exists, rag, IInv, DataOK
<1>2. \A v \in Uploads :
        /\ row'[v].status = IF v = u THEN "deleted" ELSE row[v].status
        /\ row'[v].processed = IF v = u THEN 0 ELSE row[v].processed
  BY <1>1 DEF NoRow
<1>3. Lifecycle!Remove(u)
  BY <1>1, <1>2 DEF Lifecycle!Remove, Statuses
<1> QED
  BY <1>3 DEF Lifecycle!Next

LEMMA MarkIsAccept ==
  ASSUME IInv, NEW w \in Workers, MarkUploaded(w)
  PROVE  Lifecycle!Next \/ UNCHANGED Shown
<1>1. PICK u \in Uploads : u = Current(w)
  BY InHand DEF MarkUploaded, At
<1>2. /\ row' = [row EXCEPT ![u].status =
                   IF @ \in {"processing", "processed"} THEN @ ELSE "uploaded"]
      /\ row[u].status \in Statuses
      /\ stored' = stored /\ row \in [Uploads -> Row]
  BY <1>1 DEF MarkUploaded, UpdateStatus, Exists, rag, IInv, DataOK
<1>3. CASE row[u].status = "pending"
  <2>1. \A v \in Uploads :
          /\ row'[v].status = IF v = u THEN "uploaded" ELSE row[v].status
          /\ row'[v].processed = row[v].processed
    BY <1>2, <1>3 DEF Row
  <2>2. Lifecycle!Accept(u)
    BY <1>2, <1>3, <2>1 DEF Lifecycle!Accept
  <2> QED
    BY <2>2 DEF Lifecycle!Next
<1>4. CASE row[u].status # "pending"
  <2>1. row[u] \in Row /\ row[u].status \in {"uploaded", "processing", "processed"}
    BY <1>2, <1>4 DEF Statuses
  <2>2. [row[u] EXCEPT !.status =
           IF @ \in {"processing", "processed"} THEN @ ELSE "uploaded"] = row[u]
    BY <2>1 DEF Row
  <2>3. row' = row
    BY <1>2, <2>2
  <2> QED
    BY <1>2, <2>3 DEF Shown
<1> QED
  BY <1>3, <1>4

LEMMA StoreIsIndex ==
  ASSUME IInv, AcceptedOK, NEW w \in Workers, StoreChunk(w)
  PROVE  Lifecycle!Next
<1>1. task[ChunksTopic][w].off \in 1 .. Len(chunksLog)
  BY TopicFacts DEF StoreChunk, At, IInv, ConsumersOK, TaskFits
<1>2. PICK u \in Uploads : u = Chunk(w).upload /\ Accepted(u)
  BY <1>1, InHand DEF StoreChunk, At, AcceptedOK, Chunk
<1>3. PICK i \in 0 .. Sections[u] - 1 : i = Chunk(w).index
  BY <1>2, InHand DEF StoreChunk, At, Indexes
<1>4. stored' = [stored EXCEPT ![u] = @ \cup {i}] /\ row' = row
  BY <1>2, <1>3 DEF StoreChunk, CreateChunk
<1>5. Lifecycle!Index(u, i)
  BY <1>2, <1>4 DEF Lifecycle!Index, Accepted
<1> QED
  BY <1>5 DEF Lifecycle!Next

LEMMA SameCardinality ==
  ASSUME NEW S
  PROVE  Lifecycle!Cardinality(S) = Cardinality(S)
  BY DEF Cardinality, Lifecycle!Cardinality

LEMMA MergeIsReport ==
  ASSUME IInv, AcceptedOK, NEW w \in Workers, MergeProgress(w)
  PROVE  Lifecycle!Next \/ UNCHANGED Shown
<1>1. task[ProgressTopic][w].off \in 1 .. Len(progressLog)
  BY InHand DEF MergeProgress, At
<1>2. PICK u \in Uploads : u = Snapshot(w).upload /\ Accepted(u)
  BY <1>1, InHand DEF MergeProgress, At, AcceptedOK, Snapshot
<1>3. PICK done \in 0 .. Cardinality(stored[u]) : done = Snapshot(w).processed
  BY <1>2, SnapshotInHand
<1>4. ApplyProgress(u, Sections[u], done) /\ stored' = stored
  BY <1>2, <1>3, SnapshotInHand DEF MergeProgress, rag
<1>5. CASE row' = row
  BY <1>4, <1>5 DEF Shown
<1>6. CASE row' # row
  <2>0. PICK k : k = row'[u].processed
    OBVIOUS
  <2>1. /\ row' = [row EXCEPT ![u] = Merged(row[u], Sections[u], done)]
        /\ row'[u].total = Sections[u] /\ k = Greatest(row[u].processed, done)
        /\ row'[u].status = IF k = Sections[u] THEN "processed" ELSE "processing"
        /\ row[u].status \in Statuses
    BY <1>4, <1>6, <2>0, MergeEffect DEF Exists
  <2>2. /\ row[u].processed \in 0 .. Cardinality(stored[u])
        /\ Cardinality(stored[u]) \in 0 .. Sections[u] /\ Sections[u] \in Nat
    BY StoredIsCounted DEF IInv, RowsOK
  <2>3. k \in 0 .. Sections[u] /\ row[u].processed <= k /\ k <= Cardinality(stored[u])
    BY <2>1, <2>2 DEF Greatest
  <2>4. row[u].status # "processed"
    <3>1. SUFFICES ASSUME row[u].status = "processed" PROVE FALSE
      OBVIOUS
    <3>2. /\ row[u].total = Sections[u] /\ row[u].processed = Sections[u]
          /\ row[u] \in Row
      BY <3>1, RowTypes DEF IInv, RowsOK, StatusMatchesCounts
    <3>3. Greatest(row[u].processed, done) = row[u].processed
      BY <2>2, <3>2 DEF Greatest
    <3>4. Merged(row[u], Sections[u], done) = row[u]
      BY <3>1, <3>2, <3>3 DEF Merged, Row
    <3> QED
      BY <1>6, <2>1, <3>4 DEF IInv, DataOK
  <2>5. row[u].status \in {"uploaded", "processing"}
    BY <1>2, <2>1, <2>4 DEF Accepted, Statuses
  <2>6. \A v \in Uploads :
          /\ row'[v].status = IF v = u
                              THEN IF k = Sections[u] THEN "processed" ELSE "processing"
                              ELSE row[v].status
          /\ row'[v].processed = IF v = u THEN k ELSE row[v].processed
    BY <2>0, <2>1 DEF IInv, DataOK
  <2>7. Lifecycle!Report(u, k)
    BY <1>4, <2>3, <2>5, <2>6, SameCardinality DEF Lifecycle!Report
  <2> QED
    BY <2>3, <2>7 DEF Lifecycle!Next
<1> QED
  BY <1>5, <1>6

LEMMA StepRefines ==
  ASSUME IInv, AcceptedOK, [Next]_vars
  PROVE  [Lifecycle!Next]_(Lifecycle!vars)
<1>1. CASE UNCHANGED Shown
  BY <1>1 DEF Shown, Lifecycle!vars
<1>2. CASE \E u \in Uploads : CreateUpload(u)
  BY <1>2, CreateIsRegister
<1>3. CASE \E u \in Uploads : DeleteUpload(u)
  BY <1>3, DeleteIsRemove
<1>4. CASE \E w \in Workers : MarkUploaded(w)
  BY <1>1, <1>4, MarkIsAccept
<1>5. CASE \E w \in Workers : StoreChunk(w)
  BY <1>5, StoreIsIndex
<1>6. CASE \E w \in Workers : MergeProgress(w)
  BY <1>1, <1>6, MergeIsReport
<1> QED
  BY <1>1, <1>2, <1>3, <1>4, <1>5, <1>6
  DEF Next, Client, PutObjects, Consume, Fetch, Commit, Disturb, PartFails,
      HandlerFails, Crash, LosePartitions, vars, rag, Shown, Handle, SkipDeleted,
      ProduceCompleted, AnnounceTotal, ProduceChunk, UpsertUpload, CountChunks,
      ReportProgress

(* The pipeline keeps the promise of UploadLifecycle: what the dashboard   *)
(* shows and what retrieval finds are a behaviour of it.                   *)
THEOREM PipelineImplementsLifecycle == Spec => ImplementsLifecycle
<1>1. Init => Lifecycle!Init
  BY DEF Init, RowsInit, NoRow, Lifecycle!Init
<1>2. Init => AcceptedOK
  BY AcceptedInit
<1>3. IInv /\ AcceptedOK /\ [Next]_vars => AcceptedOK'
  BY AcceptedSafe
<1>4. IInv /\ AcceptedOK /\ [Next]_vars => [Lifecycle!Next]_(Lifecycle!vars)
  BY StepRefines
<1> QED
  BY <1>1, <1>2, <1>3, <1>4, Invariance, PTL DEF Spec, ImplementsLifecycle, Lifecycle!Spec

-----------------------------------------------------------------------------
(* At-least-once, end to end: what a record has left behind once it may be *)
(* committed, topic by topic.                                              *)
PartDone(u) ==
  \/ row[u].status = "deleted"
  \/ \E k \in DOMAIN uploadsLog : uploadsLog[k] = u

Announced(u) == \E k \in DOMAIN progressLog : progressLog[k].upload = u

Sent(u, x) ==
  \E k \in DOMAIN chunksLog : chunksLog[k].upload = u /\ chunksLog[k].index = x

NotificationDone(i) == \A j \in DOMAIN s3Log[i] : PartDone(s3Log[i][j])

DocumentDone(i) ==
  /\ Announced(uploadsLog[i])
  /\ \A x \in Indexes(uploadsLog[i]) : Sent(uploadsLog[i], x)

SectionDone(i) ==
  /\ chunksLog[i].index \in stored[chunksLog[i].upload]
  /\ chunksLog[i].upload \in ragUploads

(* The first i records of topic chunks name every section of u.            *)
Covered(u, i) ==
  \A x \in Indexes(u) : \E j \in 1 .. i :
    chunksLog[j].upload = u /\ chunksLog[j].index = x

FullCount(u) ==
  \E k \in DOMAIN progressLog :
    progressLog[k].upload = u /\ progressLog[k].processed = Sections[u]

(* What a task k of each topic has left behind at its step.  A count that  *)
(* was read when the sections up to k.off were all stored is the full one. *)
NotificationTask(k) ==
  /\ k.step \in {"update", "produce"} /\ ~k.failed =>
       \A j \in 1 .. k.n : PartDone(s3Log[k.off][j])
  /\ k.step = "commit" => NotificationDone(k.off)

DocumentTask(k) ==
  /\ k.step = "chunks" =>
       /\ Announced(uploadsLog[k.off])
       /\ \A x \in 0 .. k.n - 1 : Sent(uploadsLog[k.off], x)
  /\ k.step = "commit" => DocumentDone(k.off)

SectionTask(k) ==
  /\ k.step = "store" => chunksLog[k.off].upload \in ragUploads
  /\ k.step \in {"count", "report", "commit"} => SectionDone(k.off)
  /\ k.step = "report" /\ Covered(chunksLog[k.off].upload, k.off) =>
       k.n = Sections[chunksLog[k.off].upload]
  /\ k.step = "commit" /\ Covered(chunksLog[k.off].upload, k.off) =>
       FullCount(chunksLog[k.off].upload)

TasksLeave ==
  \A w \in Workers :
    /\ NotificationTask(task[S3Events][w])
    /\ DocumentTask(task[UploadsTopic][w])
    /\ SectionTask(task[ChunksTopic][w])

(* No worker is ahead of the group; the partition's owner has the first    *)
(* record that is not committed.                                           *)
OffsetsFollow ==
  \A t \in Topics, w \in Workers : task[t][w].step # "idle" =>
    /\ task[t][w].off <= committed[t] + 1
    /\ owner[t] = w => task[t][w].off = committed[t] + 1

(* Only an upload that was registered is notified.                         *)
Registered(u) == row[u].status # "none"

NotifiedRegistered ==
  /\ \A u \in signed : Registered(u)
  /\ \A i \in DOMAIN s3Log : \A j \in DOMAIN s3Log[i] : Registered(s3Log[i][j])

DeliveryOK ==
  /\ TasksLeave
  /\ OffsetsFollow
  /\ NotifiedRegistered
  /\ NothingDropped
  /\ CompletionAnnounced

-----------------------------------------------------------------------------
LEMMA LogFacts ==
  ASSUME IInv
  PROVE  /\ Len(s3Log) \in Nat /\ Len(uploadsLog) \in Nat
         /\ Len(chunksLog) \in Nat /\ Len(progressLog) \in Nat
         /\ \A i \in 1 .. Len(uploadsLog) : uploadsLog[i] \in Uploads
         /\ \A i \in 1 .. Len(chunksLog) : chunksLog[i] \in ChunkMessages
  BY DEF IInv, DataOK

LEMMA AppendFacts ==
  ASSUME NEW S, NEW s \in Seq(S), NEW e \in S
  PROVE  /\ Append(s, e) \in Seq(S)
         /\ Len(s) \in Nat /\ Len(Append(s, e)) = Len(s) + 1
         /\ \A i \in 1 .. Len(s) : Append(s, e)[i] = s[i]
         /\ Append(s, e)[Len(s) + 1] = e
  OBVIOUS

(* Topics and tables only gain; rows only move forward.                    *)
Growth ==
  /\ LogsGrow
  /\ StoredGrows
  /\ ragUploads \subseteq ragUploads'
  /\ \A u \in Uploads : RowStep(u)

LEMMA TopicsGrow ==
  ASSUME IInv, AcceptedOK, [Next]_vars
  PROVE  /\ IInv' /\ Growth
         /\ \/ s3Log' = s3Log
            \/ \E u \in Notifications :
                 /\ s3Log' = Append(s3Log, u) /\ signed' = signed /\ row' = row
                 /\ \A i \in DOMAIN u : u[i] \in signed
<1>1. IInv'
  BY NextSafe
<1>2. \/ s3Log' = s3Log
      \/ \E u \in Notifications :
           /\ s3Log' = Append(s3Log, u) /\ signed' = signed /\ row' = row
           /\ \A i \in DOMAIN u : u[i] \in signed
  BY DEF Next, Client, CreateUpload, PutObjects, DeleteUpload, Consume, Fetch, Commit,
         Disturb, PartFails, HandlerFails, Crash, LosePartitions, vars, logs, Handle,
         MarkUploaded, SkipDeleted, UpsertUpload, StoreChunk, CountChunks,
         MergeProgress, ProduceCompleted, AnnounceTotal, ProduceChunk, ReportProgress
<1>3. /\ Len(s3Log) <= Len(s3Log')
      /\ \A i \in 1 .. Len(s3Log) : s3Log'[i] = s3Log[i]
  <2>1. s3Log \in Seq(Notifications) /\ Len(s3Log) \in Nat
    BY DEF IInv, DataOK
  <2> QED
    BY <1>2, <2>1, AppendFacts
<1>4. /\ Len(uploadsLog) <= Len(uploadsLog')
      /\ \A i \in 1 .. Len(uploadsLog) : uploadsLog'[i] = uploadsLog[i]
  <2>1. uploadsLog \in Seq(Uploads) /\ Len(uploadsLog) \in Nat
    BY DEF IInv, DataOK
  <2>2. uploadsLog' = uploadsLog \/ \E u \in Uploads : uploadsLog' = Append(uploadsLog, u)
    BY RecordSources
  <2> QED
    BY <2>1, <2>2, AppendFacts
<1>5. /\ Len(chunksLog) <= Len(chunksLog')
      /\ \A i \in 1 .. Len(chunksLog) : chunksLog'[i] = chunksLog[i]
  <2>1. chunksLog \in Seq(ChunkMessages) /\ Len(chunksLog) \in Nat
    BY DEF IInv, DataOK
  <2>2. chunksLog' = chunksLog \/ \E m \in ChunkMessages : chunksLog' = Append(chunksLog, m)
    BY RecordSources
  <2> QED
    BY <2>1, <2>2, AppendFacts
<1>6. /\ Len(progressLog) <= Len(progressLog')
      /\ \A i \in 1 .. Len(progressLog) : progressLog'[i] = progressLog[i]
  <2>1. progressLog \in Seq(ProgressMessages) /\ Len(progressLog) \in Nat
    BY DEF IInv, DataOK
  <2>2. progressLog' = progressLog \/ \E m \in ProgressMessages : progressLog' = Append(progressLog, m)
    BY RecordSources
  <2> QED
    BY <2>1, <2>2, AppendFacts
<1>7. \/ stored' = stored
      \/ \E w \in Workers : StoreChunk(w)
  BY DEF Next, Client, CreateUpload, PutObjects, DeleteUpload, Consume, Fetch, Commit,
         Disturb, PartFails, HandlerFails, Crash, LosePartitions, vars, rag, Handle,
         MarkUploaded, SkipDeleted, UpsertUpload, CountChunks,
         MergeProgress, ProduceCompleted, AnnounceTotal, ProduceChunk, ReportProgress
<1>8. StoredGrows
  BY <1>7 DEF StoredGrows, StoreChunk, CreateChunk, IInv, DataOK
<1>9. ragUploads \subseteq ragUploads'
  BY DEF Next, Client, CreateUpload, PutObjects, DeleteUpload, Consume, Fetch, Commit,
         Disturb, PartFails, HandlerFails, Crash, LosePartitions, vars, rag, Handle,
         MarkUploaded, SkipDeleted, UpsertUpload, Upsert, StoreChunk, CountChunks,
         MergeProgress, ProduceCompleted, AnnounceTotal, ProduceChunk, ReportProgress
<1>10. \A u \in Uploads : RowStep(u)
  BY NextRowStep
<1> QED
  BY <1>1, <1>2, <1>3, <1>4, <1>5, <1>6, <1>8, <1>9, <1>10 DEF Growth, LogsGrow

(* A deleted row stays deleted, a registered upload stays registered.      *)
LEMMA RowsStay ==
  ASSUME IInv, IInv', NEW u \in Uploads, RowStep(u)
  PROVE  /\ row[u].status = "deleted" => row'[u].status = "deleted"
         /\ Registered(u) => Registered(u)'
<1>1. /\ row'[u].status \in {"none", "pending", "uploaded", "processing",
                             "processed", "deleted"}
  BY DEF IInv, DataOK, Row, Statuses
<1>2. /\ Rank(row'[u].status) >= Rank(row[u].status)
      /\ Rank(row[u].status) \in 0 .. 5
      /\ row[u].status \in {"none", "pending", "uploaded", "processing",
                            "processed", "deleted"}
  BY RowTypes DEF RowStep
<1> QED
  BY <1>1, <1>2, RankFacts DEF Registered

(* What a record has left behind is still there after any step.            *)
LEMMA EvidenceStays ==
  ASSUME IInv, IInv', Growth, NEW u \in Uploads
  PROVE  /\ PartDone(u) => PartDone(u)'
         /\ Announced(u) => Announced(u)'
         /\ \A x : Sent(u, x) => Sent(u, x)'
         /\ FullCount(u) => FullCount(u)'
         /\ \A i \in 0 .. Len(chunksLog) : Covered(u, i)' <=> Covered(u, i)
<1>1. LogsGrow /\ StoredGrows /\ ragUploads \subseteq ragUploads'
  BY DEF Growth
<1>2. /\ uploadsLog \in Seq(Uploads) /\ uploadsLog' \in Seq(Uploads)
      /\ chunksLog \in Seq(ChunkMessages) /\ chunksLog' \in Seq(ChunkMessages)
      /\ progressLog \in Seq(ProgressMessages) /\ progressLog' \in Seq(ProgressMessages)
  BY DEF IInv, DataOK
<1>3. /\ DOMAIN uploadsLog = 1 .. Len(uploadsLog) /\ Len(uploadsLog) \in Nat
       /\ DOMAIN uploadsLog' = 1 .. Len(uploadsLog') /\ Len(uploadsLog') \in Nat
       /\ DOMAIN chunksLog = 1 .. Len(chunksLog) /\ Len(chunksLog) \in Nat
       /\ DOMAIN chunksLog' = 1 .. Len(chunksLog') /\ Len(chunksLog') \in Nat
       /\ DOMAIN progressLog = 1 .. Len(progressLog) /\ Len(progressLog) \in Nat
       /\ DOMAIN progressLog' = 1 .. Len(progressLog') /\ Len(progressLog') \in Nat
  BY <1>2
<1>4. PartDone(u) => PartDone(u)'
  <2>1. ASSUME NEW k \in DOMAIN uploadsLog
        PROVE  k \in DOMAIN uploadsLog' /\ uploadsLog'[k] = uploadsLog[k]
    BY <1>1, <1>3 DEF LogsGrow
  <2> QED
    BY <2>1, RowsStay DEF PartDone, Growth
<1>5. ASSUME NEW k \in DOMAIN progressLog
      PROVE  k \in DOMAIN progressLog' /\ progressLog'[k] = progressLog[k]
  BY <1>1, <1>3 DEF LogsGrow
<1>6. ASSUME NEW k \in DOMAIN chunksLog
      PROVE  k \in DOMAIN chunksLog' /\ chunksLog'[k] = chunksLog[k]
  BY <1>1, <1>3 DEF LogsGrow
<1>7. (Announced(u) => Announced(u)') /\ (FullCount(u) => FullCount(u)')
  BY <1>5 DEF Announced, FullCount
<1>8. \A x : Sent(u, x) => Sent(u, x)'
  BY <1>6 DEF Sent
<1>9. ASSUME NEW i \in 0 .. Len(chunksLog)
      PROVE  Covered(u, i)' <=> Covered(u, i)
  <2>1. \A j \in 1 .. i : chunksLog'[j] = chunksLog[j]
    BY <1>1, <1>3 DEF LogsGrow
  <2> QED
    BY <2>1 DEF Covered, Indexes
<1> QED
  BY <1>4, <1>7, <1>8, <1>9

LEMMA NotificationInLog ==
  ASSUME IInv, NEW i \in 1 .. Len(s3Log)
  PROVE  s3Log[i] \in Seq(Uploads)
<1>1. s3Log[i] \in Notifications
  BY DEF IInv, DataOK
<1> QED
  BY <1>1, PipelineAssumption

LEMMA WorkStays ==
  ASSUME IInv, IInv', Growth
  PROVE  /\ \A i \in 1 .. Len(s3Log) : NotificationDone(i) => NotificationDone(i)'
         /\ \A i \in 1 .. Len(uploadsLog) : DocumentDone(i) => DocumentDone(i)'
         /\ \A i \in 1 .. Len(chunksLog) : SectionDone(i) => SectionDone(i)'
<1>1. LogsGrow /\ StoredGrows /\ ragUploads \subseteq ragUploads'
  BY DEF Growth
<1>2. ASSUME NEW i \in 1 .. Len(s3Log), NotificationDone(i)
      PROVE  NotificationDone(i)'
  <2>1. s3Log'[i] = s3Log[i] /\ s3Log[i] \in Seq(Uploads)
    BY <1>1, NotificationInLog DEF LogsGrow
  <2>2. ASSUME NEW j \in DOMAIN s3Log[i]
        PROVE  PartDone(s3Log[i][j])'
    <3>1. PICK u \in Uploads : u = s3Log[i][j]
      BY <2>1
    <3>2. PartDone(u)'
      BY <1>2, <3>1, EvidenceStays DEF NotificationDone
    <3>3. s3Log'[i][j] = u
      BY <2>1, <3>1
    <3> QED
      BY <3>2, <3>3 DEF PartDone
  <2> QED
    BY <2>1, <2>2 DEF NotificationDone
<1>3. ASSUME NEW i \in 1 .. Len(uploadsLog), DocumentDone(i)
      PROVE  DocumentDone(i)'
  <2>1. PICK u \in Uploads : u = uploadsLog[i] /\ u = uploadsLog'[i]
    BY <1>1, LogFacts DEF LogsGrow
  <2>2. Announced(u)' /\ \A x \in Indexes(u) : Sent(u, x)'
    BY <1>3, <2>1, EvidenceStays DEF DocumentDone
  <2> QED
    BY <2>1, <2>2 DEF DocumentDone, Announced, Sent
<1>4. ASSUME NEW i \in 1 .. Len(chunksLog), SectionDone(i)
      PROVE  SectionDone(i)'
  <2>1. chunksLog'[i] = chunksLog[i] /\ chunksLog[i] \in ChunkMessages
    BY <1>1, LogFacts DEF LogsGrow
  <2>2. chunksLog[i].upload \in Uploads
    BY <2>1 DEF ChunkMessages
  <2> QED
    BY <1>1, <1>4, <2>1, <2>2 DEF SectionDone, StoredGrows
<1> QED
  BY <1>2, <1>3, <1>4

(* The same for a task that stays where it is.                             *)
LEMMA TaskLeavesStay ==
  ASSUME IInv, IInv', Growth, NEW k
  PROVE  /\ TaskFits(S3Events, k) /\ CounterFits(S3Events, k) /\ NotificationTask(k)
              => NotificationTask(k)'
         /\ TaskFits(UploadsTopic, k) /\ DocumentTask(k) => DocumentTask(k)'
         /\ TaskFits(ChunksTopic, k) /\ SectionTask(k) => SectionTask(k)'
<1>1. LogsGrow /\ StoredGrows /\ ragUploads \subseteq ragUploads'
  BY DEF Growth
<1>2. ASSUME TaskFits(S3Events, k), CounterFits(S3Events, k), NotificationTask(k)
      PROVE  NotificationTask(k)'
  <2>1. k.step # "idle" => k.off \in 1 .. Len(s3Log)
    BY <1>2, TopicFacts DEF TaskFits
  <2>2. ASSUME k.step \in {"update", "produce"}, ~k.failed, NEW j \in 1 .. k.n
        PROVE  PartDone(s3Log[k.off][j])'
    <3>1. s3Log'[k.off] = s3Log[k.off] /\ s3Log[k.off] \in Seq(Uploads)
      BY <1>1, <2>1, <2>2, NotificationInLog DEF LogsGrow
    <3>2. PICK u \in Uploads : u = s3Log[k.off][j]
      <4>1. k.n \in Nat /\ k.n + 1 \in DOMAIN s3Log[k.off]
        BY <1>2, <2>2, TopicFacts DEF TaskFits, Tasks, CounterFits
      <4> QED
        BY <2>2, <3>1, <4>1
    <3>3. PartDone(u)'
      BY <1>2, <2>2, <3>2, EvidenceStays DEF NotificationTask
    <3> QED
      BY <3>1, <3>2, <3>3 DEF PartDone
  <2> QED
    BY <1>2, <2>1, <2>2, WorkStays DEF NotificationTask
<1>3. ASSUME TaskFits(UploadsTopic, k), DocumentTask(k)
      PROVE  DocumentTask(k)'
  <2>1. k.step # "idle" => k.off \in 1 .. Len(uploadsLog)
    BY <1>3, TopicFacts DEF TaskFits
  <2>2. ASSUME k.step = "chunks"
        PROVE  /\ Announced(uploadsLog[k.off])'
               /\ \A x \in 0 .. k.n - 1 : Sent(uploadsLog[k.off], x)'
    <3>1. PICK u \in Uploads : u = uploadsLog[k.off] /\ u = uploadsLog'[k.off]
      BY <1>1, <2>1, <2>2, LogFacts DEF LogsGrow
    <3>2. Announced(u)' /\ \A x \in 0 .. k.n - 1 : Sent(u, x)'
      BY <1>3, <2>2, <3>1, EvidenceStays DEF DocumentTask
    <3> QED
      BY <3>1, <3>2 DEF Announced, Sent
  <2> QED
    BY <1>3, <2>1, <2>2, WorkStays DEF DocumentTask
<1>4. ASSUME TaskFits(ChunksTopic, k), SectionTask(k), k.step # "idle"
      PROVE  SectionTask(k)'
  <2>1. k.off \in 1 .. Len(chunksLog) /\ Len(chunksLog) \in Nat
    BY <1>4, TopicFacts DEF TaskFits, IInv, DataOK
  <2>2. chunksLog'[k.off] = chunksLog[k.off] /\ chunksLog[k.off] \in ChunkMessages
    BY <1>1, <2>1, LogFacts DEF LogsGrow
  <2>3. PICK u \in Uploads : u = chunksLog[k.off].upload
    BY <2>2 DEF ChunkMessages
  <2>4. (Covered(u, k.off)' <=> Covered(u, k.off)) /\ (FullCount(u) => FullCount(u)')
    BY <2>1, EvidenceStays
  <2>5. SectionDone(k.off) => SectionDone(k.off)'
    BY <2>1, WorkStays
  <2> QED
    BY <1>1, <1>4, <2>2, <2>3, <2>4, <2>5 DEF SectionTask, Covered, FullCount
<1>5. k.step = "idle" => SectionTask(k)'
  BY DEF SectionTask
<1> QED
  BY <1>2, <1>3, <1>4, <1>5

-----------------------------------------------------------------------------
(* How a task of a worker may change: it is left alone, dropped, begun at  *)
(* the first uncommitted record or begun again, or its own handler moves.  *)
HandlerStep(t, w) ==
  \/ t = S3Events /\ (MarkUploaded(w) \/ SkipDeleted(w) \/ ProduceCompleted(w) \/ PartFails(w))
  \/ t = UploadsTopic /\ (AnnounceTotal(w) \/ ProduceChunk(w))
  \/ t = ChunksTopic /\ (UpsertUpload(w) \/ StoreChunk(w) \/ CountChunks(w) \/ ReportProgress(w))
  \/ t = ProgressTopic /\ MergeProgress(w)

LEMMA TaskStep ==
  ASSUME IInv, [Next]_vars, NEW t \in Topics, NEW w \in Workers
  PROVE  \/ task'[t][w] = task[t][w]
         \/ task'[t][w] = Idle
         \/ /\ task'[t][w] = Begin(t, committed[t] + 1)
            /\ UNCHANGED <<committed, owner>>
         \/ task[t][w].step # "idle" /\ task'[t][w] = Begin(t, task[t][w].off)
         \/ HandlerStep(t, w)
<1> SUFFICES ASSUME task'[t][w] # task[t][w]
             PROVE  \/ task'[t][w] = Idle
                    \/ /\ task'[t][w] = Begin(t, committed[t] + 1)
                       /\ UNCHANGED <<committed, owner>>
                    \/ task[t][w].step # "idle" /\ task'[t][w] = Begin(t, task[t][w].off)
                    \/ HandlerStep(t, w)
  OBVIOUS
<1>1. task \in [Topics -> [Workers -> Tasks]]
  BY DEF IInv, ConsumersOK
<1>2. ASSUME NEW s \in Topics, NEW v \in Workers, NEW k,
             task' = [task EXCEPT ![s][v] = k]
      PROVE  s = t /\ v = w /\ task'[t][w] = k
  BY <1>1, <1>2
<1>3. task' # task
  OBVIOUS
<1>4. ASSUME NEW v \in Workers, NEW failed, NextPart(v, failed)
      PROVE  S3Events = t /\ v = w
  <2>1. PICK k : task' = [task EXCEPT ![S3Events][v] = k]
    BY <1>4 DEF NextPart
  <2> QED
    BY <1>2, <2>1, TopicFacts
<1>5. ASSUME NEW s \in Topics, NEW v \in Workers, NEW step, NEW n,
             Continue(s, v, step, n)
      PROVE  s = t /\ v = w
  <2>1. task' = [task EXCEPT ![s][v] = [task[s][v] EXCEPT !.step = step, !.n = n]]
    BY <1>1, <1>5 DEF Continue
  <2> QED
    BY <1>2, <2>1
<1>6. ASSUME NEW v \in Workers, Handle(v) \/ PartFails(v)
      PROVE  HandlerStep(t, w)
  <2>1. CASE MarkUploaded(v)
    BY <1>5, <2>1, TopicFacts DEF MarkUploaded, HandlerStep
  <2>2. CASE SkipDeleted(v) \/ ProduceCompleted(v) \/ PartFails(v)
    <3>1. S3Events = t /\ v = w
      BY <1>4, <2>2 DEF SkipDeleted, ProduceCompleted, PartFails
    <3> QED
      BY <2>2, <3>1 DEF HandlerStep
  <2>3. CASE AnnounceTotal(v) \/ ProduceChunk(v)
    <3>1. UploadsTopic = t /\ v = w
      BY <1>5, <2>3, TopicFacts DEF AnnounceTotal, ProduceChunk
    <3> QED
      BY <2>3, <3>1 DEF HandlerStep
  <2>4. CASE UpsertUpload(v) \/ StoreChunk(v) \/ CountChunks(v) \/ ReportProgress(v)
    <3>1. ChunksTopic = t /\ v = w
      BY <1>5, <2>4, TopicFacts DEF UpsertUpload, StoreChunk, CountChunks, ReportProgress
    <3> QED
      BY <2>4, <3>1 DEF HandlerStep
  <2>5. CASE MergeProgress(v)
    <3>1. ProgressTopic = t /\ v = w
      BY <1>5, <2>5, TopicFacts DEF MergeProgress
    <3> QED
      BY <2>5, <3>1 DEF HandlerStep
  <2> QED
    BY <1>6, <2>1, <2>2, <2>3, <2>4, <2>5 DEF Handle
<1>7. ASSUME NEW s \in Topics, NEW v \in Workers, Fetch(s, v)
      PROVE  /\ task'[t][w] = Begin(t, committed[t] + 1)
             /\ UNCHANGED <<committed, owner>>
  <2>1. task' = [task EXCEPT ![s][v] = Begin(s, committed[s] + 1)]
    BY <1>7 DEF Fetch
  <2>2. s = t /\ v = w /\ task'[t][w] = Begin(s, committed[s] + 1)
    BY <1>2, <2>1
  <2> QED
    BY <1>7, <2>2 DEF Fetch
<1>8. ASSUME NEW s \in Topics, NEW v \in Workers, Commit(s, v) \/ Crash(s, v)
      PROVE  task'[t][w] = Idle
  <2>1. task' = [task EXCEPT ![s][v] = Idle]
    BY <1>8 DEF Commit, Crash
  <2> QED
    BY <1>2, <2>1
<1>9. ASSUME NEW s \in Topics, NEW v \in Workers, HandlerFails(s, v)
      PROVE  task[t][w].step # "idle" /\ task'[t][w] = Begin(t, task[t][w].off)
  <2>1. /\ task' = [task EXCEPT ![s][v] = Begin(s, task[s][v].off)]
        /\ task[s][v].step # "idle"
    BY <1>9 DEF HandlerFails
  <2>2. s = t /\ v = w /\ task'[t][w] = Begin(s, task[s][v].off)
    BY <1>2, <2>1
  <2> QED
    BY <2>1, <2>2
<1>10. ~Client /\ ~(\E s \in {Service(x) : x \in Topics}, v, x \in Workers : LosePartitions(s, v, x))
  BY <1>3 DEF Client, CreateUpload, PutObjects, DeleteUpload, LosePartitions
<1> QED
  BY <1>3, <1>6, <1>7, <1>8, <1>9, <1>10 DEF Next, Consume, Disturb, vars

(* What a handler's own step makes of the task.                            *)
LEMMA Continued ==
  ASSUME IInv, NEW t \in Topics, NEW w \in Workers, NEW step, NEW n,
         Continue(t, w, step, n)
  PROVE  /\ task'[t][w].off = task[t][w].off
         /\ task'[t][w].step = step /\ task'[t][w].n = n
         /\ task'[t][w].failed = task[t][w].failed
<1>1. task[t][w] \in Tasks /\ task \in [Topics -> [Workers -> Tasks]]
  BY DEF IInv, ConsumersOK
<1>2. task'[t][w] = [task[t][w] EXCEPT !.step = step, !.n = n]
  BY <1>1 DEF Continue
<1> QED
  BY <1>1, <1>2 DEF Tasks

LEMMA PartEnded ==
  ASSUME IInv, NEW w \in Workers, NEW failed, NextPart(w, failed)
  PROVE  /\ task'[S3Events][w].off = task[S3Events][w].off
         /\ \/ /\ task[S3Events][w].n + 1 < Len(Notified(w))
               /\ task'[S3Events][w].step = "update"
               /\ task'[S3Events][w].n = task[S3Events][w].n + 1
               /\ task'[S3Events][w].failed = failed
            \/ task'[S3Events][w] = Begin(S3Events, task[S3Events][w].off)
            \/ /\ ~(task[S3Events][w].n + 1 < Len(Notified(w))) /\ ~failed
               /\ task'[S3Events][w].step = "commit"
<1> DEFINE k == task[S3Events][w]
<1>1. /\ k \in Tasks /\ task \in [Topics -> [Workers -> Tasks]] /\ S3Events \in Topics
  BY TopicFacts DEF IInv, ConsumersOK
<1>2. task'[S3Events][w] =
        IF k.n + 1 < Len(Notified(w))
        THEN [off |-> k.off, step |-> "update", n |-> k.n + 1, failed |-> failed]
        ELSE IF failed THEN Begin(S3Events, k.off)
        ELSE [off |-> k.off, step |-> "commit", n |-> 0, failed |-> FALSE]
  BY <1>1 DEF NextPart
<1>3. Begin(S3Events, k.off).off = k.off
  BY DEF Begin
<1>4. CASE k.n + 1 < Len(Notified(w))
  BY <1>2, <1>4
<1>5. CASE ~(k.n + 1 < Len(Notified(w))) /\ failed
  BY <1>2, <1>3, <1>5
<1>6. CASE ~(k.n + 1 < Len(Notified(w))) /\ ~failed
  BY <1>2, <1>6
<1> QED
  BY <1>4, <1>5, <1>6

(* No step gives a worker an offset beyond the group's.                    *)
LEMMA OffsetStep ==
  ASSUME IInv, [Next]_vars, NEW t \in Topics, NEW w \in Workers,
         task'[t][w].step # "idle"
  PROVE  \/ task[t][w].step # "idle" /\ task'[t][w].off = task[t][w].off
         \/ task'[t][w].off = committed[t] + 1 /\ UNCHANGED <<committed, owner>>
<1>1. \A off : Begin(t, off).off = off
  BY DEF Begin
<1>2. Idle.step = "idle"
  BY DEF Idle
<1>3. ASSUME HandlerStep(t, w)
      PROVE  task[t][w].step # "idle" /\ task'[t][w].off = task[t][w].off
  <2>1. CASE t = S3Events /\ MarkUploaded(w)
    BY <2>1, Continued, TopicFacts DEF MarkUploaded, At
  <2>2. CASE t = S3Events /\ (SkipDeleted(w) \/ ProduceCompleted(w) \/ PartFails(w))
    BY <2>2, PartEnded, TopicFacts DEF SkipDeleted, ProduceCompleted, PartFails, At
  <2>3. CASE t = UploadsTopic /\ (AnnounceTotal(w) \/ ProduceChunk(w))
    BY <2>3, Continued, TopicFacts DEF AnnounceTotal, ProduceChunk, At
  <2>4. CASE t = ChunksTopic /\ (UpsertUpload(w) \/ StoreChunk(w)
                                 \/ CountChunks(w) \/ ReportProgress(w))
    BY <2>4, Continued, TopicFacts
       DEF UpsertUpload, StoreChunk, CountChunks, ReportProgress, At
  <2>5. CASE t = ProgressTopic /\ MergeProgress(w)
    BY <2>5, Continued, TopicFacts DEF MergeProgress, At
  <2> QED
    BY <1>3, <2>1, <2>2, <2>3, <2>4, <2>5 DEF HandlerStep
<1> QED
  BY <1>1, <1>2, <1>3, TaskStep

(* Who may move the group's offsets and assignments.                       *)
LEMMA GroupStep ==
  ASSUME IInv, [Next]_vars
  PROVE  \/ UNCHANGED <<committed, owner>>
         \/ owner' = owner /\ \E t \in Topics, w \in Workers : Commit(t, w)
         \/ /\ committed' = committed /\ task' = task
            /\ \A t \in Topics, w \in Workers :
                 owner[t] # w /\ owner'[t] = w => task[t][w] = Idle
<1>1. ASSUME NEW s, NEW v \in Workers, NEW x \in Workers, LosePartitions(s, v, x)
      PROVE  /\ committed' = committed /\ task' = task
             /\ \A t \in Topics, w \in Workers :
                  owner[t] # w /\ owner'[t] = w => task[t][w] = Idle
  BY <1>1 DEF LosePartitions
<1>2. \/ UNCHANGED <<committed, owner>>
      \/ owner' = owner /\ \E t \in Topics, w \in Workers : Commit(t, w)
      \/ \E s \in {Service(t) : t \in Topics}, v, x \in Workers : LosePartitions(s, v, x)
  BY DEF Next, Client, CreateUpload, PutObjects, DeleteUpload, Consume, Fetch, Commit,
         Disturb, PartFails, HandlerFails, Crash, vars, Handle,
         MarkUploaded, SkipDeleted, UpsertUpload, StoreChunk, CountChunks,
         MergeProgress, ProduceCompleted, AnnounceTotal, ProduceChunk, ReportProgress
<1> QED
  BY <1>1, <1>2

(* A commit moves the group by exactly one record.                         *)
LEMMA CommitAdvances ==
  ASSUME IInv, OffsetsFollow, NEW t \in Topics, NEW w \in Workers, Commit(t, w)
  PROVE  /\ task[t][w].step = "commit" /\ task[t][w].off = committed[t] + 1
         /\ committed' = [committed EXCEPT ![t] = committed[t] + 1]
         /\ owner[t] = w /\ task'[t][w] = Idle
  BY DEF Commit, At, OffsetsFollow, IInv, ConsumersOK

LEMMA OffsetsFollowSafe ==
  ASSUME IInv, OffsetsFollow, [Next]_vars
  PROVE  OffsetsFollow'
<1> SUFFICES ASSUME NEW t \in Topics, NEW w \in Workers, task'[t][w].step # "idle"
             PROVE  /\ task'[t][w].off <= committed'[t] + 1
                    /\ owner'[t] = w => task'[t][w].off = committed'[t] + 1
  BY DEF OffsetsFollow
<1>1. committed \in [Topics -> Nat] /\ Idle.step = "idle" /\ task[t][w].off \in Nat
  BY DEF IInv, ConsumersOK, Idle, Tasks
<1>2. CASE task'[t][w].off = committed[t] + 1 /\ UNCHANGED <<committed, owner>>
  BY <1>1, <1>2
<1>3. CASE task[t][w].step # "idle" /\ task'[t][w].off = task[t][w].off
  <2>1. CASE UNCHANGED <<committed, owner>>
    BY <1>3, <2>1 DEF OffsetsFollow
  <2>2. ASSUME owner' = owner, NEW s \in Topics, NEW v \in Workers, Commit(s, v)
        PROVE  /\ task'[t][w].off <= committed'[t] + 1
               /\ owner'[t] = w => task'[t][w].off = committed'[t] + 1
    BY <1>1, <1>3, <2>2, CommitAdvances DEF OffsetsFollow
  <2>3. CASE /\ committed' = committed /\ task' = task
             /\ owner[t] # w /\ owner'[t] = w => task[t][w] = Idle
    BY <1>1, <1>3, <2>3 DEF OffsetsFollow
  <2> QED
    BY <2>1, <2>2, <2>3, GroupStep
<1> QED
  BY <1>2, <1>3, OffsetStep

-----------------------------------------------------------------------------
(* Only registered uploads are signed, and only signed ones are notified.  *)
LEMMA NotifiedRegisteredSafe ==
  ASSUME IInv, AcceptedOK, NotifiedRegistered, [Next]_vars
  PROVE  NotifiedRegistered'
<1>1. IInv' /\ Growth
  BY TopicsGrow
<1>2. ASSUME NEW u \in Uploads, Registered(u)
      PROVE  Registered(u)'
  BY <1>1, <1>2, RowsStay DEF Growth
<1>3. ASSUME NEW u \in signed'
      PROVE  Registered(u)'
  <2>1. u \in Uploads
    BY <1>1 DEF IInv, DataOK
  <2>2. signed' = signed \/ \E v \in Uploads : CreateUpload(v)
    BY DEF Next, Client, PutObjects, DeleteUpload, Consume, Fetch, Commit,
           Disturb, PartFails, HandlerFails, Crash, LosePartitions, vars, Handle,
           MarkUploaded, SkipDeleted, UpsertUpload, StoreChunk, CountChunks,
           MergeProgress, ProduceCompleted, AnnounceTotal, ProduceChunk, ReportProgress
  <2>3. CASE u \in signed
    BY <1>2, <2>1, <2>3 DEF NotifiedRegistered
  <2>4. ASSUME NEW v \in Uploads, CreateUpload(v), u \notin signed
        PROVE  Registered(u)'
    BY <2>1, <2>4
       DEF CreateUpload, SignedPutURL, Create, NoRow, Registered, IInv, DataOK
  <2> QED
    BY <2>2, <2>3, <2>4
<1>4. ASSUME NEW i \in DOMAIN s3Log', NEW j \in DOMAIN s3Log'[i]
      PROVE  Registered(s3Log[i][j])'
  <2>1. s3Log \in Seq(Notifications) /\ Len(s3Log) \in Nat
    BY DEF IInv, DataOK
  <2>2. CASE i \in 1 .. Len(s3Log)
    <3>1. s3Log'[i] = s3Log[i] /\ s3Log[i] \in Seq(Uploads) /\ i \in DOMAIN s3Log
      BY <1>1, <2>1, <2>2, NotificationInLog DEF Growth, LogsGrow
    <3>2. PICK u \in Uploads : u = s3Log[i][j]
      BY <1>4, <3>1
    <3>3. Registered(u)'
      BY <1>2, <1>4, <3>1, <3>2 DEF NotifiedRegistered
    <3> QED
      BY <3>1, <3>2, <3>3 DEF Registered
  <2>3. CASE i \notin 1 .. Len(s3Log)
    <3>1. s3Log' # s3Log
      BY <1>4, <2>1, <2>3
    <3>2. PICK objects \in Notifications :
            /\ s3Log' = Append(s3Log, objects) /\ signed' = signed /\ row' = row
            /\ \A x \in DOMAIN objects : objects[x] \in signed
      BY <3>1, TopicsGrow
    <3>3. i = Len(s3Log) + 1 /\ s3Log'[i] = objects
      BY <1>4, <2>1, <2>3, <3>2
    <3>4. objects[j] \in signed
      BY <1>4, <3>2, <3>3
    <3> QED
      BY <3>2, <3>3, <3>4 DEF Registered, NotifiedRegistered
  <2> QED
    BY <2>2, <2>3
<1> QED
  BY <1>3, <1>4 DEF NotifiedRegistered

-----------------------------------------------------------------------------
(* A task that begins a record owes nothing yet.                           *)
LEMMA BeginLeaves ==
  ASSUME NEW off
  PROVE  /\ NotificationTask(Begin(S3Events, off))' /\ NotificationTask(Idle)'
         /\ DocumentTask(Begin(UploadsTopic, off))' /\ DocumentTask(Idle)'
         /\ SectionTask(Begin(ChunksTopic, off))' /\ SectionTask(Idle)'
  BY StepFacts DEF Begin, Idle, NotificationTask, DocumentTask, SectionTask

(* The handler of notifications: a part is left behind when its upload was *)
(* published or its row is gone; after a failed part the record is begun   *)
(* again.                                                                  *)
LEMMA PartLeaves ==
  ASSUME IInv, IInv', Growth, NEW w \in Workers, NEW failed, NEW v \in Uploads,
         v = Current(w), NotificationTask(task[S3Events][w]),
         task[S3Events][w].step \in {"update", "produce"},
         NextPart(w, failed), s3Log' = s3Log,
         ~failed => ~task[S3Events][w].failed /\ PartDone(v)'
  PROVE  NotificationTask(task[S3Events][w])'
<1>1. PICK k : k = task[S3Events][w]
  OBVIOUS
<1>2. /\ k.n \in Nat /\ k.off \in 1 .. Len(s3Log)
      /\ k.n + 1 \in DOMAIN s3Log[k.off] /\ s3Log[k.off] \in Seq(Uploads)
  <2>1. /\ k \in Tasks /\ k.off \in 1 .. Len(s3Log)
        /\ k.n + 1 \in DOMAIN s3Log[k.off]
    BY <1>1, TopicFacts DEF IInv, ConsumersOK, CountersOK, CounterFits, TaskFits
  <2> QED
    BY <2>1, NotificationInLog DEF Tasks
<1>3. ASSUME ~failed, NEW j \in 1 .. k.n + 1
      PROVE  PartDone(s3Log[k.off][j])'
  <2>1. PICK u \in Uploads : u = s3Log[k.off][j]
    BY <1>2
  <2>2. CASE j = k.n + 1
    <3>1. s3Log'[k.off][j] = v
      BY <1>1, <2>2 DEF Current, Notified
    <3> QED
      BY <1>3, <3>1 DEF PartDone
  <2>3. CASE j \in 1 .. k.n
    <3>1. PartDone(u)
      BY <1>1, <1>3, <2>1, <2>3 DEF NotificationTask
    <3>2. PartDone(u)'
      BY <3>1, EvidenceStays
    <3> QED
      BY <2>1, <3>2 DEF PartDone
  <2> QED
    BY <1>2, <2>2, <2>3
<1>4. Notified(w) = s3Log[k.off]
  BY <1>1 DEF Notified
<1>5. CASE /\ task'[S3Events][w].step = "update"
           /\ task'[S3Events][w].n = k.n + 1
           /\ task'[S3Events][w].failed = failed
           /\ task'[S3Events][w].off = k.off
  BY <1>3, <1>5 DEF NotificationTask
<1>6. CASE /\ ~(k.n + 1 < Len(Notified(w))) /\ ~failed
           /\ task'[S3Events][w].step = "commit"
           /\ task'[S3Events][w].off = k.off
  <2>1. DOMAIN s3Log[k.off] = 1 .. k.n + 1
    BY <1>2, <1>4, <1>6
  <2>2. NotificationDone(k.off)'
    BY <1>3, <1>6, <2>1 DEF NotificationDone, PartDone
  <2> QED
    BY <1>6, <2>2 DEF NotificationTask, NotificationDone, PartDone
<1>7. CASE task'[S3Events][w] = Begin(S3Events, k.off)
  BY <1>7, BeginLeaves DEF NotificationTask
<1> QED
  BY <1>1, <1>5, <1>6, <1>7, PartEnded

LEMMA NotificationTaskSafe ==
  ASSUME IInv, AcceptedOK, DeliveryOK, [Next]_vars, NEW w \in Workers
  PROVE  NotificationTask(task[S3Events][w])'
<1> DEFINE k == task[S3Events][w]
<1>1. IInv' /\ Growth /\ S3Events \in Topics
  BY TopicsGrow, TopicFacts
<1>2. NotificationTask(k) /\ TaskFits(S3Events, k) /\ CounterFits(S3Events, k)
  BY <1>1 DEF DeliveryOK, TasksLeave, IInv, ConsumersOK, CountersOK
<1>3. CASE task'[S3Events][w] = k
  <2>1. PICK q : q = k
    OBVIOUS
  <2>2. NotificationTask(q)'
    BY <1>1, <1>2, <2>1, TaskLeavesStay
  <2> QED
    BY <1>3, <2>1, <2>2 DEF NotificationTask
<1>4. CASE task'[S3Events][w] = Idle \/ \E off : task'[S3Events][w] = Begin(S3Events, off)
  BY <1>4, BeginLeaves DEF NotificationTask
<1>5. CASE MarkUploaded(w)
  <2>1. PICK q : q = [k EXCEPT !.step = "produce"]
    OBVIOUS
  <2>2. /\ k \in Tasks /\ k.step = "update"
        /\ q.off = k.off /\ q.n = k.n /\ q.failed = k.failed /\ q.step = "produce"
    BY <1>2, <1>5, <2>1 DEF MarkUploaded, At, TaskFits, Tasks
  <2>3. TaskFits(S3Events, q) /\ CounterFits(S3Events, q) /\ NotificationTask(q)
    BY <1>2, <2>1, <2>2, StepFacts DEF TaskFits, Tasks, StepNames, CounterFits, NotificationTask
  <2>4. NotificationTask(q)'
    BY <1>1, <2>3, TaskLeavesStay
  <2>5. /\ task'[S3Events][w].off = q.off /\ task'[S3Events][w].n = q.n
        /\ task'[S3Events][w].step = q.step /\ task'[S3Events][w].failed = q.failed
    BY <1>1, <1>5, <2>2, Continued DEF MarkUploaded
  <2> QED
    BY <2>4, <2>5 DEF NotificationTask
<1>6. CASE SkipDeleted(w)
  <2>1. k.step = "update" /\ NextPart(w, k.failed) /\ s3Log' = s3Log /\ row' = row
    BY <1>6 DEF SkipDeleted, At, logs
  <2>2. Notified(w) \in Seq(Uploads) /\ Current(w) \in Uploads
    BY <2>1, InHand
  <2>3. Registered(Current(w))
    <3>1. k.off \in DOMAIN s3Log /\ k.n + 1 \in DOMAIN s3Log[k.off]
      BY <1>2, <2>1, TopicFacts DEF TaskFits, CounterFits, IInv, DataOK
    <3> QED
      BY <3>1 DEF DeliveryOK, NotifiedRegistered, Current, Notified
  <2>4. row[Current(w)].status = "deleted"
    BY <1>6, <2>2, <2>3, RowTypes DEF SkipDeleted, Exists, Registered, Statuses
  <2>5. PICK v \in Uploads : v = Current(w)
    BY <2>2
  <2>6. PartDone(v)'
    BY <2>1, <2>4, <2>5 DEF PartDone
  <2> QED
    BY <1>1, <1>2, <2>1, <2>5, <2>6, PartLeaves
<1>7. CASE ProduceCompleted(w)
  <2>1. /\ k.step = "produce" /\ NextPart(w, k.failed) /\ s3Log' = s3Log
        /\ uploadsLog' = Append(uploadsLog, Current(w))
    BY <1>7 DEF ProduceCompleted, At
  <2>2. Current(w) \in Uploads /\ uploadsLog \in Seq(Uploads)
    BY <2>1, InHand DEF IInv, DataOK
  <2>3. Len(uploadsLog) + 1 \in DOMAIN uploadsLog'
        /\ uploadsLog'[Len(uploadsLog) + 1] = Current(w)
    BY <2>1, <2>2
  <2>4. PICK v \in Uploads : v = Current(w)
    BY <2>2
  <2>5. PartDone(v)'
    BY <2>3, <2>4 DEF PartDone
  <2> QED
    BY <1>1, <1>2, <2>1, <2>4, <2>5, PartLeaves
<1>8. CASE PartFails(w)
  <2>1. k.step \in {"update", "produce"} /\ NextPart(w, TRUE) /\ s3Log' = s3Log
    BY <1>8 DEF PartFails, logs
  <2>2. PICK v \in Uploads : v = Current(w)
    BY <2>1, InHand
  <2> QED
    BY <1>1, <1>2, <2>1, <2>2, PartLeaves
<1> QED
  BY <1>1, <1>3, <1>4, <1>5, <1>6, <1>7, <1>8, TaskStep, TopicFacts DEF HandlerStep

(* The ingestion worker: the total first, then section after section.      *)
LEMMA DocumentTaskSafe ==
  ASSUME IInv, AcceptedOK, DeliveryOK, [Next]_vars, NEW w \in Workers
  PROVE  DocumentTask(task[UploadsTopic][w])'
<1>1. PICK k : k = task[UploadsTopic][w]
  OBVIOUS
<1>2. IInv' /\ Growth /\ UploadsTopic \in Topics
  BY TopicsGrow, TopicFacts
<1>3. /\ DocumentTask(k) /\ TaskFits(UploadsTopic, k) /\ CounterFits(UploadsTopic, k)
      /\ k \in Tasks
  BY <1>1, <1>2 DEF DeliveryOK, TasksLeave, IInv, ConsumersOK, CountersOK
<1>4. CASE task'[UploadsTopic][w] = k
  <2>1. DocumentTask(k)'
    BY <1>2, <1>3, TaskLeavesStay
  <2> QED
    BY <1>4, <2>1 DEF DocumentTask
<1>5. CASE task'[UploadsTopic][w] = Idle \/ \E off : task'[UploadsTopic][w] = Begin(UploadsTopic, off)
  BY <1>5, BeginLeaves DEF DocumentTask
<1>6. CASE AnnounceTotal(w)
  <2>1. PICK u \in Uploads : u = Document(w)
    BY <1>6, InHand DEF AnnounceTotal, At
  <2>2. PICK m : m = [upload |-> u, total |-> Sections[u], processed |-> 0]
    OBVIOUS
  <2>3. /\ progressLog \in Seq(ProgressMessages) /\ m \in ProgressMessages
        /\ progressLog' = Append(progressLog, m) /\ m.upload = u
        /\ uploadsLog' = uploadsLog /\ Sections[u] \in Nat
    BY <1>6, <2>1, <2>2, PipelineAssumption
       DEF AnnounceTotal, IInv, DataOK, ProgressMessages
  <2>4. /\ Len(progressLog) + 1 \in DOMAIN progressLog'
        /\ progressLog'[Len(progressLog) + 1] = m
    BY <2>3
  <2>5. Announced(u)'
    BY <2>3, <2>4 DEF Announced
  <2>6. /\ task'[UploadsTopic][w].off = k.off /\ task'[UploadsTopic][w].n = 0
        /\ task'[UploadsTopic][w].step = IF Sections[u] = 0 THEN "commit" ELSE "chunks"
    BY <1>1, <1>2, <1>6, <2>1, Continued DEF AnnounceTotal
  <2>7. uploadsLog'[k.off] = u
    BY <1>1, <2>1, <2>3 DEF Document
  <2>8. CASE Sections[u] = 0
    <3>1. Indexes(u) = {}
      BY <2>8 DEF Indexes
    <3> QED
      BY <2>5, <2>6, <2>7, <2>8, <3>1 DEF DocumentTask, DocumentDone, Announced
  <2>9. CASE Sections[u] # 0
    BY <2>5, <2>6, <2>7, <2>9 DEF DocumentTask, Announced
  <2> QED
    BY <2>8, <2>9
<1>7. CASE ProduceChunk(w)
  <2>1. PICK u \in Uploads : u = Document(w)
    BY <1>7, InHand DEF ProduceChunk, At
  <2>2. PICK m : m = [upload |-> u, index |-> k.n, total |-> Sections[u]]
    OBVIOUS
  <2>3. /\ k.step = "chunks" /\ u = uploadsLog[k.off] /\ uploadsLog' = uploadsLog
        /\ k.n \in Nat /\ k.n < Sections[u] /\ Sections[u] \in Nat
    BY <1>1, <1>3, <1>7, <2>1, TopicFacts, PipelineAssumption
       DEF ProduceChunk, At, CounterFits, Document, Tasks
  <2>4. /\ chunksLog \in Seq(ChunkMessages) /\ m \in ChunkMessages
        /\ chunksLog' = Append(chunksLog, m) /\ m.upload = u /\ m.index = k.n
    <3>1. m \in ChunkMessages /\ m.upload = u /\ m.index = k.n
      BY <2>2, <2>3 DEF ChunkMessages, Indexes
    <3>2. chunksLog' = Append(chunksLog, m)
      BY <1>1, <1>7, <2>1, <2>2 DEF ProduceChunk
    <3> QED
      BY <3>1, <3>2 DEF IInv, DataOK
  <2>5. /\ Len(chunksLog) + 1 \in DOMAIN chunksLog'
        /\ chunksLog'[Len(chunksLog) + 1] = m
    BY <2>4
  <2>6. Sent(u, k.n)'
    BY <2>4, <2>5 DEF Sent
  <2>7. Announced(u)' /\ \A x \in 0 .. k.n - 1 : Sent(u, x)'
    BY <1>2, <1>3, <2>3, EvidenceStays DEF DocumentTask
  <2>8. \A x \in 0 .. k.n : Sent(u, x)'
    BY <2>3, <2>6, <2>7
  <2>9. /\ task'[UploadsTopic][w].off = k.off /\ task'[UploadsTopic][w].n = k.n + 1
        /\ task'[UploadsTopic][w].step = IF k.n + 1 = Sections[u] THEN "commit" ELSE "chunks"
    BY <1>1, <1>2, <1>7, <2>1, Continued DEF ProduceChunk
  <2>10. CASE k.n + 1 = Sections[u]
    <3>1. Indexes(u) = 0 .. k.n
      BY <2>3, <2>10 DEF Indexes
    <3>2. DocumentDone(k.off)'
      BY <2>3, <2>7, <2>8, <3>1 DEF DocumentDone, Announced, Sent, Indexes
    <3> QED
      BY <2>9, <2>10, <3>2 DEF DocumentTask, DocumentDone, Announced, Sent
  <2>11. CASE k.n + 1 # Sections[u]
    <3>1. k.n + 1 - 1 = k.n
      BY <2>3
    <3> QED
      BY <2>3, <2>7, <2>8, <2>9, <2>11, <3>1 DEF DocumentTask, Announced, Sent
  <2> QED
    BY <2>10, <2>11
<1> QED
  BY <1>1, <1>2, <1>4, <1>5, <1>6, <1>7, TaskStep, TopicFacts DEF HandlerStep

(* The RAG service.  When it counts, every earlier record was committed,   *)
(* so its section is stored, and so is the one in hand: if these are all   *)
(* the document has, the count is the full one.                            *)
LEMMA CountIsFull ==
  ASSUME IInv, DeliveryOK, NEW w \in Workers,
         task[ChunksTopic][w].step = "count", NEW u \in Uploads, u = Chunk(w).upload,
         Covered(u, task[ChunksTopic][w].off)
  PROVE  Cardinality(stored[u]) = Sections[u]
<1>1. PICK k : k = task[ChunksTopic][w]
  OBVIOUS
<1>2. /\ k.off \in Nat /\ committed[ChunksTopic] \in Nat
      /\ k.off <= committed[ChunksTopic] + 1
      /\ k.off \in 1 .. Len(chunksLog)
  BY <1>1, TopicFacts DEF DeliveryOK, OffsetsFollow, IInv, ConsumersOK, TaskFits, Tasks
<1>3. ASSUME NEW j \in 1 .. k.off
      PROVE  chunksLog[j].index \in stored[chunksLog[j].upload]
  <2>1. CASE j = k.off
    BY <1>1, <2>1 DEF DeliveryOK, TasksLeave, SectionTask, SectionDone
  <2>2. CASE j # k.off
    <3>1. j \in 1 .. committed[ChunksTopic]
      BY <1>2, <2>2
    <3> QED
      BY <3>1 DEF DeliveryOK, NothingDropped
  <2> QED
    BY <2>1, <2>2
<1>4. Indexes(u) \subseteq stored[u]
  BY <1>1, <1>3 DEF Covered
<1>5. stored[u] = Indexes(u)
  BY <1>4 DEF IInv, StoredOK
<1> QED
  BY <1>5, IndexesCount

LEMMA SectionTaskSafe ==
  ASSUME IInv, AcceptedOK, DeliveryOK, [Next]_vars, NEW w \in Workers
  PROVE  SectionTask(task[ChunksTopic][w])'
<1>1. PICK k : k = task[ChunksTopic][w]
  OBVIOUS
<1>2. IInv' /\ Growth /\ ChunksTopic \in Topics
  BY TopicsGrow, TopicFacts
<1>3. SectionTask(k) /\ TaskFits(ChunksTopic, k) /\ k \in Tasks
  BY <1>1, <1>2 DEF DeliveryOK, TasksLeave, IInv, ConsumersOK
<1>4. CASE task'[ChunksTopic][w] = k
  <2>1. SectionTask(k)'
    BY <1>2, <1>3, TaskLeavesStay
  <2> QED
    BY <1>4, <2>1 DEF SectionTask
<1>5. CASE task'[ChunksTopic][w] = Idle \/ \E off : task'[ChunksTopic][w] = Begin(ChunksTopic, off)
  BY <1>5, BeginLeaves DEF SectionTask
<1>6. ASSUME k.step # "idle"
      PROVE  /\ Chunk(w) = chunksLog[k.off] /\ Chunk(w).upload \in Uploads
             /\ Chunk(w).index \in Indexes(Chunk(w).upload)
             /\ Chunk(w).total = Sections[Chunk(w).upload]
             /\ k.off \in 1 .. Len(chunksLog) /\ k.off \in 0 .. Len(chunksLog)
  <2>1. k.off \in 1 .. Len(chunksLog) /\ Len(chunksLog) \in Nat
    BY <1>3, <1>6, TopicFacts DEF TaskFits, IInv, DataOK
  <2> QED
    BY <1>1, <1>6, <2>1, InHand DEF Chunk
<1>7. CASE UpsertUpload(w)
  <2>1. PICK u \in Uploads : u = Chunk(w).upload
    BY <1>1, <1>6, <1>7 DEF UpsertUpload, At
  <2>2. /\ Chunk(w).index \in 0 .. Chunk(w).total - 1
        /\ chunksLog' = chunksLog /\ chunksLog[k.off].upload = u
    BY <1>1, <1>6, <1>7, <2>1 DEF UpsertUpload, At, Indexes, logs
  <2>3. u \in ragUploads' /\ Continue(ChunksTopic, w, "store", 0)
    BY <1>7, <2>1, <2>2 DEF UpsertUpload, Upsert
  <2>4. task'[ChunksTopic][w].off = k.off /\ task'[ChunksTopic][w].step = "store"
    BY <1>1, <1>2, <2>3, Continued
  <2> QED
    BY <2>2, <2>3, <2>4 DEF SectionTask
<1>8. CASE StoreChunk(w)
  <2>1. PICK u \in Uploads : u = Chunk(w).upload
    BY <1>1, <1>6, <1>8 DEF StoreChunk, At
  <2>2. /\ k.step = "store" /\ chunksLog' = chunksLog /\ ragUploads' = ragUploads
        /\ chunksLog[k.off].upload = u /\ u \in ragUploads
    BY <1>1, <1>3, <1>6, <1>8, <2>1 DEF StoreChunk, At, logs, SectionTask
  <2>3. chunksLog[k.off].index \in stored'[u]
    BY <1>1, <1>6, <1>8, <2>1, <2>2 DEF StoreChunk, CreateChunk, IInv, DataOK
  <2>4. task'[ChunksTopic][w].off = k.off /\ task'[ChunksTopic][w].step = "count"
    BY <1>1, <1>2, <1>8, Continued DEF StoreChunk
  <2> QED
    BY <2>2, <2>3, <2>4 DEF SectionTask, SectionDone
<1>9. CASE CountChunks(w)
  <2>1. PICK u \in Uploads : u = Chunk(w).upload
    BY <1>1, <1>6, <1>9 DEF CountChunks, At
  <2>2. /\ k.step = "count" /\ chunksLog' = chunksLog /\ chunksLog[k.off].upload = u
        /\ k.off \in 1 .. Len(chunksLog) /\ k.off \in 0 .. Len(chunksLog)
    BY <1>1, <1>6, <1>9, <2>1 DEF CountChunks, At, logs
  <2>3. SectionDone(k.off)'
    BY <1>2, <1>3, <2>2, WorkStays DEF SectionTask
  <2>4. /\ task'[ChunksTopic][w].off = k.off /\ task'[ChunksTopic][w].step = "report"
        /\ task'[ChunksTopic][w].n = Cardinality(stored[u])
    BY <1>1, <1>2, <1>9, <2>1, Continued DEF CountChunks, CountByUploadID
  <2>5. Covered(u, k.off)' => Cardinality(stored[u]) = Sections[u]
    BY <1>1, <1>2, <2>1, <2>2, EvidenceStays, CountIsFull
  <2>6. chunksLog'[k.off].upload = u
    BY <2>2
  <2> QED
    BY <2>3, <2>4, <2>5, <2>6, SMTT(30) DEF SectionTask, SectionDone, Covered
<1>10. CASE ReportProgress(w)
  <2>1. PICK u \in Uploads : u = Chunk(w).upload
    BY <1>1, <1>6, <1>10 DEF ReportProgress, At
  <2>2. /\ k.step = "report" /\ chunksLog' = chunksLog /\ chunksLog[k.off].upload = u
        /\ k.off \in 1 .. Len(chunksLog) /\ k.off \in 0 .. Len(chunksLog)
    BY <1>1, <1>6, <1>10, <2>1 DEF ReportProgress, At
  <2>3. SectionDone(k.off)'
    BY <1>2, <1>3, <2>2, WorkStays DEF SectionTask
  <2>4. task'[ChunksTopic][w].off = k.off /\ task'[ChunksTopic][w].step = "commit"
    BY <1>1, <1>2, <1>10, Continued DEF ReportProgress
  <2>5. Covered(u, k.off)' => FullCount(u)'
    <3>1. PICK m : m = [upload |-> u, total |-> Sections[u], processed |-> k.n]
      OBVIOUS
    <3>2. progressLog' = Append(progressLog, m) /\ m.upload = u /\ m.processed = k.n
      BY <1>1, <1>6, <1>10, <2>1, <2>2, <3>1 DEF ReportProgress
    <3>3. Len(progressLog) + 1 \in DOMAIN progressLog'
          /\ progressLog'[Len(progressLog) + 1] = m
      BY <3>2 DEF IInv, DataOK
    <3>4. Covered(u, k.off)' => k.n = Sections[u]
      BY <1>2, <1>3, <2>2, EvidenceStays DEF SectionTask
    <3> QED
      BY <3>2, <3>3, <3>4 DEF FullCount
  <2> QED
    BY <2>2, <2>3, <2>4, <2>5 DEF SectionTask, SectionDone, Covered, FullCount
<1> QED
  BY <1>1, <1>2, <1>4, <1>5, <1>7, <1>8, <1>9, <1>10, TaskStep, TopicFacts DEF HandlerStep

-----------------------------------------------------------------------------
(* The group's offset passes a record only at the end of its task.         *)
LEMMA CommittedWork ==
  ASSUME IInv, AcceptedOK, DeliveryOK, [Next]_vars
  PROVE  \A t \in Topics :
           \/ committed'[t] = committed[t]
           \/ /\ committed'[t] = committed[t] + 1
              /\ \E w \in Workers : /\ task[t][w].step = "commit"
                                    /\ task[t][w].off = committed'[t]
<1>1. committed \in [Topics -> Nat]
  BY DEF IInv, ConsumersOK
<1>2. ASSUME NEW s \in Topics, NEW w \in Workers, Commit(s, w), NEW t \in Topics
      PROVE  \/ committed'[t] = committed[t]
             \/ /\ committed'[t] = committed[t] + 1
                /\ \E v \in Workers : /\ task[t][v].step = "commit"
                                      /\ task[t][v].off = committed'[t]
  BY <1>1, <1>2, CommitAdvances DEF DeliveryOK
<1> QED
  BY <1>2, GroupStep

LEMMA NothingDroppedSafe ==
  ASSUME IInv, AcceptedOK, DeliveryOK, [Next]_vars
  PROVE  NothingDropped'
<1>1. IInv' /\ Growth
  BY TopicsGrow
<1>2. \A t \in Topics : committed[t] \in Nat /\ committed'[t] \in Nat
  BY <1>1 DEF IInv, ConsumersOK
<1>3. /\ committed[S3Events] <= Len(s3Log) /\ committed[UploadsTopic] <= Len(uploadsLog)
      /\ committed[ChunksTopic] <= Len(chunksLog)
      /\ Len(s3Log) \in Nat /\ Len(uploadsLog) \in Nat /\ Len(chunksLog) \in Nat
  BY TopicFacts DEF IInv, ConsumersOK, DataOK
<1>4. ASSUME NEW i \in 1 .. committed'[S3Events]
      PROVE  NotificationDone(i)'
  <2>1. NotificationDone(i) /\ i \in 1 .. Len(s3Log)
    <3>1. CASE i <= committed[S3Events]
      BY <1>2, <1>3, <3>1, TopicFacts DEF DeliveryOK, NothingDropped, NotificationDone, PartDone
    <3>2. CASE ~(i <= committed[S3Events])
      <4>1. PICK w \in Workers : task[S3Events][w].step = "commit" /\ task[S3Events][w].off = i
        BY <1>2, <3>2, CommittedWork, TopicFacts
      <4> QED
        BY <4>1, TopicFacts
           DEF DeliveryOK, TasksLeave, NotificationTask, IInv, ConsumersOK, TaskFits
    <3> QED
      BY <3>1, <3>2
  <2> QED
    BY <1>1, <2>1, WorkStays
<1>5. ASSUME NEW i \in 1 .. committed'[UploadsTopic]
      PROVE  DocumentDone(i)'
  <2>1. DocumentDone(i) /\ i \in 1 .. Len(uploadsLog)
    <3>1. CASE i <= committed[UploadsTopic]
      <4>1. i \in 1 .. committed[UploadsTopic] /\ i \in 1 .. Len(uploadsLog)
        BY <1>2, <1>3, <3>1, TopicFacts
      <4> QED
        BY <4>1 DEF DeliveryOK, NothingDropped, DocumentDone, Announced, Sent
    <3>2. CASE ~(i <= committed[UploadsTopic])
      <4>1. PICK w \in Workers :
              task[UploadsTopic][w].step = "commit" /\ task[UploadsTopic][w].off = i
        BY <1>2, <3>2, CommittedWork, TopicFacts
      <4> QED
        BY <4>1, TopicFacts
           DEF DeliveryOK, TasksLeave, DocumentTask, IInv, ConsumersOK, TaskFits
    <3> QED
      BY <3>1, <3>2
  <2> QED
    BY <1>1, <2>1, WorkStays
<1>6. ASSUME NEW i \in 1 .. committed'[ChunksTopic]
      PROVE  SectionDone(i)'
  <2>1. SectionDone(i) /\ i \in 1 .. Len(chunksLog)
    <3>1. CASE i <= committed[ChunksTopic]
      BY <1>2, <1>3, <3>1, TopicFacts DEF DeliveryOK, NothingDropped, SectionDone
    <3>2. CASE ~(i <= committed[ChunksTopic])
      <4>1. PICK w \in Workers :
              task[ChunksTopic][w].step = "commit" /\ task[ChunksTopic][w].off = i
        BY <1>2, <3>2, CommittedWork, TopicFacts
      <4> QED
        BY <4>1, TopicFacts
           DEF DeliveryOK, TasksLeave, SectionTask, IInv, ConsumersOK, TaskFits
    <3> QED
      BY <3>1, <3>2
  <2> QED
    BY <1>1, <2>1, WorkStays
<1> QED
  BY <1>4, <1>5, <1>6
     DEF NothingDropped, NotificationDone, PartDone, DocumentDone, Announced, Sent, SectionDone

(* CompletionAnnounced in the words of this module.                        *)
LEMMA CompletionInWords ==
  CompletionAnnounced <=>
    \A u \in Uploads : Sections[u] > 0 /\ Covered(u, committed[ChunksTopic]) => FullCount(u)
  BY DEF CompletionAnnounced, Covered, FullCount

LEMMA CompletionAnnouncedSafe ==
  ASSUME IInv, AcceptedOK, DeliveryOK, [Next]_vars
  PROVE  CompletionAnnounced'
<1> SUFFICES ASSUME NEW u \in Uploads, Sections[u] > 0,
                    NEW c, c = committed'[ChunksTopic], Covered(u, c)'
             PROVE  FullCount(u)'
  BY DEF CompletionAnnounced, Covered, FullCount
<1>1. IInv' /\ Growth
  BY TopicsGrow
<1>2. /\ committed[ChunksTopic] \in Nat /\ committed[ChunksTopic] <= Len(chunksLog)
      /\ Len(chunksLog) \in Nat
  BY TopicFacts DEF IInv, ConsumersOK, DataOK
<1>3. SUFFICES FullCount(u)
  BY <1>1, EvidenceStays
<1>4. Covered(u, committed[ChunksTopic]) => FullCount(u)
  BY CompletionInWords DEF DeliveryOK
<1>5. CASE c = committed[ChunksTopic]
  BY <1>1, <1>2, <1>4, <1>5, EvidenceStays
<1>6. CASE c # committed[ChunksTopic]
  <2>1. PICK w \in Workers : task[ChunksTopic][w].step = "commit" /\ task[ChunksTopic][w].off = c
    BY <1>6, CommittedWork, TopicFacts
  <2>2. /\ c = committed[ChunksTopic] + 1 /\ c \in 1 .. Len(chunksLog)
        /\ c \in 0 .. Len(chunksLog)
    BY <1>2, <1>6, <2>1, CommittedWork, TopicFacts DEF IInv, ConsumersOK, TaskFits
  <2>3. Covered(u, c)
    BY <1>1, <2>2, EvidenceStays
  <2>4. CASE chunksLog[c].upload = u
    BY <2>1, <2>3, <2>4 DEF DeliveryOK, TasksLeave, SectionTask
  <2>5. CASE chunksLog[c].upload # u
    <3>1. Covered(u, committed[ChunksTopic])
      BY <1>2, <2>2, <2>3, <2>5 DEF Covered
    <3> QED
      BY <1>4, <3>1
  <2> QED
    BY <2>4, <2>5
<1> QED
  BY <1>5, <1>6

-----------------------------------------------------------------------------
LEMMA DeliveryInit == Init => DeliveryOK
<1> SUFFICES ASSUME Init PROVE DeliveryOK
  OBVIOUS
<1>1. /\ \A t \in Topics, w \in Workers : task[t][w].step = "idle"
      /\ \A t \in Topics : committed[t] = 0
      /\ Len(s3Log) = 0 /\ signed = {}
  BY DEF Init, Idle
<1>2. TasksLeave
  BY <1>1, TopicFacts DEF TasksLeave, NotificationTask, DocumentTask, SectionTask
<1>3. OffsetsFollow /\ NothingDropped
  BY <1>1, TopicFacts DEF OffsetsFollow, NothingDropped
<1>4. NotifiedRegistered
  BY <1>1 DEF NotifiedRegistered, Init
<1>5. CompletionAnnounced
  <2>1. ASSUME NEW u \in Uploads, Sections[u] > 0
        PROVE  ~Covered(u, committed[ChunksTopic])
    <3>1. 0 \in Indexes(u) /\ 1 .. committed[ChunksTopic] = {}
      BY <1>1, <2>1, TopicFacts, PipelineAssumption DEF Indexes
    <3> QED
      BY <3>1 DEF Covered
  <2> QED
    BY <2>1, CompletionInWords
<1> QED
  BY <1>2, <1>3, <1>4, <1>5 DEF DeliveryOK

LEMMA DeliverySafe ==
  ASSUME IInv, AcceptedOK, DeliveryOK, [Next]_vars
  PROVE  DeliveryOK'
<1>1. TasksLeave'
  BY NotificationTaskSafe, DocumentTaskSafe, SectionTaskSafe DEF TasksLeave
<1>2. OffsetsFollow' /\ NotifiedRegistered'
  BY OffsetsFollowSafe, NotifiedRegisteredSafe DEF DeliveryOK
<1>3. NothingDropped' /\ CompletionAnnounced'
  BY NothingDroppedSafe, CompletionAnnouncedSafe
<1> QED
  BY <1>1, <1>2, <1>3 DEF DeliveryOK

LEMMA Delivery == Spec => [](IInv /\ AcceptedOK /\ DeliveryOK)
<1>1. IInv /\ AcceptedOK /\ [Next]_vars => AcceptedOK'
  BY AcceptedSafe
<1>2. IInv /\ AcceptedOK /\ DeliveryOK /\ [Next]_vars => DeliveryOK'
  BY DeliverySafe
<1> QED
  BY <1>1, <1>2, AcceptedInit, DeliveryInit, Invariance, PTL DEF Spec

(* At-least-once, end to end: whatever fails, crashes or loses its         *)
(* partition, a committed record has left its work behind (the handlers of *)
(* the three consumers, and ProcessRecord's order of work and commit).     *)
THEOREM WorkIsLeftBehind == Spec => []NothingDropped
<1>1. DeliveryOK => NothingDropped
  BY DEF DeliveryOK
<1> QED
  BY <1>1, Delivery, PTL

(* Once all sections of a document are committed, its full count is on     *)
(* topic upload-progress, though every RAG worker reads the count and      *)
(* publishes it in two steps (tracker.TrackAndProcessChunk).               *)
THEOREM FullCountIsAnnounced == Spec => []CompletionAnnounced
<1>1. DeliveryOK => CompletionAnnounced
  BY DEF DeliveryOK
<1> QED
  BY <1>1, Delivery, PTL
===============================================================================
