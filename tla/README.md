# Raggy: specification and verification

Raggy ingests Markdown project reports, cuts them into sections, embeds the
sections and answers questions about them with checked citations. It is four Go
services around Kafka, PostgreSQL and object storage, and a React frontend. This
directory holds TLA+ models of it, the TLC instances that check them, and
theorems that TLAPS checks for every value of the constants. All source paths
below are relative to the repository.

- [1. The system](#1-the-system)
- [2. Modules and the code they model](#2-modules-and-the-code-they-model)
- [3. Runs: what is checked, within which bounds](#3-runs)
- [4. Fairness](#4-fairness)
- [5. Disagreements between code and documentation](#5-disagreements)
- [6. What is proved, and how](#6-what-is-proved)
- [7. Limits, and what is not modelled](#7-limits)
- [8. Plan](#8-plan)

To check everything by hand, inside this directory: `tlasany M.tla`,
`tlc -config X.cfg M`, `tlapm M_proofs.tla`. `PROJECT.json` lists the runs, the
source lines each definition stands for, the hazards, and for every property a
plausible mistake in the code that the property catches.

## 1. The system

### 1.1 Components

| Component | Source | State it keeps | Operations |
|---|---|---|---|
| Record loop | `shared/kafkawork`, the three `internal/consumer/consumer.go` Start loops | the batch polled, the record in hand | poll, process, reject, retry, commit, retry the commit, allow rebalance |
| Dashboard uploads | `services/dashboard/internal/upload`, `internal/services` | table `uploads`: status, chunk total, chunks processed | create + sign URL, list, mark uploaded, merge progress, delete |
| Dashboard consumer | `services/dashboard/internal/consumer` | offsets of `s3-events` and `upload-progress` | mark the row and publish `upload.completed` per notified object; merge snapshots |
| Ingestion worker | `services/ingestion-worker` | offset of `uploads` | download, parse, announce the total, publish sections |
| RAG ingestion | `services/rag/internal/consumer`, `internal/chunk`, `internal/upload` | tables of uploads and chunks, offset of `chunks` | upsert the upload, embed and store a section, count, publish the count |
| Retrieval and answers | `services/rag/internal/rag`, `frontend/src/components/answer-panel.tsx` | none between questions | retrieve, label, generate, validate, render citations |
| Sessions | `services/simple-auth-service/internal/session`, `internal/web` | table `sessions`: selector and hash of the validator | sign in, refresh (rotate), sign out |
| API client | `frontend/src/lib/api.ts` | `refreshRequest` of each tab; the browser's cookie jar | call, refresh once for all waiting calls, resend, SessionExpired |
| Live updates | `services/dashboard/internal/progress`, `internal/web/events.go`, `frontend/src/lib/use-upload-events.ts` | the hub's subscribers, one-element channels, timers | NOTIFY, LISTEN and reconnect, broadcast, stream, invalidate, poll |
| Workspace | `frontend/src/components/workspace.tsx`, `upload-dialog.tsx` | query cache, page, panel and dialog state, calls under way | sign in and out, turn pages, ask, cancel, select, upload, retry |
| Storage, model providers | external | objects; none | PUT by signed URL, notification; embed, generate |
| Accounts | `services/simple-auth-service/internal/services`, `internal/password`, `internal/user`, `shared/auth` | table `users`: name and password hash; access tokens with holders | register, verify a password, sign, verify a token |
| Service lifecycle | `cmd/*/main.go` and `internal/web/server.go` of the four services | HTTP server and its requests, consumer goroutine, connection pool | serve, be cancelled, shut down, close the consumer, close the pool, exit |
| Demo mode, telemetry, configuration | see 7 | | not modelled |

### 1.2 How they interact

```
 browser --POST /uploads--> dashboard --signed URL--> browser --PUT--> storage
 storage --s3-events--> dashboard consumer --uploads--> ingestion worker
 ingestion worker --chunks--> RAG service --upload-progress--> dashboard consumer
 ingestion worker --upload-progress (total)--------------------> dashboard consumer
 dashboard: UPDATE + NOTIFY --> hub of every replica --SSE--> browser --GET /uploads-->
 browser --POST /search--> RAG service: chunks table, model provider --> browser
 browser <--cookies--> auth service
```

Each topic has one partition (`docker/scripts/kafka-init.sh`); each service is
one consumer group per topic, of any number of instances. There are three
databases, one per stateful service; nothing is transactional across a database
and a topic. The RAG service keeps its own copy of an upload's identity.

### 1.3 What is hard

- *Interleaving.* Several instances of a service may hold the same record: a
  member whose session timed out does not know it and goes on writing. Counts of
  stored sections are read, then published; snapshots of several producers are
  merged in the order they come. Two tabs share a cookie jar, not a refresh.
- *Failure between steps.* Every handler makes several calls and may be cut off
  after each: the row is marked and the record not published, some sections are
  published and the rest not, the session is rotated and the answer lost.
- *Order.* Storage notifies again after the document is under way; a sign-out,
  a refresh and a sign-in set cookies in the order their answers arrive; a
  notification meets a fetch that has already read.
- *Liveness.* Failing work is retried without bound: what is retried must be
  able to succeed, or everything behind it waits.
- *Staleness.* Calls of the frontend outlive the components that made them; access
  tokens outlive their sessions; stored hashes outlive the settings they were made with.
- *Shutdown.* A process ends while requests wait for providers, event streams stay
  open and the consumer is anywhere in a batch, and `main` waits for none of its goroutines.

### 1.4 What makes each component correct

Record loop: no commit passes unfinished work; committed offsets never rewind;
commit retries do not repeat the handler. Pipeline: a committed record has left
its work behind; the row never says more than is searchable, never goes back,
and reaches `processed`. Sessions: one usable token per session, a sign-out is
final, nobody is locked out. Live updates: no notification is lost between the
database and the list; polling shows the rest. Answers: a text is accepted if and only if
it is grounded in the retrieved sections; sources hold the lines of what they quote; missing evidence
is not a disguised failure. Workspace: nothing on the screen belongs to another question
or session, and what is stored under a row is the row's file. Accounts: registration tells the
truth whatever interleaves, the registered password and no other signs in, access
ends with the session. Service lifecycle: what a request or a handler needs is
there until it ends, and the process ends.

`PROJECT.json` lists forty hazards with the line where each bites and the
properties aimed at it.

## 2. Modules and the code they model

| Module | Models | Composition |
|---|---|---|
| `RecordWork` | one partition, the Start loop and `kafkawork.ProcessRecord` | the loop every handler of `Pipeline` runs in |
| `UploadRecords` | the `uploads` table and its statements | extended by `Pipeline` |
| `UploadLifecycle` | abstract: what the dashboard promises of a document | implemented by `Pipeline` |
| `Pipeline` | the four topics, three services, two databases, storage | composes everything between PUT and `processed` |
| `Session` | sessions table, handlers, cookie jar, tabs, calls | |
| `LiveUpdates` | NOTIFY, hub, event streams, browser, polling | abstracts the table to a version |
| `Answers` | parser, retrieval, prompt, answer checks, citations | |
| `Workspace` | one tab's components and its calls | abstracts a call's session handling, which is `Session` |
| `Accounts` | registration, password hashes, sign-in, access tokens and their verifiers | abstracts rotation and the browser, which are `Session` |
| `Service` | the life of each of the four processes | its consumer implements `RecordWork` |
| `*_proofs` | theorems about the module of that name | |
| `MC*` | TLC instances | |

**RecordWork.** `pc[m]` is where a member's goroutine stands: `poll` is
`PollRecords`, `process` the handler's call, `processWait` and `commitWait` the
one-second timers of `record.go`, `commit` the call of `CommitRecords`. `cur` and
`last` are the record in hand and the end of the batch. A handler succeeds, is
rejected with `InvalidInput`, or fails. `CommitSucceeds` moves the offset only
when the member still owns the partition (the broker fences the others);
`CommitFails` covers a commit that was applied and whose answer was lost.
`settled` and `handled` are history.

**UploadRecords, Pipeline.** `row[u]` is status, total and count. Each SQL
statement is one action of `UploadRecords`: `UpdateStatus` with its `WHERE`
clause, `ApplyProgress` as the locked read, the verdict (`ApplyVerdict`: not
found, conflicting total, or merge) and `GREATEST` (`Merged`). In `Pipeline` a
topic is a log and a committed offset; `task[t][w]` is the handler instance w of
topic t's service is running, with the step it has reached: `update` and
`produce` for each object of a notification, `announce` and `chunks` in the
worker, `upsert`, `store`, `count`, `report` in the RAG service, `merge` for a
snapshot. Every database or Kafka call is a step. `HandlerFails` is a failed call
(the handler starts over), `Crash` loses the task, `LosePartitions` gives a
service's partitions to another instance while the first one carries on. A
produce that was applied and reported as failed leaves the same state as a fault
in the next step, so it has no action of its own. `failed` in a task is the
error that `handleS3Event` joins from the parts of a notification.

**Session.** A row is a number that grows with every rotation (the selector and
validator are both replaced); a token is a session and a number. `refresh[t]` and
`signout[t]` are the requests of a tab, with the statement the server has
reached: `sent`, `read` (the row was selected and compared), `granted` or
`revoked` (written). `call[c]` is one API call of a tab: `waiting` is awaiting
`refreshRequest`. `screen[t]` is the session whose workspace the tab shows. When a tab leaves
it (`Leave`), its list queries are cancelled and its questions aborted, but an upload that is
being staged goes on: its call is kept and marked `left`, may be refreshed and
sent again with the next session's cookies, and its `SessionExpired` closes whatever workspace
the tab shows by then. Which calls are stagings is decided where it matters, in `Leave`.

**LiveUpdates.** `version` counts changes of the table, `announced` the last one
notified (only `ApplyProgress` notifies; `Change` is every other write). A
listener is `down`, `reconcile` (LISTEN done, the broadcast that makes up for
missed notices not yet) or `listening`; `signal` is the one-element channel of a
stream; `handler` the server's end, `stream` the browser's; `timer` the 250 ms
delay of the hook; `fetch` the list query.

**Answers.** A text is a sequence of tokens (brackets, labels, blanks, line
breaks, words), so that the citation expression, the leftover-bracket check and the
map of cited labels can be modelled as what they do. A line of the document is one word, and the
text of a section is put together from lines as the parser does it: `ExtractText` joins
the lines of a block with blanks, `ItemText` runs the children of a list item together and
takes nothing from a nested list or a quotation in it, `ExtractListText` puts a blank between items. `ParseBlock` is one turn of the loop in `Parse`, and
`Parsed` says where the loop stands after each block; `Resolving` is the loop that collects the sources;
`Nearest` yields every order of the stored sections; `Resolve` and
`Reject` are `resolveAnswer`; `Show` and `PartAt` are `AnswerPanel`'s split into buttons.

**Workspace.** `cache[p]` is the list query of page p with data, error and the
fetch under way; `kept` is `keepPreviousData`. `ask` and `dialog` are component
states that exist only while `Screen` is the workspace: leaving it aborts
questions (`Aborted`) and detaches transfers (`Detached`) as unmounting does.
`rows` holds each row created with the file it was created for and the object
stored under it.

**Accounts.** `users` is a partial function from names to what `Hash` stores:
the salt, the parameters and the derived key; a salt is the number of the call
that drew it. `reg[r]` is a call of `Register` between its two queries: `checked`
after `Exists`, then `created`, `conflict` or `failed`, the last with or without
the row. `Verify` reads the parameters from the row and the pepper from the
settings in force, which `Restart` replaces. A session is `live` while its row is
there, `held` while somebody has its current refresh token, and `vouched` is when
`Signin` or `Refresh` was satisfied by the database and has not signed yet: the
window in which a sign-out can be overtaken. `Sign` truncates to the second,
`Accepts` is the verifier on a clock that is up to `Skew` ahead or behind.

**Service.** `main` is where `main` waits: `running` for the signal, `draining` in
`Shutdown`, then in the deferred calls `closingConsumer` and `closingPool`.
`cancelled` is `runCtx`; a failed listener calls `stop`, so both ends begin alike.
A request is `open` (it computes, or waits for a provider or its client and watches no
context), has a connection in a `query`, or is an event `stream` in its select; `failed`
and `cut` are requests that lost the pool or the process. `ContextDone` is what the dashboard's
`BaseContext` does at the signal: streams end (`StreamStops`), and a request that has a
query under way, or begins one, is `cancelled`: it is answered with an error. The five seconds
(`ShutdownTimeout`) are the same in every service. `pc` and `returned` are the consumer's goroutine, with one action for
each place where `record.go` tests the context; the worker has a consumer and no
server, the auth service a server and no consumer. A start that fails calls
`os.Exit` and is `Kill`.

## 3. Runs

Deadlock checking is off in every run: all of these systems may come to rest once
inputs and faults are used up.

| Run | Instance | Checks |
|---|---|---|
| `record_work` | 2 members, 3 records (one invalid), batches of 2, 2 interruptions | `TypeOK`, `NoCommitPastFailedWork`, `RedeliveryNeedsInterruption`, `CommitNeverRewinds`, `EveryRecordCommitted` |
| `pipeline_one` | 1 document of 2 sections, PUT up to twice, 2 instances of each service, 1 fault | `ProgressNeverOverstates`, `ProcessedMeansSearchable`, `CompletionAnnounced`, `RowNeverRegresses`, `ImplementsLifecycle` |
| `pipeline_batch` | 2 documents (1 and 0 sections) in one notification, 1 instance, 1 fault, 1 deletion | `NothingDropped`, `StatusMatchesCounts`, `EventuallyProcessed` |
| `pipeline_malformed` | 1 document that `Parse` refuses, no fault | `MalformedIsRejected` (violated) |
| `session_tabs` | 2 tabs, 1 call each (which may outlive its session), 3 sessions, 1 expiry, 1 fault | `TypeOK`, `OneTokenPerSession`, `SignOutIsFinal`, `NeverLockedOut`, `EndedOrContested` |
| `session_signout` | 1 tab, 1 session, 1 fault | `SignoutClearsCookies` (violated) |
| `live_updates` | 1 replica, 1 browser, 2 changes, 2 faults | `TypeOK`, `InSyncUnlessMissed`, `EventuallyShown` |
| `answers` | documents of 0, 2 and 3 sections (with a paragraph of two lines, an item of two paragraphs, an empty item and a nested list), any part stored, 2 labels, texts of up to 3 pieces | `TypeOK`, `AcceptsExactlyGroundedAnswers`, `InsufficientIsHonest`, `SourcesQuoteTheDocument`, `CitationsOpenTheirSource` |
| `answers_blank` | a list of an empty item and an item that holds only a list | `EverySectionRetrievable` (violated) |
| `workspace` | 2 sessions, 2 questions, 2 files, 2 selections, 2 transfers, 2 pages, 1 fault | `TypeOK`, `AnswerIsCurrent`, `BusyIsHonest`, `RowsKeepTheirFile`, `DoneMeansStored`, `SettledListIsCurrent` |
| `accounts` | 1 name and 1 invalid one, 2 registrations, 3 passwords, 4 configurations, 1 session, 1 restart, 1 fault, 8 ticks with 2 to a second | `RegistrationsAreHonest`, `RegisteredPasswordWorks`, `AccessEndsAfterSignout`, `FreshTokensWork` |
| `service` | each of the 4 services, 2 requests, 2 records (one invalid) in batches of up to 2, 2 ends of the process, 1 lost session | `HandlersHaveThePool`, `RequestsSurviveShutdown`, `ShutdownCompletes`, `ImplementsRecordLoop` |

Why these bounds are enough to mean something:

- *record_work.* Three records with batches of two give a batch that is cut off
  in the middle and a batch after another; two interruptions let a member lose
  the partition and its successor lose it again, or one stop while the other is
  stale. The second record is invalid, so a rejection stands between two successes.
- *pipeline_one.* Two sections are the least for which a count can be
  overtaken. A second PUT repeats the notification at every later stage. Two instances and one lost
  partition put two handlers of every kind on the same record. Nothing is deleted here: that a
  deletion lowers no row is in the theorem only (`RowsMoveForward`). The instances are
  interchangeable (symmetry); no liveness is checked here, where symmetry would be unsound.
- *pipeline_batch.* One notification that names two documents makes the loop over its parts matter: either
  part may fail, or find its row deleted, while the other succeeds. The document
  without sections is the boundary where no chunk record can complete it. With one instance of
  each service no partition is lost; what two instances do to each other is in `pipeline_one` and in the
  theorems.
- *session_tabs.* Two tabs are what the races are between; a second session lets a late
  answer of the first meet it, and a third lets one tab's sign-in replace the cookie of a session in which
  the other tab has a refreshed call to send again, and an upload of an earlier session be refused in a later one; the
  fault may hit a read, a write, or an answer.
  Tabs and calls are interchangeable. With two calls per tab the state space is
  out of a reasonable run; so that several calls of a tab share one refresh never happens in it. It
  is proved for any number of calls: `TypeOK` says that no call waits for a refresh that is over, and
  `EndedOrContested` that calls of one tab do not mislead each other.
- *live_updates.* Replicas share nothing but the database; a browser that
  reconnects finds the one listener in any state another replica's could be in.
  Two changes let the second be merged with the first at every place; two faults break
  and restore the listener and the stream, or break one of them twice.
- *answers.* Two labels against documents of three sections make the cut to
  the nearest ones matter (the code allows five). The seven pieces mix whole, broken, nested and
  multi-line citations, and the reference lists include an empty, a repeated and a swapped one,
  and name labels the prompt does not contain when few sections are stored. `Grounded`, the definition the checks are compared with, is an independent
  token-by-token reader.
- *workspace.* Two sessions, questions, selections and transfers are the
  least for something stale to meet something current; the fault may hit any call, or end the
  session. A second one triples the states and is left to the proofs, which cover any number.
  Two pages are what paging needs.
- *accounts.* Two registrations of one name are the race between `Exists` and the
  INSERT. Passwords and peppers are over two characters, because `Hash` appends the
  pepper to the password: `ab` without a pepper is the same text as `a` with the pepper
  `b`. One configuration differs in Argon2's parameters, one in pepper and keys, and one
  is beyond the limits `Verify` sets. A second of two ticks, a skew and a request
  time of one make every truncation and every late answer occur; eight ticks pass a token's
  lifetime of four twice.
- *service.* Two requests let one hold the shutdown up for the other, an event stream for a query or a query
  for a stream; two records in one
  batch give a record that is handled, one that is not and a batch cut off between
  them; after two ends of the process the third takes over what they left.

The type invariants of `Pipeline`, `Accounts` and `Service` are proved (section 6) and
not run.

`ImplementsLifecycle` is a refinement: `UploadLifecycle` knows no queue or
fault, only register, accept, index, report and remove, and `Pipeline`'s
`status`, `reported` and `searchable` are the row's status, the row's count and
the RAG table. Its instance states that a report never exceeds what is searchable
at that moment, and that `processed` is shown exactly when the count is complete.

`ImplementsRecordLoop` is the other one: `Service` has a context check before each
call of `record.go` where `RecordWork` has a loop that `Stop` may leave. `handling` and
`fallThrough` map to `process`, `committing` to `commit`, and a consumer that closes or
dies is `down`. What is proved and checked of `RecordWork` so holds of the consumers
of the real processes, including the record whose handler never ran because the
context was done and which falls through to the loop that commits.

## 4. Fairness

Safety runs use none. Where a property says that something happens:

- `RecordWork!Fairness`: goroutines that can run do, timers fire, a free
  partition is assigned (weak fairness); a handler or a commit that is attempted
  for ever succeeds (strong fairness), which is what *transient* means in
  `record.go`. A service that stopped is not started again: the compose files set no restart policy, so
  `EveryRecordCommitted` allows for the group going out of service for good. Out of service is a member that is down, but also one that
  runs on in the middle of a batch although it lost its session (until it polls again nothing is assigned to it, and its
  commits are refused): a group of such members is excused too.
- `Pipeline!Fairness`: every instance goes on handling, fetching and committing.
  Faults are bounded and a crashed instance or lost partition is made good, which
  is the work of whoever runs the containers. Clients owe nothing: a document that is never PUT never has to be processed.
- `LiveUpdates!Fairness`: the page polls, and a fetch that is sent again and again is
  answered (strong fairness, since a refresh may cancel and resend it). Nothing
  is assumed of the event stream: a browser may hold a dead one for open.
- `Service!Fairness`: `main` and the consumer's goroutine run when they can, a query ends, and
  the select of an event stream notices that its context is done (weak fairness). Nothing makes a request
  answer, a client read, a signal come or a process start again. That the five seconds pass is assumed
  only in the first half of `ShutdownCompletes` (a stopped process exits); the second half says that the
  shutdown does without them unless a request waits for its client or provider.

## 5. Disagreements

Three runs end in a counterexample to something the repository says.

- `pipeline_malformed`. A document whose front matter does not parse makes the
  worker return an error that is not `InvalidInput` (`services/ingestion-worker/internal/consumer/consumer.go:153`),
  so it is retried for ever and blocks the topic. `shared/kafkawork/record.go:18-19`: "Permanent
  validation errors are rejected explicitly"; `README.md:7` promises bounded retries.
- `session_signout`. `HandleSignout` does not return after a failure
  (`web/handlers.go:128`), so the cookies it then clears are headers after the
  status and never reach the browser; the comment at line 119 says that it
  "revokes the session and clears its cookies". If the DELETE was applied, every
  later sign-out fails likewise.
- `answers_blank`. A list of empty items becomes a blank section that is embedded
  and stored "for later retrieval" (`rag_service.go:62`), and `buildPrompt`
  refuses it (`answer.go:82`): every question that retrieves it fails.

## 6. What is proved

The proofs assume only the named assumptions of the modules (bounds are natural
numbers, every document has a number of sections, a notification names at least one
document, a null value is not a member, peppers and passwords are texts, a token's
lifetime is in whole seconds, labels are distinct and no brackets) and hold
for every number of members, documents, sections, instances, tabs, calls,
replicas, browsers, requests, registrations, sessions, questions, transfers, restarts and faults, and for
documents, generated texts and lists of references of every length. Every safety property
that a passing run checks is proved.

**RecordWork_proofs**: `TypeCorrect`, `CommitsOnlySettledWork`
(`NoCommitPastFailedWork`), `OffsetsOnlyAdvance` (`CommitNeverRewinds`).
`NoCommitPastFailedWork` is not inductive: what a member is about to commit must have been
settled (`CommitsSettled`), and nothing between the committed offset and that
record may be missing, which holds for the partition's owner only
(`OwnerFollowsCommit`): a stale member may be anywhere, but cannot commit.
`RedeliveryIsBounded` (`RedeliveryNeedsInterruption`) counts turns: the times a record was handled, the members
that lost the partition with it still in the handler (`Stale`), and one more while the present or next owner has
it before it (`Ahead`) never exceed one and the interruptions (`TurnsBounded`). An interruption adds a turn at
most, handling the record uses one, and a retried commit changes nothing.

**Pipeline_proofs**: `TypeCorrect`, `CountsAreCovered`
(`ProgressNeverOverstates`), `ReadyMeansSearchable` (`ProcessedMeansSearchable`),
`CountersAgree` (`StatusMatchesCounts`), `ChecksNeverFail` (`RowsWithinChecks`),
`RowsMoveForward` (`RowNeverRegresses`), `PipelineImplementsLifecycle`
(`ImplementsLifecycle`). The argument follows a count on its way. What an instance has read is
covered by the table (`CountersOK`), stored sections are never removed, so what it
publishes is covered (`SnapshotsOK`), and so is what is merged (`RowsOK`).
A complete count then is a complete set, since only the document's own sections
are ever stored (`StoredOK`, and a lemma on cardinalities). For the refinement,
`AcceptedOK` adds that no record beyond the first topic exists for a
document the dashboard has not accepted, so that every index and report step finds the status the
abstract action asks for; every other step is a stutter.
`WorkIsLeftBehind` (`NothingDropped`) and `FullCountIsAnnounced` (`CompletionAnnounced`) need to know what a
handler has done by each of its steps: `NotificationTask`, `DocumentTask` and `SectionTask` say what the log and the
tables hold by then (`TasksLeave`), and `OffsetsFollow` that no handler is ahead of its group and the owner's has
the first uncommitted record. So when the handler of a document's last section counts, all sections are
stored, what it read is the full count (`Covered`), and it has published it before its record
can be committed, whatever other instances read and published meanwhile.

**Session_proofs**: `TypeCorrect`, `RotationLeavesOneToken`
(`OneTokenPerSession`), `SignOutHolds` (`SignOutIsFinal`). The invariant orders the
copies of a token: an answer under way carries the row's current one and every
other copy of that session's token is older (`AnswersCurrent`), so the `WHERE` on the
selector lets one of several refreshes through (`AnswersDistinct`), and a deleted
row is never found again (`SignedOutGone`). `NobodyLockedOut` (`NeverLockedOut`) is inductive
beside it.
`EndsAreHonest` (`EndedOrContested`): what a call is told is followed
back to the cookie: a refresh carries the current token from the moment it copies the
cookie (`RefreshesCurrent`), two tabs with a refresh for one session have contested it
(`RefreshesApart`), and a refreshed call finds its cookies in the jar until it is sent again,
unless an answer for another session replaced them (`CallsCurrent`). That the workspace a call of its
own closes was of that session needs two facts more: a workspace shows the session of the cookies, and any
refresh its calls could join is one for it (`ScreensCurrent`), so whatever is answered to a call that its
workspace still waits for is an answer for that workspace's session (`CallsOwned`). Of an upload left over
from an earlier session the second is false, which is why the property names it.

**LiveUpdates_proofs**: `TypeCorrect`, `NotificationsReachTheList`
(`InSyncUnlessMissed`). `NothingLost` says where the last notification can be when the list is older than
announced: on the listener's connection, in the channel, with the
handler, on the wire, behind the timer, or in a fetch that reads late enough.
`FetchOK` keeps a fetch from replacing the list by an older one.

**Accounts_proofs**: `TypeCorrect`, `RegistrationIsHonest` (`RegistrationsAreHonest`),
`PasswordsKeepWorking` (`RegisteredPasswordWorks`), `AccessEnds`
(`AccessEndsAfterSignout`), `TokensAreGood` (`FreshTokensWork`). `RowsOK` ties each
row to the call whose salt it has, and says that it holds that call's password under
that call's settings; `CallsOK` says that a call under way sees the settings in force and
that an answered one was told the truth. A password opens the account only if both texts,
each with the pepper appended, are equal, and then the passwords are. `SessionsOK` bounds a token's
expiry by its issue, and its issue by the moment the database last vouched for the session, which
is before the sign-out.

**Service_proofs**: `TypeCorrect`, `PoolOutlivesHandlers` (`HandlersHaveThePool`),
`ShutdownIsGraceful` (`RequestsSurviveShutdown`), `ServiceRunsRecordLoop`
(`ImplementsRecordLoop`). `MainOK` says what each place in `main` has behind it, `ConsumerOK`
that the consumer has left its group before the pool is closed, `RequestsOK` that requests are left
over only where `Shutdown` gave up on them, `CancelledOK` that only the dashboard's queries end with the
context. For the refinement every step of the consumer is
a step of `RecordWork` or a stutter, and the end of the process is a `Stop` unless
`Close` came before it.

**Workspace_proofs**: `TypeCorrect`, `AnswersAreCurrent` (`AnswerIsCurrent`),
`NoStuckSpinner` (`BusyIsHonest`), `RowsAreKept` (`RowsKeepTheirFile`), `DoneIsStored`
(`DoneMeansStored`), `ListIsCurrent` (`SettledListIsCurrent`). The invariant has a part for each
component. `ListGood`: data and fetches of every cached query are of the tab's session.
`PanelGood`: only the last question can be open. `DialogGood`: the dialog waits for the one
transfer still attached to it (`WaitsFor`), what it has staged is the row of its selection
(`HasStaged`), and no two transfers are creating a row for one selection (`StagesOnce`), which is why a
transfer that outlives its dialog cannot get in the way of the next. What joins them is that nothing is
left of panel and dialog while another screen is shown.

**Answers_proofs**: `TypeInvariance`, `ChecksAreExact` (`AcceptsExactlyGroundedAnswers`),
`MissingEvidenceIsReal` (`InsufficientIsHonest`), `QuotesAreGenuine` (`SourcesQuoteTheDocument`),
`CitationsAreRight` (`CitationsOpenTheirSource`). The state invariant is short: the sections found are stored ones,
each once (`FoundOK`), and a result is one of two, with the reason for it (`IsInsufficient`, `IsAnswered`).
The work is in what the loops compute, by induction over their turns. `ParsedSoFar`: after n
blocks there is a section for each paragraph and list, under the last heading before it. That its text holds the lines of
the block (`ExtractHolds`) is shown along the way the parser puts it together, by naming the place at which each line
ends up: at the odd positions of a block's text (`ExtractTextLines`), behind the texts of the children before it in an item's
(`ItemTextLines`), behind the items before it in a list's (`ListHolds`); a text joined from parts is the course of its
appends, whose lengths grow (`JoinedInOrder`), so lines stay in order, and a blank lies behind every item but the last. `ResolvedSoFar`: the sources
are the cited ones, each once. `ReadSoFar`: as long as a text is in order, every bracket read is half of a
match of the regular expression but for one still open, and what the reader collected is what the matches hold; a text
out of order has a bracket that no match covers. `ReadingIsMatching` concludes that the reader and the
expression agree, and `GroundedIsWellCited` that comparing two counts is as good as comparing two sets, since one set
contains the other.

Induction is by the least counterexample (`Least`, `UpTo`), from the library's theorem that `<` is well-founded on the
naturals; its induction theorems themselves take an operator as parameter and cannot be used. A function defined by
recursion is what its equation says only if some function satisfies the equation, so each loop is first given one
(`Course`), and the equation is taken from there (`ParsedLoop`, `ResolvingLoop`, `ReadingLoop`) by a prover
that asks for it.

Only model-checked: liveness (`EveryRecordCommitted`, `EventuallyProcessed`,
`EventuallyShown`, `ShutdownCompletes`), which is outside what the prover does.

## 7. Limits

What the models show and no property forbids, since no document of the repository
speaks against it:

- A lost answer of a refresh, or a database error in it, ends the session for the
  browser: `HandleRefresh` answers every error with 401 (`web/handlers.go:109-113`).
- A sign-out that answers late clears the cookies of a session begun since.
- Deleting a row of the dashboard leaves the document's sections searchable.
- A label with one character on either side becomes a button without brackets
  (`answer-panel.tsx:92`, `PartAt`).
- A transfer is not aborted when its screen goes away: its `SessionExpired`, or a late answer of a
  sign-out, may end the screen of the next session. An upload that is being staged when the user signs
  out and in again may be refused, or refreshed and sent again with the next session's cookies, which
  stages it there (`left` in `Session`; `EndedOrContested` excepts it by name).
- The text of a section is not the text of the document: line breaks are blanks; the paragraphs of one list
  item run together without one (`markdown.go:97-99`); a list or a quotation inside an item is lost
  (`extractText` sees no lines of its own). `SourcesQuoteTheDocument` says what is kept.
- After a sign-out the list shows the last session's documents as a placeholder until its first fetch answers.
- A failed page fetch takes the workspace off the screen, with the question and the dialog on it.
- Of two tabs that refresh with one cookie the loser's `Update` finds no row
  (`session/postgres_repo.go:86`), and it says "Your session has ended"
  (`frontend/src/lib/api.ts:38`) while the jar holds the session's new token
  (`contested` in `EndedOrContested`).
- `cancelRefetch: false` merges an invalidation into a fetch that may have read
  before the change; the list is then behind until the next poll
  (`use-upload-events.ts:20-23`, `missed` in `InSyncUnlessMissed`).
- A row whose URL could not be signed, or is never used, stays pending.
- `Hash` accepts settings that `Verify` refuses, so that an account made under them
  never opens, and `Signin` drops the error that says so (`auth_service.go:127`). A new pepper
  locks every account out, or, where password and pepper read the same end to end, lets another password
  in: `RegisteredPasswordWorks` is about an unchanged pepper.
- Registering may fail and leave the account, whose generated password then nobody knows.
- The worker catches no signal: every stop is a crash to it.
- In every service a request that outlasts five seconds of shutdown loses its pool or is cut off.
- In the dashboard the base context that ends event streams (`web/server.go:71`) ends all queries: a list or an
  upload in flight at the signal loses its query at once and is answered with an error, and the
  INSERT may have been done (`cancelled` in `RequestsSurviveShutdown`).
- Nothing on the server keeps a second PUT of other content from a row whose URL is still valid
  (`shared/storage/s3.go:117`); `RowsKeepTheirFile` is about the dialog, which never makes one.

Abstractions to keep in mind: in `Session` an access token lives longer than a round trip (`Expire`: a
call that was just refreshed has been sent again, and a refresh sent before the last sign-in has been
answered, before the token of that sign-in expires); `Answers` takes one document and any order
of retrieval for distances, and a line of the document is one word without white space around it;
`Accounts` keeps only the last access token of a session (an older one ends no later), restarts leave the
lifetime of tokens as it is, and an event stream, which goes on for up to five minutes after its token was checked,
is not counted as access; a file of `Workspace` has passed the checks of
`selectFile`; an object PUT twice in `Pipeline` has the same content; backoff
times, heartbeats and timeouts are nondeterminism; `argon2.IDKey` gives different keys
for different inputs, and only the private key makes a signature. Two assumptions about libraries
carry the shutdown: `kgo.Client.Close` waits for `AllowRebalance` under
`BlockRebalanceOnPoll`, and `pgxpool.Pool.Close` refuses new connections and waits for the ones in
use. A process that crashes is taken to leave its group at once (the session timeout of a member that only stalls is `SessionTimeout`).

Not modelled: expiry of signed URLs (the dashboard answers with `UPLOAD_URL_TTL` and the signature
has `SIGNED_PUT_URL_TTL`: two settings with one default), and a PUT of
other content under a signed URL, which the dialog never makes (`RowsKeepTheirFile`); the `cmd/register`
command (it passes a pool where `NewServer` takes an `*Auth`, so it does not build at this
commit; `Register` itself is modelled); the pages `List` cuts with an offset and counts in
a second statement; demo mode (sample data, no service); telemetry, logging, configuration
(`env.Helper` has no caller),
migrations and deployment (no application state; the constraints of the
migrations are in `UploadRecords` and `Pipeline`); the inline markup of a document, whose
lines are copied as written; the behaviour of the front
matter library on a document that has none; `UpdateStatus`, `UpdateEmbedding` and `DeleteByUploadID`
of the RAG repositories, which nothing calls.

## 8. Plan

The order in which the modules were written is the order of importance: the
record loop every consumer stands on, the table and the pipeline with its abstract
specification, sessions, live updates, answers, the workspace, then the accounts the sessions
belong to and the processes everything runs in. What is left:

1. *Model.* The conflicting total that `ApplyProgress` refuses in `Pipeline`, once another client
   than the dialog may PUT; `Workspace` with the session handling of
   `Session` in place of its abstract answers; two calls per tab in a `session` run, once the state
  space allows it.
2. *Prove.* The lemmas on which liveness would rest: that some step of the system is possible in every state where a record
   is not committed, as a formula over states. The invariants above already name what is under way in each of them.
