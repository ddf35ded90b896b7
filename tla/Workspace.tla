------------------------------- MODULE Workspace -------------------------------
(***************************************************************************)
(* One browser tab: WorkspaceApp with its sign-in screen and its list of   *)
(* documents, the question panel (AskWorkspace) and the upload dialog.     *)
(* Calls answer in any order and outlive the components that made them: a  *)
(* question is aborted when its panel goes away, a transfer and a sign-out *)
(* are not.                                                                *)
(*                                                                         *)
(* What an API call means for the session is Session's subject: here a     *)
(* call answers, fails, or ends with SessionExpired.  Other clients create *)
(* and delete documents, so a fetch of the list may find any total.        *)
(***************************************************************************)
EXTENDS Integers, Sequences, FiniteSets

CONSTANTS
  Files, NoFile,      \* the files that pass selectFile
  MaxSessions,        \* bound on sign-ins, the session at the start included
  MaxCalls,           \* bound on questions asked
  MaxTransfers,       \* bound on upload() calls under way
  MaxSelections,      \* bound on files selected
  MaxTotal,           \* bound on the documents of the list, one to a page
  Totals,             \* the totals a fetch may find
  MaxFaults           \* bound on calls that fail or find the session expired

ASSUME WorkspaceAssumption ==
  /\ MaxSessions \in Nat \ {0}
  /\ MaxTotal \in Nat \ {0}
  /\ Totals \subseteq 0 .. MaxTotal
  /\ NoFile \notin Files
  /\ MaxFaults \in Nat

VARIABLES
  session,    \* number of the session the tab is in
  signedOut,  \* WorkspaceApp's signedOut
  page,       \* WorkspaceApp's page
  cache,      \* the query cache: the list query of every page
  kept,       \* the data useQuery keeps as placeholder (keepPreviousData)
  view,       \* Workspace's view
  ask,        \* AskWorkspace's state; submitted and answer are numbers of calls
  calls,      \* the questions asked so far, in order
  dialog,     \* UploadDialog's state; staged is the number of a row
  selections, \* the files selected so far
  transfers,  \* the upload() calls under way
  rows,       \* the rows they created, each with the object stored under its id
  signingOut, \* a sign-out request is under way
  faults

listVars == <<signedOut, page, cache, kept>>
panelVars == <<view, ask, calls>>
dialogVars == <<dialog, transfers>>
vars == <<session, signedOut, page, cache, kept, view, ask, calls, dialog, selections,
          transfers, rows, signingOut, faults>>

Pages == 1 .. MaxTotal
NoData == [page |-> 0, session |-> 0, total |-> 0]
NoQuery == [data |-> NoData, error |-> "none", fetching |-> 0]
NoAsk == [pending |-> FALSE, submitted |-> 0, answer |-> 0]
NoDialog == [open |-> FALSE, file |-> NoFile, staged |-> 0, phase |-> "idle"]

-----------------------------------------------------------------------------
(* useQuery as WorkspaceApp uses it.  fetching is the session in which the *)
(* fetch under way was sent; a query that is not the current one has none, *)
(* since listUploads takes the query's signal.                             *)
Current == cache[page]

Shown ==
  IF Current.data # NoData THEN Current.data
  ELSE IF Current.error = "none" THEN kept ELSE NoData

Screen ==
  IF signedOut \/ Current.error = "expired" THEN "login"
  ELSE IF Shown # NoData THEN "workspace"
  ELSE IF Current.error = "none" THEN "opening" ELSE "unreachable"

(* Documents' pending: isPlaceholderData or isFetching.                    *)
ListPending == Current.data = NoData \/ Current.fetching # 0

Started(query, now) ==
  [query EXCEPT !.fetching = now, !.error = IF query.data = NoData THEN "none" ELSE @]

Turned(p) ==
  [k \in Pages |-> IF k = p THEN Started(cache[k], session) ELSE [cache[k] EXCEPT !.fetching = 0]]

Keep == kept' = IF cache'[page'].data # NoData THEN cache'[page'].data ELSE kept

Fault == faults < MaxFaults /\ faults' = faults + 1

-----------------------------------------------------------------------------
(* What leaving the workspace's screen does to the components on it.       *)
Aborted(c) ==
  [i \in DOMAIN c |-> IF c[i].state = "open" THEN [c[i] EXCEPT !.state = "aborted"] ELSE c[i]]

Detached(ts) == {[t EXCEPT !.attached = FALSE] : t \in ts}

RenderPanel(v, a, c) ==
  IF Screen' = "workspace"
  THEN view' = v /\ ask' = a /\ calls' = c
  ELSE view' = "ask" /\ ask' = NoAsk /\ calls' = Aborted(c)

RenderDialog(d, t) ==
  IF Screen' = "workspace"
  THEN dialog' = d /\ transfers' = t
  ELSE dialog' = NoDialog /\ transfers' = Detached(t)

Render == RenderPanel(view, ask, calls) /\ RenderDialog(dialog, transfers)

(* leaveSession, onExpired of every component.                             *)
LeaveSession ==
  /\ signedOut' = TRUE
  /\ page' = 1
  /\ cache' = [k \in Pages |-> NoQuery]
  /\ UNCHANGED kept

(* onUploaded: the first page, fetched anew unless the tab is signed out.  *)
OnUploaded ==
  /\ page' = 1
  /\ cache' = IF signedOut THEN cache ELSE Turned(1)
  /\ Keep
  /\ UNCHANGED signedOut

-----------------------------------------------------------------------------
(* The tab opens with the cookies of a session.                            *)
Init ==
  /\ session = 1
  /\ signedOut = FALSE
  /\ page = 1
  /\ cache = [k \in Pages |-> IF k = 1 THEN [NoQuery EXCEPT !.fetching = 1] ELSE NoQuery]
  /\ kept = NoData
  /\ view = "ask" /\ ask = NoAsk /\ calls = <<>>
  /\ dialog = NoDialog /\ selections = 0 /\ transfers = {}
  /\ rows = <<>>
  /\ signingOut = FALSE
  /\ faults = 0

(* LoginForm's onSuccess.  resetQueries empties the queries in the cache;  *)
(* a query that leaveSession removed keeps its data for the placeholder.   *)
SignInKeepsFetch ==
  /\ Screen = "login"
  /\ session < MaxSessions
  /\ session' = session + 1
  /\ signedOut' = FALSE
  /\ page' = 1
  /\ cache' = [k \in Pages |->
       IF k # 1 THEN NoQuery
       ELSE Started(NoQuery, IF cache[1].fetching # 0 THEN cache[1].fetching ELSE session')]
  /\ kept' = IF signedOut THEN kept ELSE NoData
  /\ Render
  /\ UNCHANGED <<selections, rows, signingOut, faults>>

SignIn ==
  /\ Screen = "login"
  /\ session < MaxSessions
  /\ session' = session + 1
  /\ signedOut' = FALSE
  /\ page' = 1
  /\ cache' = [k \in Pages |-> IF k = 1 THEN Started(NoQuery, session') ELSE NoQuery]
  /\ kept' = IF signedOut THEN kept ELSE NoData
  /\ Render
  /\ UNCHANGED <<selections, rows, signingOut, faults>>

(* Workspace.signOut, and its answer: it may come after the workspace has  *)
(* gone, even in the next session.                                         *)
SignOut ==
  /\ Screen = "workspace"
  /\ ~signingOut
  /\ signingOut' = TRUE
  /\ UNCHANGED <<session, listVars, panelVars, dialogVars, selections, rows, faults>>

SignOutAnswers ==
  /\ signingOut
  /\ signingOut' = FALSE
  /\ LeaveSession
  /\ Render
  /\ UNCHANGED <<session, selections, rows, faults>>

SignOutFails ==
  /\ signingOut
  /\ signingOut' = FALSE
  /\ Fault
  /\ UNCHANGED <<session, listVars, panelVars, dialogVars, selections, rows>>

(* A poll, an invalidation, "Try again", "Refresh" or a focus of the       *)
(* window; the last one also on the sign-in screen of an expired session.  *)
Refetch ==
  /\ ~signedOut
  /\ Current.fetching = 0
  /\ cache' = [cache EXCEPT ![page] = Started(@, session)]
  /\ UNCHANGED <<session, signedOut, page, selections, rows, signingOut, faults>>
  /\ Keep
  /\ Render

FetchArrives(total) ==
  /\ Current.fetching # 0
  /\ cache' = [cache EXCEPT ![page] =
       [data |-> [page |-> page, session |-> Current.fetching, total |-> total],
        error |-> "none", fetching |-> 0]]
  /\ UNCHANGED <<session, signedOut, page, selections, rows, signingOut, faults>>
  /\ Keep
  /\ Render

FetchFails(error) ==
  /\ Current.fetching # 0
  /\ Fault
  /\ cache' = [cache EXCEPT ![page].error = error, ![page].fetching = 0]
  /\ UNCHANGED <<session, signedOut, page, selections, rows, signingOut>>
  /\ Keep
  /\ Render

(* The buttons under the list.                                             *)
GoToPage(p) ==
  /\ Screen = "workspace" /\ view = "documents"
  /\ ~ListPending
  /\ Shown.total > 0
  /\ \/ p = page - 1 /\ page # 1
     \/ p = page + 1 /\ page < Shown.total
  /\ page' = p
  /\ cache' = Turned(p)
  /\ UNCHANGED <<session, signedOut, selections, rows, signingOut, faults>>
  /\ Keep
  /\ Render

SwitchView(v) ==
  /\ Screen = "workspace"
  /\ view # v
  /\ view' = v
  /\ ask' = NoAsk
  /\ calls' = Aborted(calls)
  /\ UNCHANGED <<session, listVars, dialogVars, selections, rows, signingOut, faults>>

-----------------------------------------------------------------------------
(* AskWorkspace.ask, by the button or by Ctrl+Enter, which the button's    *)
(* condition on the total does not bind.                                   *)
Ask ==
  /\ Screen = "workspace" /\ view = "ask"
  /\ ~ask.pending
  /\ Len(calls) < MaxCalls
  /\ calls' = Append(Aborted(calls), [session |-> session, state |-> "open"])
  /\ ask' = [pending |-> TRUE, submitted |-> Len(calls'), answer |-> 0]
  /\ UNCHANGED <<session, listVars, view, dialogVars, selections, rows, signingOut, faults>>

Cancel ==
  /\ ask.pending
  /\ calls' = Aborted(calls)
  /\ ask' = [ask EXCEPT !.pending = FALSE]
  /\ UNCHANGED <<session, listVars, view, dialogVars, selections, rows, signingOut, faults>>

(* Once a call is aborted, ask leaves the panel, and the pending of a      *)
(* newer question, alone, whatever the call comes to.                      *)
CallEnds(i) ==
  /\ calls' = [calls EXCEPT ![i].state = "over"]
  /\ UNCHANGED <<session, listVars, view, dialogVars, selections, rows, signingOut>>

AskAnswersAlthoughAborted(i) ==
  /\ calls[i].state \in {"open", "aborted"}
  /\ view = "ask"
  /\ ask' = [ask EXCEPT !.answer = i, !.pending = FALSE]
  /\ CallEnds(i)
  /\ UNCHANGED faults

AskAnswers(i) ==
  /\ calls[i].state = "open"
  /\ ask' = [ask EXCEPT !.answer = i, !.pending = FALSE]
  /\ CallEnds(i)
  /\ UNCHANGED faults

AskFailsAlthoughAborted(i) ==
  /\ calls[i].state \in {"open", "aborted"}
  /\ Fault
  /\ ask' = [ask EXCEPT !.pending = FALSE]
  /\ CallEnds(i)

AskFails(i) ==
  /\ calls[i].state = "open"
  /\ Fault
  /\ ask' = [ask EXCEPT !.pending = FALSE]
  /\ CallEnds(i)

AskExpires(i) ==
  /\ calls[i].state = "open"
  /\ Fault
  /\ LeaveSession
  /\ RenderPanel(view, ask, [calls EXCEPT ![i].state = "over"])
  /\ RenderDialog(dialog, transfers)
  /\ UNCHANGED <<session, selections, rows, signingOut>>

-----------------------------------------------------------------------------
DialogPending == dialog.phase \in {"preparing", "uploading"}

OpenDialog ==
  /\ Screen = "workspace"
  /\ ~dialog.open
  /\ dialog' = [dialog EXCEPT !.open = TRUE]
  /\ UNCHANGED <<session, listVars, panelVars, selections, transfers, rows, signingOut, faults>>

CloseDialogKeepsStaged ==
  /\ dialog.open /\ ~DialogPending
  /\ dialog' = [NoDialog EXCEPT !.staged = dialog.staged]
  /\ UNCHANGED <<session, listVars, panelVars, selections, transfers, rows, signingOut, faults>>

CloseDialog ==
  /\ dialog.open /\ ~DialogPending
  /\ dialog' = NoDialog
  /\ UNCHANGED <<session, listVars, panelVars, selections, transfers, rows, signingOut, faults>>

(* selectFile; NoFile stands for one it refuses.                           *)
SelectFileKeepsStaged(file) ==
  /\ dialog.open /\ dialog.phase = "idle"
  /\ selections < MaxSelections
  /\ selections' = selections + 1
  /\ dialog' = [dialog EXCEPT !.file = file]
  /\ UNCHANGED <<session, listVars, panelVars, transfers, rows, signingOut, faults>>

SelectFile(file) ==
  /\ dialog.open /\ dialog.phase = "idle"
  /\ selections < MaxSelections
  /\ selections' = selections + 1
  /\ dialog' = [dialog EXCEPT !.file = file, !.staged = 0]
  /\ UNCHANGED <<session, listVars, panelVars, transfers, rows, signingOut, faults>>

(* upload, up to its first await: the staged upload of an earlier try is   *)
(* used again.                                                             *)
Upload ==
  /\ dialog.file # NoFile /\ dialog.phase = "idle"
  /\ Cardinality(transfers) < MaxTransfers
  /\ transfers' = transfers \union
       {[file |-> dialog.file, selection |-> selections, row |-> dialog.staged, attached |-> TRUE,
         step |-> IF dialog.staged = 0 THEN "staging" ELSE "putting"]}
  /\ dialog' = [dialog EXCEPT !.phase = IF dialog.staged = 0 THEN "preparing" ELSE "uploading"]
  /\ UNCHANGED <<session, listVars, panelVars, selections, rows, signingOut, faults>>

NewRow(t, answered) ==
  [file |-> t.file, selection |-> t.selection, object |-> NoFile,
   answered |-> answered]

(* setPhase and setStaged of a dialog that has gone do nothing.            *)
InDialog(t, d) == IF t.attached THEN d ELSE dialog

(* HandleUpload answers with the row and its signed URL; upload goes on to *)
(* the PUT.                                                                *)
StageAnswers(t) ==
  /\ t.step = "staging"
  /\ rows' = Append(rows, NewRow(t, TRUE))
  /\ transfers' = (transfers \ {t}) \union {[t EXCEPT !.step = "putting", !.row = Len(rows')]}
  /\ dialog' = InDialog(t, [dialog EXCEPT !.staged = Len(rows'), !.phase = "uploading"])
  /\ UNCHANGED <<session, listVars, panelVars, selections, signingOut, faults>>

(* The row may exist: the URL could not be signed, or the answer was lost. *)
StageFails(t, created) ==
  /\ t.step = "staging"
  /\ Fault
  /\ rows' = IF created THEN Append(rows, NewRow(t, FALSE)) ELSE rows
  /\ OnUploaded
  /\ RenderDialog(InDialog(t, [dialog EXCEPT !.phase = "idle"]), transfers \ {t})
  /\ RenderPanel(view, ask, calls)
  /\ UNCHANGED <<session, selections, signingOut>>

StageExpires(t) ==
  /\ t.step = "staging"
  /\ Fault
  /\ LeaveSession
  /\ RenderDialog(dialog, transfers \ {t})
  /\ RenderPanel(view, ask, calls)
  /\ UNCHANGED <<session, selections, rows, signingOut>>

PutAnswers(t) ==
  /\ t.step = "putting"
  /\ rows' = [rows EXCEPT ![t.row].object = t.file]
  /\ OnUploaded
  /\ RenderDialog(InDialog(t, [dialog EXCEPT !.phase = "done"]), transfers \ {t})
  /\ RenderPanel(view, ask, calls)
  /\ UNCHANGED <<session, selections, signingOut, faults>>

(* The object may be stored: the answer of the PUT was lost.               *)
PutFailed(t, stored, d) ==
  /\ t.step = "putting"
  /\ Fault
  /\ rows' = IF stored THEN [rows EXCEPT ![t.row].object = t.file] ELSE rows
  /\ OnUploaded
  /\ RenderDialog(InDialog(t, d), transfers \ {t})
  /\ RenderPanel(view, ask, calls)
  /\ UNCHANGED <<session, selections, signingOut>>

PutFailsUnnoticed(t, stored) == PutFailed(t, stored, [dialog EXCEPT !.phase = "done"])

PutFails(t, stored) == PutFailed(t, stored, [dialog EXCEPT !.phase = "idle"])

Next ==
  \/ SignIn \/ SignOut \/ SignOutAnswers \/ SignOutFails
  \/ Refetch
  \/ \E total \in Totals : FetchArrives(total)
  \/ \E error \in {"failed", "expired"} : FetchFails(error)
  \/ \E p \in Pages : GoToPage(p)
  \/ \E v \in {"ask", "documents"} : SwitchView(v)
  \/ Ask \/ Cancel
  \/ \E i \in DOMAIN calls : AskAnswers(i) \/ AskFails(i) \/ AskExpires(i)
  \/ OpenDialog \/ CloseDialog \/ Upload
  \/ \E file \in Files \union {NoFile} : SelectFile(file)
  \/ \E t \in transfers : StageAnswers(t) \/ StageExpires(t) \/ PutAnswers(t)
  \/ \E t \in transfers, applied \in BOOLEAN : StageFails(t, applied) \/ PutFails(t, applied)

Spec == Init /\ [][Next]_vars

-----------------------------------------------------------------------------
(* Every variable has its type, and a closed dialog remembers nothing of   *)
(* what was selected in it.                                                *)
TypeOK ==
  /\ session \in 1 .. MaxSessions
  /\ signedOut \in BOOLEAN /\ signingOut \in BOOLEAN
  /\ page \in Pages
  /\ \A k \in Pages :
       /\ cache[k].data = NoData \/ cache[k].data.page = k
       /\ cache[k].error \in {"none", "failed", "expired"}
       /\ cache[k].fetching \in 0 .. session
       /\ cache[k].fetching # 0 => k = page /\ ~signedOut
  /\ view \in {"ask", "documents"}
  /\ ask.submitted \in 0 .. Len(calls) /\ ask.answer \in 0 .. Len(calls)
  /\ \A i \in DOMAIN calls : calls[i].state \in {"open", "aborted", "over"}
  /\ dialog.phase \in {"idle", "preparing", "uploading", "done"}
  /\ ~dialog.open => dialog = NoDialog
  /\ \A t \in transfers : t.row \in 0 .. Len(rows)
  /\ faults \in 0 .. MaxFaults

(* The answer on the screen answers the question above it, the last one    *)
(* asked, and was asked in the session the tab is in: no answer of a       *)
(* cancelled, replaced or abandoned call is ever shown.                    *)
AnswerIsCurrent ==
  ask.answer # 0 =>
    /\ ask.answer = ask.submitted /\ ask.answer = Len(calls)
    /\ calls[ask.answer].session = session

(* The panel and the dialog say that they are busy exactly while a call of *)
(* theirs is under way: no spinner outlives its call and none is stopped   *)
(* by an older one, so the user can always ask or upload again.            *)
BusyIsHonest ==
  /\ ask.pending <=> \E i \in DOMAIN calls : calls[i].state = "open"
  /\ DialogPending <=>
       \E t \in transfers : t.attached

(* A row belongs to one file: nothing else is ever stored under its id,    *)
(* whatever was selected, retried and abandoned in between, and a transfer *)
(* that is tried again uses the row it has, so that of the rows created    *)
(* for one selection at most one was answered to the browser.              *)
RowsKeepTheirFile ==
  /\ \A r \in DOMAIN rows : rows[r].object \in {NoFile, rows[r].file}
  /\ \A r, s \in DOMAIN rows :
       rows[r].answered /\ rows[s].answered /\ rows[r].selection = rows[s].selection => r = s

(* "Uploaded successfully" is said of a file that is stored.               *)
DoneMeansStored ==
  dialog.phase = "done" => dialog.staged # 0 /\ rows[dialog.staged].object = dialog.file

(* When the list is settled and its buttons are enabled, it is the page    *)
(* asked for, fetched in the session the tab is in.                        *)
SettledListIsCurrent ==
  Screen = "workspace" /\ ~ListPending => Shown.page = page /\ Shown.session = session
================================================================================
