--------------------------- MODULE Workspace_proofs ---------------------------
(***************************************************************************)
(* Workspace for any number of sessions, questions, files, transfers, rows *)
(* and pages.  The invariant has a part for each component: the list, the  *)
(* question panel and the upload dialog; what joins them is that nothing   *)
(* is left of the last two while another screen is shown.                  *)
(***************************************************************************)
EXTENDS Workspace, SequenceTheorems, TLAPS

-----------------------------------------------------------------------------
(* The list: data and fetches are of the session the tab is in.            *)
Datas == [page : Nat, session : Nat, total : Nat]
Queries == [data : Datas, error : {"none", "failed", "expired"}, fetching : Nat]

ListGood(c, p, out, s) ==
  /\ c \in [Pages -> Queries]
  /\ p \in Pages
  /\ out \in BOOLEAN
  /\ \A k \in Pages :
       /\ c[k].data # NoData => c[k].data.page = k /\ c[k].data.session = s
       /\ c[k].fetching # 0 => c[k].fetching = s /\ k = p /\ ~out

(* The panel: only the last question may be open, and only while the panel *)
(* says that it waits.                                                     *)
CallRecords == [session : Nat, state : {"open", "aborted", "over"}]
Asks == [pending : BOOLEAN, submitted : Nat, answer : Nat]

PanelGood(v, a, c, s) ==
  /\ v \in {"ask", "documents"}
  /\ a \in Asks
  /\ c \in Seq(CallRecords)
  /\ a.answer \in {0, a.submitted}
  /\ a.submitted # 0 => a.submitted = Len(c) /\ c[Len(c)].session = s
  /\ a.pending => a.submitted # 0 /\ c[Len(c)].state = "open"
  /\ \A i \in DOMAIN c : c[i].state = "open" => a.pending /\ i = Len(c)

PanelAway == view = "ask" /\ ask = NoAsk

(* The dialog d, with the transfers ts, the rows rs and n selections made: *)
(* the transfer it waits for has its file, its selection and its row, ...  *)
Dialogs == [open : BOOLEAN, file : Files \cup {NoFile}, staged : Nat,
            phase : {"idle", "preparing", "uploading", "done"}]
Transfers == [file : Files, selection : Nat, row : Nat, attached : BOOLEAN,
              step : {"staging", "putting"}]
Rows == [file : Files, selection : Nat, object : Files \cup {NoFile}, answered : BOOLEAN]

WaitsFor(d, ts, n) ==
  /\ ~d.open => d = NoDialog
  /\ d.phase \in {"preparing", "uploading"} <=> \E t \in ts : t.attached
  /\ \A t \in ts : t.attached =>
       /\ t.file = d.file /\ t.selection = n
       /\ IF t.step = "putting" THEN t.row = d.staged ELSE d.staged = 0
  /\ \A t, u \in ts : t.attached /\ u.attached => t = u
  /\ \A t \in ts : t.selection = n /\ d.file # NoFile => t.attached

(* ... the row it has staged is its selection's, ...                       *)
HasStaged(d, rs, n) ==
  /\ d.staged # 0 =>
       /\ d.staged \in DOMAIN rs
       /\ rs[d.staged].file = d.file /\ rs[d.staged].selection = n /\ rs[d.staged].answered
  /\ d.phase = "done" => d.staged # 0 /\ rs[d.staged].object = d.file
  /\ d.file # NoFile /\ d.staged = 0 =>
       \A r \in DOMAIN rs : ~(rs[r].answered /\ rs[r].selection = n)

(* ... and a selection is staged once, and its row gets its file.          *)
StagesOnce(ts, rs, n) ==
  /\ \A t \in ts :
       /\ t.selection <= n
       /\ t.row # 0 => t.row \in DOMAIN rs
       /\ t.step = "putting" => t.row # 0 /\ rs[t.row].file = t.file
       /\ t.step = "staging" =>
            \A r \in DOMAIN rs : ~(rs[r].answered /\ rs[r].selection = t.selection)
  /\ \A t, u \in ts :
       t.step = "staging" /\ u.step = "staging" /\ t.selection = u.selection => t = u
  /\ \A r \in DOMAIN rs : rs[r].selection <= n /\ rs[r].object \in {NoFile, rs[r].file}
  /\ \A r, s \in DOMAIN rs :
       rs[r].answered /\ rs[s].answered /\ rs[r].selection = rs[s].selection => r = s

DialogGood(d, ts, rs, n) ==
  /\ d \in Dialogs /\ ts \subseteq Transfers /\ rs \in Seq(Rows) /\ n \in Nat
  /\ WaitsFor(d, ts, n)
  /\ HasStaged(d, rs, n)
  /\ StagesOnce(ts, rs, n)

DialogAway == dialog = NoDialog

IInv ==
  /\ session \in 1 .. MaxSessions
  /\ signingOut \in BOOLEAN
  /\ faults \in 0 .. MaxFaults
  /\ ListGood(cache, page, signedOut, session)
  /\ PanelGood(view, ask, calls, session)
  /\ DialogGood(dialog, transfers, rows, selections)
  /\ Screen # "workspace" => PanelAway /\ DialogAway

-----------------------------------------------------------------------------
LEMMA NoRecords ==
  /\ NoData \in Datas /\ NoQuery \in Queries /\ NoAsk \in Asks /\ NoDialog \in Dialogs
  /\ NoQuery.data = NoData /\ NoQuery.fetching = 0 /\ NoQuery.error = "none"
  /\ NoAsk.submitted = 0 /\ NoAsk.answer = 0 /\ NoAsk.pending = FALSE
  /\ ~NoDialog.open /\ NoDialog.file = NoFile /\ NoDialog.staged = 0 /\ NoDialog.phase = "idle"
BY DEF NoData, NoQuery, NoAsk, NoDialog, Datas, Queries, Asks, Dialogs

LEMMA AbortedFacts ==
  ASSUME NEW c \in Seq(CallRecords)
  PROVE  /\ Aborted(c) \in Seq(CallRecords)
         /\ Len(Aborted(c)) = Len(c) /\ DOMAIN Aborted(c) = DOMAIN c
         /\ \A i \in DOMAIN c : Aborted(c)[i].session = c[i].session
                                /\ Aborted(c)[i].state # "open"
<1>1. \A i \in DOMAIN c : /\ Aborted(c)[i] \in CallRecords
                          /\ Aborted(c)[i].session = c[i].session
                          /\ Aborted(c)[i].state # "open"
  <2> SUFFICES ASSUME NEW i \in DOMAIN c
               PROVE  /\ Aborted(c)[i] \in CallRecords
                      /\ Aborted(c)[i].session = c[i].session
                      /\ Aborted(c)[i].state # "open"
    OBVIOUS
  <2>1. c[i] \in CallRecords
    OBVIOUS
  <2>2. Aborted(c)[i] = IF c[i].state = "open" THEN [c[i] EXCEPT !.state = "aborted"] ELSE c[i]
    BY DEF Aborted
  <2> QED
    BY <2>1, <2>2 DEF CallRecords
<1>2. DOMAIN Aborted(c) = 1 .. Len(c) /\ DOMAIN c = 1 .. Len(c) /\ Len(c) \in Nat
  BY DEF Aborted
<1>3. Aborted(c) = [i \in 1 .. Len(c) |-> Aborted(c)[i]]
  BY DEF Aborted
<1> HIDE DEF Aborted
<1>4. Aborted(c) \in Seq(CallRecords)
  <2>1. Aborted(c) \in [1 .. Len(c) -> CallRecords]
    BY <1>1, <1>2, <1>3
  <2> QED
    BY <1>2, <2>1, SeqDef
<1> QED
  BY <1>1, <1>2, <1>4

LEMMA PanelGone ==
  ASSUME NEW v, NEW a, NEW c, NEW s, PanelGood(v, a, c, s)
  PROVE  PanelGood("ask", NoAsk, Aborted(c), s)
BY AbortedFacts, NoRecords DEF PanelGood

LEMMA PanelRendered ==
  ASSUME NEW v, NEW a, NEW c, NEW s, PanelGood(v, a, c, s), RenderPanel(v, a, c)
  PROVE  PanelGood(view', ask', calls', s) /\ (Screen' # "workspace" => PanelAway')
BY PanelGone DEF RenderPanel, PanelAway

LEMMA DialogGone ==
  ASSUME NEW d, NEW ts, NEW rs, NEW n, DialogGood(d, ts, rs, n), NEW us \in SUBSET ts
  PROVE  DialogGood(NoDialog, Detached(us), rs, n)
<1>1. \A t \in Detached(us) : \E u \in us :
        t = [u EXCEPT !.attached = FALSE] /\ u \in ts /\ u \in Transfers
  BY DEF Detached, DialogGood
<1>2. \A t \in Detached(us) : \E u \in ts :
        /\ t = [u EXCEPT !.attached = FALSE]
        /\ t \in Transfers /\ ~t.attached
        /\ t.file = u.file /\ t.selection = u.selection /\ t.row = u.row /\ t.step = u.step
  BY <1>1 DEF Transfers
<1>3. WaitsFor(NoDialog, Detached(us), n)
  BY <1>2, NoRecords DEF WaitsFor
<1>4. HasStaged(NoDialog, rs, n)
  BY NoRecords DEF HasStaged
<1>5. StagesOnce(Detached(us), rs, n)
  <2>1. StagesOnce(ts, rs, n)
    BY DEF DialogGood
  <2>2. \A t \in Detached(us) :
          /\ t.selection <= n
          /\ t.row # 0 => t.row \in DOMAIN rs
          /\ t.step = "putting" => t.row # 0 /\ rs[t.row].file = t.file
          /\ t.step = "staging" =>
               \A r \in DOMAIN rs : ~(rs[r].answered /\ rs[r].selection = t.selection)
    BY <1>2, <2>1 DEF StagesOnce
  <2>3. ASSUME NEW t \in Detached(us), NEW u \in Detached(us),
               t.step = "staging", u.step = "staging", t.selection = u.selection
        PROVE  t = u
    <3>1. PICK v \in ts : /\ t = [v EXCEPT !.attached = FALSE]
                          /\ t.selection = v.selection /\ t.step = v.step
      BY <1>2
    <3>2. PICK w \in ts : /\ u = [w EXCEPT !.attached = FALSE]
                          /\ u.selection = w.selection /\ u.step = w.step
      BY <1>2
    <3>3. v = w
      BY <2>1, <2>3, <3>1, <3>2 DEF StagesOnce
    <3> QED
      BY <3>1, <3>2, <3>3
  <2> QED
    BY <2>1, <2>2, <2>3 DEF StagesOnce
<1> QED
  BY <1>2, <1>3, <1>4, <1>5, NoRecords DEF DialogGood

LEMMA DialogRendered ==
  ASSUME NEW d, NEW ts, NEW rs, NEW n, DialogGood(d, ts, rs, n), RenderDialog(d, ts)
  PROVE  DialogGood(dialog', transfers', rs, n) /\ (Screen' # "workspace" => DialogAway')
BY DialogGone DEF RenderDialog, DialogAway

-----------------------------------------------------------------------------
LEMMA StartedFacts ==
  ASSUME NEW q \in Queries, NEW now \in Nat
  PROVE  /\ Started(q, now) \in Queries
         /\ Started(q, now).data = q.data /\ Started(q, now).fetching = now
BY DEF Started, Queries

LEMMA SameScreen == UNCHANGED listVars => Screen' = Screen
BY DEF listVars, Screen, Shown, Current

LEMMA LeaveSessionList ==
  ASSUME LeaveSession, NEW s
  PROVE  ListGood(cache', page', signedOut', s) /\ Screen' = "login"
<1>1. 1 \in Pages
  BY WorkspaceAssumption DEF Pages
<1>2. signedOut' = TRUE /\ page' = 1 /\ cache' = [k \in Pages |-> NoQuery]
  BY DEF LeaveSession
<1>3. ListGood(cache', page', signedOut', s)
  BY <1>1, <1>2, NoRecords DEF ListGood
<1>4. Screen' = "login"
  BY <1>2 DEF Screen
<1> QED
  BY <1>3, <1>4

LEMMA TurnedList ==
  ASSUME ListGood(cache, page, signedOut, session), session \in Nat, ~signedOut, NEW p \in Pages
  PROVE  ListGood(Turned(p), p, FALSE, session)
<1>1. \A k \in Pages : cache[k] \in Queries
  BY DEF ListGood
<1>2. \A k \in Pages : [cache[k] EXCEPT !.fetching = 0] \in Queries
  BY <1>1 DEF Queries
<1>3. \A k \in Pages : /\ Turned(p)[k] \in Queries
                      /\ Turned(p)[k].data = cache[k].data
                      /\ Turned(p)[k].fetching = IF k = p THEN session ELSE 0
  BY <1>1, <1>2, StartedFacts DEF Turned, Queries
<1>4. Turned(p) \in [Pages -> Queries]
  BY <1>3 DEF Turned
<1> QED
  BY <1>3, <1>4 DEF ListGood

LEMMA OnUploadedList ==
  ASSUME ListGood(cache, page, signedOut, session), session \in Nat, OnUploaded
  PROVE  ListGood(cache', page', signedOut', session)
<1>1. 1 \in Pages
  BY WorkspaceAssumption DEF Pages
<1>2. CASE signedOut
  BY <1>1, <1>2 DEF OnUploaded, ListGood
<1>3. CASE ~signedOut
  <2>1. signedOut = FALSE
    BY <1>3 DEF ListGood
  <2>2. cache' = Turned(1) /\ page' = 1 /\ signedOut' = FALSE
    BY <2>1 DEF OnUploaded
  <2> QED
    BY <1>1, <1>3, <2>2, TurnedList
<1> QED
  BY <1>2, <1>3

(* One query of the cache changes.                                         *)
LEMMA QuerySet ==
  ASSUME ListGood(cache, page, signedOut, session), ~signedOut, NEW q \in Queries,
         q.data # NoData => q.data.page = page /\ q.data.session = session,
         q.fetching \in {0, session}
  PROVE  ListGood([cache EXCEPT ![page] = q], page, signedOut, session)
BY DEF ListGood

LEMMA SignInList ==
  ASSUME IInv, SignIn
  PROVE  ListGood(cache', page', signedOut', session') /\ session' \in 1 .. MaxSessions
<1>1. 1 \in Pages /\ session' \in Nat /\ session' \in 1 .. MaxSessions
  BY WorkspaceAssumption DEF Pages, IInv, SignIn
<1>2. Started(NoQuery, session') \in Queries /\ Started(NoQuery, session').data = NoData
      /\ Started(NoQuery, session').fetching = session'
  BY <1>1, StartedFacts, NoRecords
<1>3. /\ page' = 1 /\ signedOut' = FALSE
      /\ cache' = [k \in Pages |-> IF k = 1 THEN Started(NoQuery, session') ELSE NoQuery]
  BY DEF SignIn
<1>4. \A k \in Pages :
        /\ cache'[k] \in Queries /\ cache'[k].data = NoData
        /\ cache'[k].fetching # 0 => k = 1 /\ cache'[k].fetching = session'
  BY <1>2, <1>3, NoRecords
<1>5. cache' \in [Pages -> Queries]
  BY <1>3, <1>4
<1> QED
  BY <1>1, <1>3, <1>4, <1>5 DEF ListGood

LEMMA FetchList ==
  ASSUME IInv,
         \/ Refetch
         \/ \E total \in Totals : FetchArrives(total)
         \/ \E error \in {"failed", "expired"} : FetchFails(error)
         \/ \E p \in Pages : GoToPage(p)
  PROVE  ListGood(cache', page', signedOut', session')
<1>1. /\ ListGood(cache, page, signedOut, session) /\ page \in Pages /\ cache[page] \in Queries
      /\ session \in Nat
      /\ Current = cache[page]
      /\ cache[page].data # NoData =>
           cache[page].data.page = page /\ cache[page].data.session = session
      /\ cache[page].fetching # 0 => ~signedOut /\ cache[page].fetching = session
  BY DEF IInv, ListGood, Current
<1>2. CASE Refetch
  <2>1. ~signedOut /\ cache' = [cache EXCEPT ![page] = Started(cache[page], session)]
        /\ UNCHANGED <<session, signedOut, page>>
    BY <1>1, <1>2 DEF Refetch
  <2> QED
    BY <1>1, <2>1, StartedFacts, QuerySet
<1>3. ASSUME NEW total \in Totals, FetchArrives(total)
      PROVE  ListGood(cache', page', signedOut', session')
  <2> DEFINE q == [data |-> [page |-> page, session |-> cache[page].fetching, total |-> total],
                   error |-> "none", fetching |-> 0]
  <2>1. ~signedOut /\ cache' = [cache EXCEPT ![page] = q] /\ cache[page].fetching = session
        /\ UNCHANGED <<session, signedOut, page>>
    BY <1>1, <1>3 DEF FetchArrives
  <2>2. q \in Queries /\ q.data.page = page /\ q.data.session = session /\ q.fetching = 0
    BY <1>1, <2>1, WorkspaceAssumption DEF Queries, Datas, Pages
  <2> HIDE DEF q
  <2> QED
    BY <1>1, <2>1, <2>2, QuerySet
<1>4. ASSUME NEW error \in {"failed", "expired"}, FetchFails(error)
      PROVE  ListGood(cache', page', signedOut', session')
  <2> DEFINE q == [cache[page] EXCEPT !.error = error, !.fetching = 0]
  <2>1. ~signedOut /\ cache' = [cache EXCEPT ![page] = q]
        /\ UNCHANGED <<session, signedOut, page>>
    BY <1>1, <1>4 DEF FetchFails
  <2>2. q \in Queries /\ q.data = cache[page].data /\ q.fetching = 0
    BY <1>1 DEF Queries
  <2> HIDE DEF q
  <2> QED
    BY <1>1, <2>1, <2>2, QuerySet
<1>5. ASSUME NEW p \in Pages, GoToPage(p)
      PROVE  ListGood(cache', page', signedOut', session')
  <2>1. ~signedOut
    BY <1>5 DEF GoToPage, Screen
  <2>2. signedOut' = FALSE /\ cache' = Turned(p) /\ page' = p /\ session' = session
    BY <1>1, <1>5, <2>1 DEF GoToPage, ListGood
  <2> QED
    BY <1>1, <1>5, <2>1, <2>2, TurnedList
<1> QED
  BY <1>2, <1>3, <1>4, <1>5

-----------------------------------------------------------------------------
(* The panel's own steps.                                                  *)
LEMMA CallFacts ==
  ASSUME PanelGood(view, ask, calls, session), NEW i \in DOMAIN calls,
         NEW state \in {"aborted", "over"}
  PROVE  /\ [calls EXCEPT ![i].state = state] \in Seq(CallRecords)
         /\ Len([calls EXCEPT ![i].state = state]) = Len(calls)
         /\ DOMAIN [calls EXCEPT ![i].state = state] = DOMAIN calls
         /\ \A j \in DOMAIN calls :
              /\ [calls EXCEPT ![i].state = state][j].session = calls[j].session
              /\ [calls EXCEPT ![i].state = state][j].state = IF j = i THEN state ELSE calls[j].state
<1>1. calls \in Seq(CallRecords) /\ calls[i] \in CallRecords
  BY DEF PanelGood
<1>2. [calls[i] EXCEPT !.state = state] \in CallRecords
      /\ [calls[i] EXCEPT !.state = state].session = calls[i].session
      /\ [calls[i] EXCEPT !.state = state].state = state
  BY <1>1 DEF CallRecords
<1>3. [calls EXCEPT ![i].state = state] = [calls EXCEPT ![i] = [calls[i] EXCEPT !.state = state]]
  BY <1>1
<1> QED
  BY <1>1, <1>2, <1>3

LEMMA PanelSteps ==
  ASSUME IInv, session \in Nat,
         \/ \E v \in {"ask", "documents"} : SwitchView(v)
         \/ Ask \/ Cancel
         \/ \E i \in DOMAIN calls : AskAnswers(i) \/ AskFails(i)
  PROVE  PanelGood(view', ask', calls', session) /\ Screen = "workspace" /\ UNCHANGED listVars
<1>1. PanelGood(view, ask, calls, session) /\ calls \in Seq(CallRecords)
  BY DEF IInv, PanelGood
<1>2. ASSUME NEW v \in {"ask", "documents"}, SwitchView(v)
      PROVE  PanelGood(view', ask', calls', session)
  BY <1>1, <1>2, AbortedFacts, NoRecords DEF SwitchView, PanelGood
<1>3. ASSUME Ask
      PROVE  PanelGood(view', ask', calls', session)
  <2> DEFINE new == [session |-> session, state |-> "open"]
  <2>1. /\ calls' = Append(Aborted(calls), new)
        /\ ask' = [pending |-> TRUE, submitted |-> Len(calls'), answer |-> 0]
        /\ view' = view
    BY <1>3 DEF Ask
  <2>2. new \in CallRecords /\ new.session = session /\ new.state = "open"
    BY DEF CallRecords
  <2> HIDE DEF new
  <2>3. /\ calls' \in Seq(CallRecords) /\ Len(calls') = Len(calls) + 1
        /\ calls'[Len(calls')] = new
        /\ \A j \in DOMAIN calls' : j # Len(calls') => calls'[j].state # "open"
    BY <1>1, <2>1, <2>2, AbortedFacts
  <2>4. Len(calls) \in Nat
    BY <1>1
  <2>5. /\ ask' \in Asks /\ ask'.pending /\ ask'.submitted = Len(calls') /\ ask'.answer = 0
        /\ ask'.submitted # 0
    BY <2>1, <2>3, <2>4 DEF Asks
  <2> QED
    BY <1>1, <2>1, <2>2, <2>3, <2>5 DEF PanelGood
<1>4. ASSUME Cancel
      PROVE  PanelGood(view', ask', calls', session)
  <2>1. /\ ask.pending /\ calls' = Aborted(calls) /\ ask' = [ask EXCEPT !.pending = FALSE]
        /\ view' = view
    BY <1>4 DEF Cancel
  <2>2. ask' \in Asks /\ ~ask'.pending /\ ask'.submitted = ask.submitted /\ ask'.answer = ask.answer
    BY <1>1, <2>1 DEF PanelGood, Asks
  <2>3. ask.submitted = Len(calls) /\ Len(calls) \in DOMAIN calls
    BY <1>1, <2>1 DEF PanelGood, Asks
  <2> QED
    BY <1>1, <2>1, <2>2, <2>3, AbortedFacts DEF PanelGood
<1>5. ASSUME NEW i \in DOMAIN calls, AskAnswers(i) \/ AskFails(i)
      PROVE  PanelGood(view', ask', calls', session)
  <2>1. /\ calls[i].state = "open" /\ calls' = [calls EXCEPT ![i].state = "over"]
        /\ view' = view
    BY <1>5 DEF AskAnswers, AskFails, CallEnds
  <2>2. /\ ask.pending /\ i = Len(calls) /\ ask.submitted = i /\ ask \in Asks
        /\ \A j \in DOMAIN calls : calls[j].state = "open" => j = i
    BY <1>1, <2>1 DEF PanelGood
  <2>3. ask' \in Asks /\ ~ask'.pending /\ ask'.submitted = i /\ ask'.answer \in {0, i}
    BY <1>1, <1>5, <2>2 DEF AskAnswers, AskFails, Asks, PanelGood
  <2>4. "over" \in {"aborted", "over"}
    OBVIOUS
  <2>5. /\ calls' \in Seq(CallRecords) /\ Len(calls') = Len(calls) /\ DOMAIN calls' = DOMAIN calls
        /\ \A j \in DOMAIN calls : /\ calls'[j].session = calls[j].session
                                   /\ calls'[j].state = IF j = i THEN "over" ELSE calls[j].state
    BY <1>1, <2>1, <2>4, CallFacts
  <2>6. \A j \in DOMAIN calls : calls'[j].state # "open"
    BY <2>2, <2>5
  <2> QED
    BY <1>1, <2>1, <2>2, <2>3, <2>5, <2>6 DEF PanelGood
<1>6. Screen = "workspace"
  <2>1. CASE \E v \in {"ask", "documents"} : SwitchView(v)
    BY <2>1 DEF SwitchView
  <2>2. CASE Ask
    BY <2>2 DEF Ask
  <2>3. CASE Cancel \/ \E i \in DOMAIN calls : AskAnswers(i) \/ AskFails(i)
    <3>1. ask.pending
      BY <1>1, <2>3 DEF Cancel, AskAnswers, AskFails, PanelGood
    <3> QED
      BY <3>1, NoRecords DEF IInv, PanelAway
  <2> QED
    BY <2>1, <2>2, <2>3
<1>7. UNCHANGED listVars
  BY DEF SwitchView, Ask, Cancel, AskAnswers, AskFails, CallEnds
<1> QED
  BY <1>2, <1>3, <1>4, <1>5, <1>6, <1>7

-----------------------------------------------------------------------------
(* The dialog: what its steps do to the rows and the transfers.            *)
LEMMA NewRowFacts ==
  ASSUME NEW t \in Transfers, NEW answered \in BOOLEAN
  PROVE  /\ NewRow(t, answered) \in Rows
         /\ NewRow(t, answered).file = t.file /\ NewRow(t, answered).selection = t.selection
         /\ NewRow(t, answered).object = NoFile /\ NewRow(t, answered).answered = answered
BY DEF NewRow, Transfers, Rows

LEMMA RowAppended ==
  ASSUME NEW rs \in Seq(Rows), NEW row \in Rows
  PROVE  /\ Append(rs, row) \in Seq(Rows)
         /\ Len(Append(rs, row)) = Len(rs) + 1 /\ Len(rs) \in Nat
         /\ DOMAIN rs = 1 .. Len(rs)
         /\ DOMAIN Append(rs, row) = 1 .. Len(rs) + 1
         /\ \A r \in DOMAIN rs : Append(rs, row)[r] = rs[r]
         /\ Append(rs, row)[Len(rs) + 1] = row
OBVIOUS

LEMMA RowWithoutAnswer ==
  ASSUME NEW d, NEW ts, NEW rs, NEW n, DialogGood(d, ts, rs, n), NEW t \in ts
  PROVE  DialogGood(d, ts, Append(rs, NewRow(t, FALSE)), n)
<1> DEFINE row == NewRow(t, FALSE)
           q == Append(rs, row)
<1>1. /\ t \in Transfers /\ rs \in Seq(Rows) /\ d \in Dialogs /\ ts \subseteq Transfers
      /\ HasStaged(d, rs, n) /\ StagesOnce(ts, rs, n) /\ t.selection <= n
  BY DEF DialogGood, StagesOnce
<1>2. /\ row \in Rows /\ row.selection = t.selection /\ row.object = NoFile /\ row.answered = FALSE
  BY <1>1, NewRowFacts
<1> HIDE DEF row
<1>3. /\ q \in Seq(Rows) /\ DOMAIN q = 1 .. Len(rs) + 1 /\ DOMAIN rs = 1 .. Len(rs)
      /\ Len(rs) \in Nat
      /\ \A r \in DOMAIN rs : q[r] = rs[r]
      /\ q[Len(rs) + 1] = row
  BY <1>1, <1>2, RowAppended
<1> HIDE DEF q
<1>4. \A r \in DOMAIN q : r \in DOMAIN rs \/ q[r] = row
  BY <1>3
<1>5. HasStaged(d, q, n)
  BY <1>1, <1>2, <1>3, <1>4 DEF HasStaged
<1>6. StagesOnce(ts, q, n)
  BY <1>1, <1>2, <1>3, <1>4 DEF StagesOnce
<1> QED
  BY <1>3, <1>5, <1>6 DEF DialogGood, q, row

LEMMA ObjectStored ==
  ASSUME NEW d, NEW ts, NEW rs, NEW n, DialogGood(d, ts, rs, n), NEW t \in ts,
         t.step = "putting"
  PROVE  /\ DialogGood(d, ts, [rs EXCEPT ![t.row].object = t.file], n)
         /\ t.row \in DOMAIN rs
         /\ [rs EXCEPT ![t.row].object = t.file][t.row].object = t.file
<1> DEFINE q == [rs EXCEPT ![t.row].object = t.file]
<1>1. /\ rs \in Seq(Rows) /\ HasStaged(d, rs, n) /\ StagesOnce(ts, rs, n)
      /\ t.row \in DOMAIN rs /\ rs[t.row].file = t.file /\ t.file \in Files
  BY DEF DialogGood, StagesOnce, Transfers
<1>2. rs[t.row] \in Rows
  BY <1>1
<1>3. /\ [rs[t.row] EXCEPT !.object = t.file] \in Rows
      /\ [rs[t.row] EXCEPT !.object = t.file].object = t.file
      /\ [rs[t.row] EXCEPT !.object = t.file].file = rs[t.row].file
      /\ [rs[t.row] EXCEPT !.object = t.file].selection = rs[t.row].selection
      /\ [rs[t.row] EXCEPT !.object = t.file].answered = rs[t.row].answered
  BY <1>1, <1>2 DEF Rows
<1>4. q = [rs EXCEPT ![t.row] = [rs[t.row] EXCEPT !.object = t.file]]
  BY <1>1
<1>5. /\ q \in Seq(Rows) /\ DOMAIN q = DOMAIN rs
      /\ \A r \in DOMAIN rs : /\ q[r].file = rs[r].file /\ q[r].selection = rs[r].selection
                               /\ q[r].answered = rs[r].answered
                               /\ q[r].object = IF r = t.row THEN t.file ELSE rs[r].object
  BY <1>1, <1>3, <1>4
<1> HIDE DEF q
<1>6. HasStaged(d, q, n)
  BY <1>1, <1>5 DEF HasStaged
<1>7. StagesOnce(ts, q, n)
  BY <1>1, <1>5, SMTT(30) DEF StagesOnce
<1> QED
  BY <1>1, <1>5, <1>6, <1>7 DEF DialogGood, q

(* A transfer is over: the dialog that waited for it is idle again, or     *)
(* done when the object is stored.                                         *)
LEMMA TransferOver ==
  ASSUME NEW d, NEW ts, NEW rs, NEW n, DialogGood(d, ts, rs, n), NEW t \in ts,
         NEW phase \in {"idle", "done"},
         phase = "done" => t.step = "putting" /\ rs[t.row].object = t.file
  PROVE  DialogGood(IF t.attached THEN [d EXCEPT !.phase = phase] ELSE d, ts \ {t}, rs, n)
<1> DEFINE e == IF t.attached THEN [d EXCEPT !.phase = phase] ELSE d
<1>1. /\ d \in Dialogs /\ ts \subseteq Transfers
      /\ WaitsFor(d, ts, n) /\ HasStaged(d, rs, n) /\ StagesOnce(ts, rs, n)
  BY DEF DialogGood
<1>2. CASE ~t.attached
  <2>1. e = d
    BY <1>2
  <2>2. WaitsFor(d, ts \ {t}, n)
    BY <1>1, <1>2 DEF WaitsFor
  <2>3. StagesOnce(ts \ {t}, rs, n)
    BY <1>1 DEF StagesOnce
  <2> QED
    BY <1>1, <2>1, <2>2, <2>3 DEF DialogGood
<1>3. CASE t.attached
  <2>1. /\ e \in Dialogs /\ e.open = d.open /\ e.file = d.file /\ e.staged = d.staged
        /\ e.phase = phase
    BY <1>1, <1>3 DEF Dialogs
  <2>2. d.open /\ t.file = d.file /\ (t.step = "putting" => t.row = d.staged)
    BY <1>1, <1>3, NoRecords DEF WaitsFor
  <2> HIDE DEF e
  <2>3. WaitsFor(e, ts \ {t}, n)
    BY <1>1, <1>3, <2>1, <2>2 DEF WaitsFor
  <2>4. HasStaged(e, rs, n)
    <3>1. phase = "done" => e.staged # 0 /\ rs[e.staged].object = e.file
      BY <1>1, <2>1, <2>2 DEF StagesOnce
    <3> QED
      BY <1>1, <2>1, <3>1 DEF HasStaged
  <2>5. StagesOnce(ts \ {t}, rs, n)
    BY <1>1 DEF StagesOnce
  <2> QED
    BY <2>1, <2>3, <2>4, <2>5 DEF DialogGood, e
<1> QED
  BY <1>2, <1>3

(* A transfer learns its row and goes on to the PUT.                       *)
LEMMA StageAnswered ==
  ASSUME NEW d, NEW ts, NEW rs, NEW n, DialogGood(d, ts, rs, n), NEW t \in ts,
         t.step = "staging",
         NEW q \in Seq(Rows), NEW last \in Nat \ {0},
         DOMAIN q = DOMAIN rs \union {last}, last \notin DOMAIN rs,
         \A r \in DOMAIN rs : q[r] = rs[r],
         q[last] = NewRow(t, TRUE)
  PROVE  DialogGood(IF t.attached THEN [d EXCEPT !.staged = last, !.phase = "uploading"] ELSE d,
                    (ts \ {t}) \union {[t EXCEPT !.step = "putting", !.row = last]}, q, n)
<1> DEFINE e == IF t.attached THEN [d EXCEPT !.staged = last, !.phase = "uploading"] ELSE d
           u == [t EXCEPT !.step = "putting", !.row = last]
           us == (ts \ {t}) \union {u}
<1>1. /\ t \in Transfers /\ rs \in Seq(Rows) /\ d \in Dialogs /\ ts \subseteq Transfers
      /\ WaitsFor(d, ts, n) /\ HasStaged(d, rs, n) /\ StagesOnce(ts, rs, n) /\ t.selection <= n
  BY DEF DialogGood, StagesOnce
<1>2. /\ q[last].selection = t.selection /\ q[last].object = NoFile /\ q[last].answered
      /\ q[last].file = t.file
  BY <1>1, NewRowFacts
<1>3. /\ DOMAIN q = DOMAIN rs \union {last} /\ last \notin DOMAIN rs
      /\ \A r \in DOMAIN rs : q[r] = rs[r]
      /\ last \in DOMAIN q
  OBVIOUS
<1>4. /\ u \in Transfers /\ u.step = "putting" /\ u.row = last /\ u.attached = t.attached
      /\ u.file = t.file /\ u.selection = t.selection
  BY <1>1 DEF Transfers
<1>5. /\ e \in Dialogs /\ e.open = d.open /\ e.file = d.file
      /\ e.staged = IF t.attached THEN last ELSE d.staged
      /\ e.phase = IF t.attached THEN "uploading" ELSE d.phase
  BY <1>1 DEF Dialogs
<1>6. \A r \in DOMAIN q : r \in DOMAIN rs \/ r = last
  BY <1>3
<1>7. us = (ts \ {t}) \union {u}
  OBVIOUS
<1> HIDE DEF u, e, us
<1>8. WaitsFor(e, us, n)
  <2>1. CASE t.attached
    <3>1. d.open /\ \A v \in ts : v.attached => v = t
      BY <1>1, <2>1, NoRecords DEF WaitsFor
    <3>2. \A v \in us : v.attached => v = u
      BY <1>7, <3>1
    <3>3. ~e.open => e = NoDialog
      BY <1>5, <3>1
    <3>4. e.phase \in {"preparing", "uploading"} <=> \E v \in us : v.attached
      BY <1>4, <1>5, <1>7, <2>1
    <3>5. t.file = d.file /\ t.selection = n
      BY <1>1, <2>1 DEF WaitsFor
    <3>6. \A v \in us : v.selection = n /\ e.file # NoFile => v.attached
      BY <1>1, <1>4, <1>5, <1>7, <2>1 DEF WaitsFor
    <3> QED
      BY <1>4, <1>5, <2>1, <3>2, <3>3, <3>4, <3>5, <3>6 DEF WaitsFor
  <2>2. CASE ~t.attached
    <3>1. e = d
      BY <2>2 DEF e
    <3>2. \A v \in us : v.attached => v \in ts
      BY <1>4, <1>7, <2>2
    <3>3. \A v \in ts : v.attached => v \in us
      BY <1>7, <2>2
    <3>4. ~(t.selection = n /\ d.file # NoFile)
      BY <1>1, <2>2 DEF WaitsFor
    <3> QED
      BY <1>1, <1>4, <1>7, <3>1, <3>2, <3>3, <3>4 DEF WaitsFor
  <2> QED
    BY <2>1, <2>2
<1>9. HasStaged(e, q, n)
  <2>1. CASE t.attached
    <3>1. t.file = d.file /\ t.selection = n
      BY <1>1, <2>1 DEF WaitsFor
    <3> QED
      BY <1>2, <1>3, <1>5, <2>1, <3>1 DEF HasStaged
  <2>2. CASE ~t.attached
    <3>1. e = d
      BY <2>2 DEF e
    <3>2. ~(t.selection = n /\ d.file # NoFile)
      BY <1>1, <2>2 DEF WaitsFor
    <3> QED
      BY <1>1, <1>2, <1>3, <1>6, <3>1, <3>2 DEF HasStaged
  <2> QED
    BY <2>1, <2>2
<1>10. StagesOnce(us, q, n)
  <2>1. \A v \in us : v = u \/ (v \in ts /\ v # t)
    BY <1>7
  <2>2. ASSUME NEW v \in us
        PROVE  /\ v.selection <= n
               /\ v.row # 0 => v.row \in DOMAIN q
               /\ v.step = "putting" => v.row # 0 /\ q[v.row].file = v.file
               /\ v.step = "staging" =>
                    \A r \in DOMAIN q : ~(q[r].answered /\ q[r].selection = v.selection)
    <3>1. CASE v = u
      BY <1>1, <1>2, <1>3, <1>4, <3>1
    <3>2. CASE v \in ts /\ v # t
      <4>1. v.step = "staging" => v.selection # t.selection
        BY <1>1, <3>2 DEF StagesOnce
      <4>2. /\ v.selection <= n
            /\ v.row # 0 => v.row \in DOMAIN rs
            /\ v.step = "putting" => v.row # 0 /\ rs[v.row].file = v.file
            /\ v.step = "staging" =>
                 \A r \in DOMAIN rs : ~(rs[r].answered /\ rs[r].selection = v.selection)
        BY <1>1, <3>2 DEF StagesOnce
      <4> QED
        BY <1>2, <1>3, <1>6, <4>1, <4>2
    <3> QED
      BY <2>1, <3>1, <3>2
  <2>3. \A v, w \in us :
          v.step = "staging" /\ w.step = "staging" /\ v.selection = w.selection => v = w
    BY <1>1, <1>4, <2>1 DEF StagesOnce
  <2>4. \A r \in DOMAIN q : q[r].selection <= n /\ q[r].object \in {NoFile, q[r].file}
    BY <1>1, <1>2, <1>3, <1>6 DEF StagesOnce
  <2>5. \A r, s \in DOMAIN q :
          q[r].answered /\ q[s].answered /\ q[r].selection = q[s].selection => r = s
    <3>1. \A r \in DOMAIN rs : ~(rs[r].answered /\ rs[r].selection = t.selection)
      BY <1>1 DEF StagesOnce
    <3>2. \A r, s \in DOMAIN rs :
            rs[r].answered /\ rs[s].answered /\ rs[r].selection = rs[s].selection => r = s
      BY <1>1 DEF StagesOnce
    <3>3. \A r \in DOMAIN rs : q[r] = rs[r] /\ ~(q[r].answered /\ q[r].selection = q[last].selection)
      BY <1>2, <1>3, <3>1
    <3> QED
      BY <1>6, <3>2, <3>3
  <2> QED
    BY <2>2, <2>3, <2>4, <2>5 DEF StagesOnce
<1>11. us \subseteq Transfers /\ n \in Nat
  BY <1>1, <1>4, <1>7 DEF DialogGood
<1> QED
  BY <1>5, <1>8, <1>9, <1>10, <1>11 DEF DialogGood, e, u, us

(* The steps that leave the list and the panel alone.                      *)
LEMMA DialogSteps ==
  ASSUME IInv,
         \/ OpenDialog \/ CloseDialog \/ Upload
         \/ \E file \in Files \union {NoFile} : SelectFile(file)
         \/ \E t \in transfers : StageAnswers(t)
  PROVE  /\ DialogGood(dialog', transfers', rows', selections')
         /\ Screen # "workspace" => dialog' = dialog
         /\ UNCHANGED <<session, listVars, panelVars, signingOut, faults>>
<1>1. /\ DialogGood(dialog, transfers, rows, selections)
      /\ dialog \in Dialogs /\ transfers \subseteq Transfers /\ rows \in Seq(Rows) /\ selections \in Nat
      /\ WaitsFor(dialog, transfers, selections) /\ HasStaged(dialog, rows, selections)
      /\ StagesOnce(transfers, rows, selections)
      /\ Screen # "workspace" => dialog = NoDialog
  BY DEF IInv, DialogGood, DialogAway
<1>2. UNCHANGED <<session, listVars, panelVars, signingOut, faults>>
  BY DEF OpenDialog, CloseDialog, Upload, SelectFile, StageAnswers
<1>3. ASSUME OpenDialog
      PROVE  DialogGood(dialog', transfers', rows', selections') /\ Screen = "workspace"
  <2>1. /\ Screen = "workspace" /\ dialog = NoDialog /\ dialog' = [dialog EXCEPT !.open = TRUE]
        /\ UNCHANGED <<transfers, rows, selections>>
    BY <1>1, <1>3 DEF OpenDialog, WaitsFor
  <2>2. /\ dialog' \in Dialogs /\ dialog'.open /\ dialog'.file = dialog.file
        /\ dialog'.staged = dialog.staged /\ dialog'.phase = dialog.phase
    BY <1>1, <2>1 DEF Dialogs
  <2>3. WaitsFor(dialog', transfers, selections)
    BY <1>1, <2>2 DEF WaitsFor
  <2>4. HasStaged(dialog', rows, selections)
    BY <1>1, <2>2 DEF HasStaged
  <2> QED
    BY <1>1, <2>1, <2>2, <2>3, <2>4 DEF DialogGood
<1>4. ASSUME CloseDialog
      PROVE  DialogGood(dialog', transfers', rows', selections') /\ Screen = "workspace"
  <2>1. /\ dialog.open /\ dialog.phase \notin {"preparing", "uploading"} /\ dialog' = NoDialog
        /\ UNCHANGED <<transfers, rows, selections>>
    BY <1>4 DEF CloseDialog, DialogPending
  <2>2. WaitsFor(NoDialog, transfers, selections)
    BY <1>1, <2>1, NoRecords DEF WaitsFor
  <2>3. HasStaged(NoDialog, rows, selections)
    BY NoRecords DEF HasStaged
  <2> QED
    BY <1>1, <2>1, <2>2, <2>3, NoRecords DEF DialogGood
<1>5. ASSUME NEW file \in Files \union {NoFile}, SelectFile(file)
      PROVE  DialogGood(dialog', transfers', rows', selections') /\ Screen = "workspace"
  <2>1. /\ dialog.open /\ dialog.phase = "idle" /\ selections' = selections + 1
        /\ dialog' = [dialog EXCEPT !.file = file, !.staged = 0]
        /\ UNCHANGED <<transfers, rows>>
    BY <1>5 DEF SelectFile
  <2>2. /\ dialog' \in Dialogs /\ dialog'.open /\ dialog'.file = file
        /\ dialog'.staged = 0 /\ dialog'.phase = "idle"
    BY <1>1, <2>1 DEF Dialogs
  <2>3. /\ \A t \in transfers : t.selection \in Nat /\ t.selection <= selections /\ ~t.attached
        /\ \A r \in DOMAIN rows : rows[r].selection \in Nat /\ rows[r].selection <= selections
    <3>1. \A t \in transfers : t.selection \in Nat
      BY <1>1 DEF Transfers
    <3>2. \A r \in DOMAIN rows : rows[r] \in Rows
      BY <1>1
    <3>3. \A r \in DOMAIN rows : rows[r].selection \in Nat
      BY <3>2 DEF Rows
    <3> QED
      BY <1>1, <2>1, <3>1, <3>3 DEF WaitsFor, StagesOnce
  <2>4. WaitsFor(dialog', transfers, selections')
    BY <1>1, <2>1, <2>2, <2>3 DEF WaitsFor
  <2>5. HasStaged(dialog', rows, selections')
    BY <1>1, <2>1, <2>2, <2>3 DEF HasStaged
  <2>6. StagesOnce(transfers, rows, selections')
    BY <1>1, <2>1, <2>3 DEF StagesOnce
  <2> QED
    <3>1. Screen = "workspace"
      BY <1>1, <2>1, NoRecords
    <3>2. selections' \in Nat
      BY <1>1, <2>1
    <3> QED
      BY <1>1, <2>1, <2>2, <2>4, <2>5, <2>6, <3>1, <3>2 DEF DialogGood
<1>6. ASSUME Upload
      PROVE  DialogGood(dialog', transfers', rows', selections') /\ Screen = "workspace"
  <2> DEFINE t == [file |-> dialog.file, selection |-> selections, row |-> dialog.staged,
                   attached |-> TRUE, step |-> IF dialog.staged = 0 THEN "staging" ELSE "putting"]
             phase == IF dialog.staged = 0 THEN "preparing" ELSE "uploading"
  <2>1. /\ dialog.file # NoFile /\ dialog.phase = "idle"
        /\ transfers' = transfers \union {t}
        /\ dialog' = [dialog EXCEPT !.phase = phase]
        /\ UNCHANGED <<rows, selections>>
    BY <1>6 DEF Upload
  <2>2. /\ t \in Transfers /\ t.file = dialog.file /\ t.selection = selections /\ t.row = dialog.staged
        /\ t.attached /\ t.step = IF dialog.staged = 0 THEN "staging" ELSE "putting"
    BY <1>1, <2>1 DEF Transfers, Dialogs
  <2>3. phase \in {"preparing", "uploading"}
    OBVIOUS
  <2> HIDE DEF t, phase
  <2>4. /\ dialog' \in Dialogs /\ dialog'.open = dialog.open /\ dialog'.file = dialog.file
        /\ dialog'.staged = dialog.staged /\ dialog'.phase = phase
    BY <1>1, <2>1, <2>3 DEF Dialogs
  <2>5. dialog.open
    BY <1>1, <2>1, NoRecords DEF WaitsFor
  <2>6. \A u \in transfers : ~u.attached /\ u.selection # selections
    BY <1>1, <2>1 DEF WaitsFor
  <2>7. WaitsFor(dialog', transfers', selections)
    BY <1>1, <2>1, <2>2, <2>3, <2>4, <2>5, <2>6 DEF WaitsFor
  <2>8. HasStaged(dialog', rows, selections)
    BY <1>1, <2>3, <2>4 DEF HasStaged
  <2>9. StagesOnce(transfers', rows, selections)
    <3>1. \A u \in transfers' : u \in transfers \/ u = t
      BY <2>1
    <3>2. /\ t.selection <= selections
          /\ t.row # 0 => t.row \in DOMAIN rows
          /\ t.step = "putting" => t.row # 0 /\ rows[t.row].file = t.file
          /\ t.step = "staging" =>
               \A r \in DOMAIN rows : ~(rows[r].answered /\ rows[r].selection = t.selection)
      BY <1>1, <2>1, <2>2 DEF HasStaged
    <3> QED
      BY <1>1, <2>2, <2>6, <3>1, <3>2 DEF StagesOnce
  <2>10. Screen = "workspace"
    BY <1>1, <2>5, NoRecords
  <2> QED
    BY <1>1, <2>1, <2>2, <2>4, <2>7, <2>8, <2>9, <2>10 DEF DialogGood
<1>7. ASSUME NEW t \in transfers, StageAnswers(t)
      PROVE  /\ DialogGood(dialog', transfers', rows', selections')
             /\ Screen # "workspace" => dialog' = dialog
  <2>1. /\ t.step = "staging" /\ rows' = Append(rows, NewRow(t, TRUE))
        /\ transfers' = (transfers \ {t}) \union {[t EXCEPT !.step = "putting", !.row = Len(rows')]}
        /\ dialog' = IF t.attached
                     THEN [dialog EXCEPT !.staged = Len(rows'), !.phase = "uploading"] ELSE dialog
        /\ selections' = selections
    BY <1>7 DEF StageAnswers, InDialog
  <2>2. t.attached => Screen = "workspace"
    BY <1>1, NoRecords DEF WaitsFor
  <2> QED
    <3>1. /\ t \in Transfers /\ NewRow(t, TRUE) \in Rows /\ Len(rows) \in Nat
      <4>1. t \in Transfers /\ TRUE \in BOOLEAN
        BY <1>1
      <4>2. Len(rows) \in Nat
        BY <1>1
      <4> QED
        BY <4>1, <4>2, NewRowFacts
    <3>2. /\ rows' \in Seq(Rows) /\ Len(rows') = Len(rows) + 1
          /\ DOMAIN rows = 1 .. Len(rows) /\ DOMAIN rows' = 1 .. Len(rows) + 1
          /\ \A r \in DOMAIN rows : rows'[r] = rows[r]
          /\ rows'[Len(rows) + 1] = NewRow(t, TRUE)
      BY <1>1, <2>1, <3>1, RowAppended
    <3>3. /\ Len(rows') \in Nat \ {0} /\ Len(rows') \notin DOMAIN rows
          /\ DOMAIN rows' = DOMAIN rows \union {Len(rows')}
          /\ rows'[Len(rows')] = NewRow(t, TRUE)
      BY <3>1, <3>2
    <3> QED
      BY <1>1, <2>1, <2>2, <3>2, <3>3, StageAnswered
<1>8. Screen # "workspace" /\ CloseDialog => FALSE
  BY <1>1, NoRecords DEF CloseDialog
<1>9. ASSUME NEW file \in Files \union {NoFile}, SelectFile(file), Screen # "workspace"
      PROVE  FALSE
  BY <1>1, <1>9, NoRecords DEF SelectFile
<1> QED
  BY <1>2, <1>3, <1>4, <1>5, <1>6, <1>7

(* The steps that end a transfer: the list is fetched anew, and a dialog   *)
(* that is still there says how it went.                                   *)
LEMMA TransferSteps ==
  ASSUME IInv, session \in Nat,
         \/ \E t \in transfers : PutAnswers(t)
         \/ \E t \in transfers, applied \in BOOLEAN : StageFails(t, applied) \/ PutFails(t, applied)
  PROVE  /\ ListGood(cache', page', signedOut', session)
         /\ DialogGood(dialog', transfers', rows', selections)
         /\ Screen' # "workspace" => DialogAway'
         /\ RenderPanel(view, ask, calls)
         /\ UNCHANGED <<session, selections, signingOut>>
<1>1. /\ DialogGood(dialog, transfers, rows, selections)
      /\ ListGood(cache, page, signedOut, session)
  BY DEF IInv
<1>2. /\ OnUploaded /\ RenderPanel(view, ask, calls)
      /\ UNCHANGED <<session, selections, signingOut>>
  BY DEF PutAnswers, StageFails, PutFails, PutFailed
<1>3. PICK t \in transfers :
        \/ PutAnswers(t)
        \/ \E applied \in BOOLEAN : StageFails(t, applied) \/ PutFails(t, applied)
  OBVIOUS
<1>4. PICK phase \in {"idle", "done"} :
        /\ RenderDialog(IF t.attached THEN [dialog EXCEPT !.phase = phase] ELSE dialog,
                        transfers \ {t})
        /\ phase = "done" => PutAnswers(t)
  BY <1>3 DEF PutAnswers, StageFails, PutFails, PutFailed, InDialog
<1>5. /\ DialogGood(dialog, transfers, rows', selections)
      /\ phase = "done" => t.step = "putting" /\ rows'[t.row].object = t.file
  <2>1. ASSUME PutAnswers(t)
        PROVE  /\ DialogGood(dialog, transfers, rows', selections)
               /\ t.step = "putting" /\ rows'[t.row].object = t.file
    <3>1. t.step = "putting" /\ rows' = [rows EXCEPT ![t.row].object = t.file]
      BY <2>1 DEF PutAnswers
    <3>2. DialogGood(dialog, transfers, rows, selections) /\ t \in transfers
      BY <1>1
    <3>3. DialogGood(dialog, transfers, [rows EXCEPT ![t.row].object = t.file], selections)
      BY <3>1, <3>2, ObjectStored
    <3>4. [rows EXCEPT ![t.row].object = t.file][t.row].object = t.file
      BY <3>1, <3>2, ObjectStored
    <3> QED
      BY <3>1, <3>3, <3>4, Zenon
  <2>2. ASSUME NEW applied \in BOOLEAN, StageFails(t, applied), phase # "done"
        PROVE  DialogGood(dialog, transfers, rows', selections)
    BY <1>1, <2>2, RowWithoutAnswer DEF StageFails
  <2>3. ASSUME NEW applied \in BOOLEAN, PutFails(t, applied), phase # "done"
        PROVE  DialogGood(dialog, transfers, rows', selections)
    BY <1>1, <2>3, ObjectStored DEF PutFails, PutFailed
  <2> QED
    BY <1>3, <1>4, <2>1, <2>2, <2>3
<1>6. DialogGood(IF t.attached THEN [dialog EXCEPT !.phase = phase] ELSE dialog,
                 transfers \ {t}, rows', selections)
  BY <1>5, TransferOver
<1>7. DialogGood(dialog', transfers', rows', selections) /\ (Screen' # "workspace" => DialogAway')
  BY <1>4, <1>6, DialogRendered
<1> QED
  BY <1>1, <1>2, <1>7, OnUploadedList

(* The steps that leave the session's screen: nothing stays on it.         *)
LEMMA LeavingSteps ==
  ASSUME IInv,
         \/ SignOutAnswers
         \/ \E i \in DOMAIN calls : AskExpires(i)
         \/ \E t \in transfers : StageExpires(t)
  PROVE  /\ ListGood(cache', page', signedOut', session)
         /\ PanelGood(view', ask', calls', session) /\ PanelAway'
         /\ DialogGood(dialog', transfers', rows', selections) /\ DialogAway'
         /\ UNCHANGED <<session, selections, rows>> /\ signingOut' \in BOOLEAN
<1>1. /\ DialogGood(dialog, transfers, rows, selections)
      /\ PanelGood(view, ask, calls, session)
  BY DEF IInv
<1>2. LeaveSession /\ UNCHANGED <<session, selections, rows>> /\ signingOut' \in BOOLEAN
  BY DEF SignOutAnswers, AskExpires, StageExpires, IInv
<1>3. ListGood(cache', page', signedOut', session) /\ Screen' # "workspace"
  BY <1>2, LeaveSessionList
<1>4. PanelGood(view', ask', calls', session) /\ PanelAway'
  <2>1. PICK c : PanelGood("ask", NoAsk, Aborted(c), session) /\ RenderPanel(view, ask, c)
    <3>1. CASE \E i \in DOMAIN calls : AskExpires(i)
      <4>1. PICK i \in DOMAIN calls : AskExpires(i)
        BY <3>1
      <4> DEFINE c == [calls EXCEPT ![i].state = "over"]
      <4>2. "over" \in {"aborted", "over"}
        OBVIOUS
      <4>3. /\ c \in Seq(CallRecords) /\ DOMAIN c = DOMAIN calls
            /\ RenderPanel(view, ask, c)
        BY <1>1, <4>1, <4>2, CallFacts DEF AskExpires
      <4>4. PanelGood("ask", NoAsk, Aborted(c), session)
        <5> HIDE DEF c
        <5> QED
          BY <4>3, AbortedFacts, NoRecords DEF PanelGood
      <4> QED
        BY <4>3, <4>4
    <3>2. CASE SignOutAnswers \/ \E t \in transfers : StageExpires(t)
      BY <1>1, <3>2, PanelGone DEF SignOutAnswers, StageExpires, Render
    <3> QED
      BY <3>1, <3>2
  <2> QED
    BY <1>3, <2>1 DEF RenderPanel, PanelAway
<1>5. DialogGood(dialog', transfers', rows', selections) /\ DialogAway'
  <2>1. PICK ts \in SUBSET transfers : RenderDialog(dialog, ts)
    BY DEF SignOutAnswers, AskExpires, StageExpires, Render
  <2>2. dialog' = NoDialog /\ transfers' = Detached(ts) /\ rows' = rows
    BY <1>2, <1>3, <2>1 DEF RenderDialog
  <2> QED
    BY <1>1, <2>2, DialogGone DEF DialogAway
<1> QED
  BY <1>2, <1>3, <1>4, <1>5

(* The steps that render everything anew.                                  *)
LEMMA Rendered ==
  ASSUME NEW s, NEW n, PanelGood(view, ask, calls, s), DialogGood(dialog, transfers, rows, n),
         Render, UNCHANGED rows
  PROVE  /\ PanelGood(view', ask', calls', s) /\ DialogGood(dialog', transfers', rows', n)
         /\ Screen' # "workspace" => PanelAway' /\ DialogAway'
BY PanelRendered, DialogRendered DEF Render

-----------------------------------------------------------------------------
LEMMA InitInvariant == Init => IInv
<1> SUFFICES ASSUME Init
             PROVE  IInv
  OBVIOUS
<1>1. /\ 1 \in Pages /\ session = 1 /\ session \in 1 .. MaxSessions /\ faults \in 0 .. MaxFaults
      /\ [NoQuery EXCEPT !.fetching = 1] \in Queries
      /\ [NoQuery EXCEPT !.fetching = 1].data = NoData
      /\ [NoQuery EXCEPT !.fetching = 1].fetching = 1
  BY WorkspaceAssumption, NoRecords DEF Init, Pages, Queries
<1>2. ListGood(cache, page, signedOut, session)
  <2>1. PICK q \in Queries :
          /\ q.data = NoData /\ q.fetching = 1
          /\ cache = [k \in Pages |-> IF k = 1 THEN q ELSE NoQuery]
    BY <1>1 DEF Init
  <2>2. page = 1 /\ signedOut = FALSE
    BY DEF Init
  <2>3. cache \in [Pages -> Queries]
    BY <2>1, NoRecords
  <2>4. \A k \in Pages :
          /\ cache[k].data = NoData
          /\ cache[k].fetching # 0 => k = 1 /\ cache[k].fetching = 1
    BY <2>1, NoRecords
  <2>5. 1 \in Pages /\ session = 1
    BY <1>1, Zenon
  <2>6. page \in Pages
    BY <2>2, <2>5, Zenon
  <2>7. signedOut \in BOOLEAN /\ ~signedOut
    BY <2>2, Zenon
  <2>8. \A k \in Pages : cache[k].fetching # 0 => cache[k].fetching = session /\ k = page
    BY <2>2, <2>4, <2>5, Zenon
  <2> QED
    BY <2>3, <2>4, <2>6, <2>7, <2>8, Zenon DEF ListGood
<1>3. PanelGood(view, ask, calls, session)
  BY NoRecords DEF Init, PanelGood
<1>4. DialogGood(dialog, transfers, rows, selections)
  BY NoRecords DEF Init, DialogGood, WaitsFor, HasStaged, StagesOnce
<1> QED
  BY <1>1, <1>2, <1>3, <1>4 DEF Init, IInv, PanelAway, DialogAway

LEMMA NextInvariant ==
  ASSUME IInv, [Next]_vars
  PROVE  IInv'
<1>1. /\ session \in Nat /\ session \in 1 .. MaxSessions /\ signingOut \in BOOLEAN
      /\ faults \in 0 .. MaxFaults
      /\ ListGood(cache, page, signedOut, session)
      /\ PanelGood(view, ask, calls, session)
      /\ DialogGood(dialog, transfers, rows, selections)
      /\ Screen # "workspace" => PanelAway /\ DialogAway
  BY DEF IInv
<1>2. faults' \in 0 .. MaxFaults
  <2>1. Fault \/ faults' = faults
    BY DEF Next, vars, SignIn, SignOut, SignOutAnswers, SignOutFails, Refetch, FetchArrives,
        FetchFails, GoToPage, SwitchView, Ask, Cancel, AskAnswers, AskFails, AskExpires,
        OpenDialog, CloseDialog, Upload, SelectFile, StageAnswers, StageExpires, PutAnswers,
        StageFails, PutFails, PutFailed
  <2> QED
    BY <1>1, <2>1, WorkspaceAssumption DEF Fault
<1>3. CASE SignIn
  <2>1. PanelAway /\ DialogAway /\ UNCHANGED <<selections, rows, signingOut>> /\ Render
    BY <1>1, <1>3 DEF SignIn
  <2>2. PanelGood(view, ask, calls, session')
    BY <1>1, <2>1, NoRecords DEF PanelGood, PanelAway
  <2>3. /\ PanelGood(view', ask', calls', session') /\ DialogGood(dialog', transfers', rows', selections)
        /\ Screen' # "workspace" => PanelAway' /\ DialogAway'
    BY <1>1, <2>1, <2>2, Rendered
  <2> QED
    BY <1>1, <1>2, <1>3, <2>1, <2>3, SignInList DEF IInv
<1>4. CASE SignOut \/ SignOutFails \/ UNCHANGED vars
  <2>1. UNCHANGED <<session, listVars, panelVars, dialogVars, selections, rows>>
        /\ signingOut' \in BOOLEAN
    BY <1>1, <1>4 DEF SignOut, SignOutFails, vars, listVars, panelVars, dialogVars
  <2>2. Screen' = Screen
    BY <2>1, SameScreen
  <2> QED
    BY <1>1, <1>2, <2>1, <2>2 DEF IInv, listVars, panelVars, dialogVars, PanelAway, DialogAway
<1>5. CASE \/ SignOutAnswers
           \/ \E i \in DOMAIN calls : AskExpires(i)
           \/ \E t \in transfers : StageExpires(t)
  BY <1>1, <1>2, <1>5, LeavingSteps DEF IInv
<1>6. CASE \/ Refetch
           \/ \E total \in Totals : FetchArrives(total)
           \/ \E error \in {"failed", "expired"} : FetchFails(error)
           \/ \E p \in Pages : GoToPage(p)
  <2>1. UNCHANGED <<session, selections, rows, signingOut>> /\ Render
    BY <1>6 DEF Refetch, FetchArrives, FetchFails, GoToPage
  <2>2. ListGood(cache', page', signedOut', session')
    BY <1>6, FetchList
  <2>3. /\ PanelGood(view', ask', calls', session) /\ DialogGood(dialog', transfers', rows', selections)
        /\ Screen' # "workspace" => PanelAway' /\ DialogAway'
    BY <1>1, <2>1, Rendered
  <2> QED
    BY <1>1, <1>2, <2>1, <2>2, <2>3 DEF IInv
<1>7. CASE \/ \E v \in {"ask", "documents"} : SwitchView(v)
           \/ Ask \/ Cancel
           \/ \E i \in DOMAIN calls : AskAnswers(i) \/ AskFails(i)
  <2>1. UNCHANGED <<session, dialogVars, selections, rows, signingOut>>
    BY <1>7 DEF SwitchView, Ask, Cancel, AskAnswers, AskFails, CallEnds
  <2>2. /\ PanelGood(view', ask', calls', session) /\ Screen = "workspace" /\ UNCHANGED listVars
    BY <1>1, <1>7, PanelSteps
  <2>3. Screen' = "workspace"
    BY <2>2, SameScreen
  <2> QED
    BY <1>1, <1>2, <2>1, <2>2, <2>3 DEF IInv, listVars, dialogVars
<1>8. CASE \/ OpenDialog \/ CloseDialog \/ Upload
           \/ \E file \in Files \union {NoFile} : SelectFile(file)
           \/ \E t \in transfers : StageAnswers(t)
  <2>1. /\ DialogGood(dialog', transfers', rows', selections')
        /\ Screen # "workspace" => dialog' = dialog
        /\ UNCHANGED <<session, listVars, panelVars, signingOut, faults>>
    BY <1>8, DialogSteps
  <2>2. Screen' = Screen
    BY <2>1, SameScreen
  <2> QED
    BY <1>1, <1>2, <2>1, <2>2 DEF IInv, listVars, panelVars, PanelAway, DialogAway
<1>9. CASE \/ \E t \in transfers : PutAnswers(t)
           \/ \E t \in transfers, applied \in BOOLEAN : StageFails(t, applied) \/ PutFails(t, applied)
  <2>1. /\ ListGood(cache', page', signedOut', session)
        /\ DialogGood(dialog', transfers', rows', selections)
        /\ Screen' # "workspace" => DialogAway'
        /\ RenderPanel(view, ask, calls)
        /\ UNCHANGED <<session, selections, signingOut>>
    BY <1>1, <1>9, TransferSteps
  <2>2. PanelGood(view', ask', calls', session) /\ (Screen' # "workspace" => PanelAway')
    BY <1>1, <2>1, PanelRendered
  <2> QED
    BY <1>1, <1>2, <2>1, <2>2 DEF IInv
<1> QED
  BY <1>3, <1>4, <1>5, <1>6, <1>7, <1>8, <1>9 DEF Next

(* Every reachable state satisfies the invariant.                          *)
THEOREM Invariance == Spec => []IInv
BY InitInvariant, NextInvariant, PTL DEF Spec

(* Every variable has its type, and a closed dialog remembers nothing of   *)
(* what was selected in it (UploadDialog's reset).                         *)
THEOREM TypeCorrect == Spec => []TypeOK
<1>1. IInv => TypeOK
  <2> SUFFICES ASSUME IInv
               PROVE  TypeOK
    OBVIOUS
  <2>1. /\ session \in 1 .. MaxSessions /\ signedOut \in BOOLEAN /\ signingOut \in BOOLEAN
        /\ page \in Pages /\ faults \in 0 .. MaxFaults
    BY DEF IInv, ListGood
  <2>2. ASSUME NEW k \in Pages
        PROVE  /\ cache[k].data = NoData \/ cache[k].data.page = k
               /\ cache[k].error \in {"none", "failed", "expired"}
               /\ cache[k].fetching \in 0 .. session
               /\ cache[k].fetching # 0 => k = page /\ ~signedOut
    <3>1. cache[k] \in Queries
      BY DEF IInv, ListGood
    <3> QED
      BY <2>1, <3>1 DEF IInv, ListGood, Queries
  <2>3. /\ view \in {"ask", "documents"}
        /\ ask.submitted \in 0 .. Len(calls) /\ ask.answer \in 0 .. Len(calls)
    <3>1. ask.submitted \in Nat /\ Len(calls) \in Nat
      BY DEF IInv, PanelGood, Asks
    <3> QED
      BY <3>1 DEF IInv, PanelGood
  <2>4. \A i \in DOMAIN calls : calls[i].state \in {"open", "aborted", "over"}
    <3>1. \A i \in DOMAIN calls : calls[i] \in CallRecords
      BY DEF IInv, PanelGood
    <3> QED
      BY <3>1 DEF CallRecords
  <2>5. /\ dialog.phase \in {"idle", "preparing", "uploading", "done"}
        /\ ~dialog.open => dialog = NoDialog
    BY DEF IInv, DialogGood, WaitsFor, Dialogs
  <2>6. \A t \in transfers : t.row \in 0 .. Len(rows)
    <3>1. /\ \A t \in transfers : t.row \in Nat /\ (t.row # 0 => t.row \in DOMAIN rows)
          /\ DOMAIN rows = 1 .. Len(rows) /\ Len(rows) \in Nat
      BY DEF IInv, DialogGood, StagesOnce, Transfers
    <3> QED
      BY <3>1
  <2> QED
    BY <2>1, <2>2, <2>3, <2>4, <2>5, <2>6 DEF TypeOK
<1> QED
  BY Invariance, <1>1, PTL

(* No answer of a cancelled, replaced or abandoned question is ever shown, *)
(* in whatever order answers, sign-outs and sign-ins come (AskWorkspace).  *)
THEOREM AnswersAreCurrent == Spec => []AnswerIsCurrent
<1>1. IInv => AnswerIsCurrent
  BY DEF IInv, PanelGood, AnswerIsCurrent
<1> QED
  BY Invariance, <1>1, PTL

(* The panel and the dialog are busy exactly while a call of theirs is     *)
(* under way (pending of AskWorkspace, phase of UploadDialog).             *)
THEOREM NoStuckSpinner == Spec => []BusyIsHonest
<1>1. IInv => BusyIsHonest
  <2> SUFFICES ASSUME IInv
               PROVE  BusyIsHonest
    OBVIOUS
  <2>1. ask.pending => \E i \in DOMAIN calls : calls[i].state = "open"
    <3>1. calls \in Seq(CallRecords) /\ ask \in Asks /\ PanelGood(view, ask, calls, session)
      BY DEF IInv, PanelGood
    <3>2. ask.pending => Len(calls) # 0 /\ calls[Len(calls)].state = "open"
      BY DEF IInv, PanelGood
    <3>3. Len(calls) # 0 => Len(calls) \in DOMAIN calls
      BY <3>1
    <3> QED
      BY <3>2, <3>3
  <2>2. (\E i \in DOMAIN calls : calls[i].state = "open") => ask.pending
    BY DEF IInv, PanelGood
  <2>3. DialogPending <=> \E t \in transfers : t.attached
    BY DEF IInv, DialogGood, WaitsFor, DialogPending
  <2> QED
    BY <2>1, <2>2, <2>3 DEF BusyIsHonest
<1> QED
  BY Invariance, <1>1, PTL

(* A row gets no file but its own, and a selection is staged under one     *)
(* answered row, whatever is retried, closed or left (UploadDialog).       *)
THEOREM RowsAreKept == Spec => []RowsKeepTheirFile
<1>1. IInv => RowsKeepTheirFile
  BY DEF IInv, DialogGood, StagesOnce, RowsKeepTheirFile
<1> QED
  BY Invariance, <1>1, PTL

(* "Uploaded successfully" is said of a stored file (UploadDialog.upload). *)
THEOREM DoneIsStored == Spec => []DoneMeansStored
<1>1. IInv => DoneMeansStored
  BY DEF IInv, DialogGood, HasStaged, DoneMeansStored
<1> QED
  BY Invariance, <1>1, PTL

(* A settled list is the page asked for, of the session the tab is in.     *)
THEOREM ListIsCurrent == Spec => []SettledListIsCurrent
<1>1. IInv => SettledListIsCurrent
  BY DEF IInv, ListGood, SettledListIsCurrent, ListPending, Shown, Current
<1> QED
  BY Invariance, <1>1, PTL
===============================================================================
