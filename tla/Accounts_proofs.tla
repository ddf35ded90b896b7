--------------------------- MODULE Accounts_proofs ---------------------------
(***************************************************************************)
(* Proofs about Accounts, for any names, passwords, settings, lifetimes    *)
(* and clock errors, and any number of registrations, sessions, restarts   *)
(* and faults.                                                             *)
(***************************************************************************)
EXTENDS Accounts, SequenceTheorems, TLAPS

CallRecords == [step : RegSteps, name : Names, password : Passwords, settings : Settings]

AccessTokens == [exp : Int, key : Keys, signedAt : Times]

SessionRecords ==
  [user : Names, live : BOOLEAN, secret : {s.secret : s \in Settings}, held : BOOLEAN,
   vouched : Times \cup {Never}, endedAt : Times \cup {Never}, token : AccessTokens]

Text(call) == call.password \o call.settings.pepper

(* A row belongs to the call whose salt it has, and holds that call's      *)
(* password under that call's settings.                                    *)
RowOK(n) ==
  LET r == users[n].salt
  IN /\ r \in Calls
     /\ reg[r].name = n
     /\ n \notin InvalidNames
     /\ reg[r].step \in {"created", "failed"}
     /\ users[n].params = reg[r].settings.params
     /\ users[n].hash = <<Text(reg[r]), r, users[n].params>>

(* What a call was told is true; one under way sees the settings in force. *)
CallOK(r) ==
  /\ reg[r].step = "checked" =>
       reg[r].settings = settings /\ reg[r].name \notin InvalidNames
  /\ reg[r].step = "created" =>
       reg[r].name \in Registered /\ users[reg[r].name].salt = r
  /\ reg[r].step = "conflict" => reg[r].name \in Registered

RowsOK == \A n \in Registered : RowOK(n)
CallsOK == \A r \in Calls : CallOK(r)

(* A token is signed for its lifetime less what truncation takes.          *)
TokenOK(t) ==
  t.key = PublicKey =>
    /\ t.signedAt <= clock
    /\ t.exp <= t.signedAt + TTL
    /\ t.signedAt + TTL - (Second - 1) <= t.exp

(* A request vouched for a session before the session ended, and signs no  *)
(* later than RequestTime after that.                                      *)
SessionOK(s) ==
  /\ TokenOK(s.token)
  /\ s.live => s.endedAt = Never
  /\ s.vouched # Never => s.vouched <= clock /\ clock <= s.vouched + RequestTime
  /\ s.vouched # Never /\ s.endedAt # Never => s.vouched <= s.endedAt
  /\ s.token.key = PublicKey /\ s.endedAt # Never => s.token.signedAt <= s.endedAt + RequestTime

SessionsOK == \A i \in Sids : SessionOK(sessions[i])

IInv == TypeOK /\ RowsOK /\ CallsOK /\ SessionsOK

-----------------------------------------------------------------------------
(* Updating one element of a sequence.                                     *)
LEMMA UpdateSeq ==
  ASSUME NEW S, NEW s \in Seq(S), NEW i \in DOMAIN s, NEW e \in S
  PROVE  /\ [s EXCEPT ![i] = e] \in Seq(S)
         /\ DOMAIN [s EXCEPT ![i] = e] = DOMAIN s
         /\ [s EXCEPT ![i] = e][i] = e
         /\ \A j \in DOMAIN s : j # i => [s EXCEPT ![i] = e][j] = s[j]
BY ExceptSeq, LenProperties

(* Adding one to its end.                                                  *)
LEMMA AppendSeq ==
  ASSUME NEW S, NEW s \in Seq(S), NEW e \in S
  PROVE  /\ Append(s, e) \in Seq(S)
         /\ DOMAIN Append(s, e) = DOMAIN s \cup {Len(s) + 1}
         /\ Len(s) + 1 \notin DOMAIN s
         /\ Append(s, e)[Len(s) + 1] = e
         /\ \A j \in DOMAIN s : Append(s, e)[j] = s[j]
BY LenProperties

(* Replacing every element of it.                                          *)
LEMMA MapSeq ==
  ASSUME NEW S, NEW s \in Seq(S), NEW t, DOMAIN t = DOMAIN s, t = [i \in DOMAIN s |-> t[i]],
         \A i \in DOMAIN s : t[i] \in S
  PROVE  t \in Seq(S)
<1>1. Len(s) \in Nat /\ DOMAIN s = 1 .. Len(s)
  BY LenProperties
<1>2. t \in [1 .. Len(s) -> S]
  BY <1>1
<1> QED
  BY <1>1, <1>2, SeqDef

LEMMA Elements ==
  ASSUME NEW S, NEW s \in Seq(S), NEW i \in DOMAIN s
  PROVE  s[i] \in S
BY LenProperties

(* The time of issue loses less than a second.                             *)
LEMMA Truncation ==
  ASSUME NEW t \in Nat
  PROVE  t % Second \in 0 .. Second - 1
BY AccountsAssumption

(* Other texts give other keys.                                            *)
LEMMA KeysDiffer ==
  ASSUME NEW t, NEW u, NEW salt, NEW params
  PROVE  IDKey(t, salt, params) = IDKey(u, salt, params) <=> t = u
BY DEF IDKey

(* What Hash stores.                                                       *)
LEMMA HashFields ==
  ASSUME NEW password, NEW salt
  PROVE  /\ Hash(password, salt).salt = salt
         /\ Hash(password, salt).params = settings.params
         /\ Hash(password, salt).hash =
              IDKey(password \o settings.pepper, salt, settings.params)
BY DEF Hash

LEMMA InitIInv == Init => IInv
<1> SUFFICES ASSUME Init PROVE IInv
  OBVIOUS
<1>1. users = <<>> /\ Registered = {} /\ Calls = {} /\ Sids = {}
  BY DEF Init, Registered, Calls, Sids
<1>2. TypeOK
  BY <1>1, AccountsAssumption DEF Init, TypeOK, Times
<1> QED
  BY <1>1, <1>2 DEF IInv, RowsOK, CallsOK, SessionsOK

-----------------------------------------------------------------------------
(* Registrations and sessions do not touch each other.                     *)
LEMMA SessionsKept ==
  ASSUME IInv, UNCHANGED <<sessions, clock>>
  PROVE  SessionsOK'
BY DEF IInv, SessionsOK, SessionOK, TokenOK, Sids

LEMMA AccountsKept ==
  ASSUME IInv, UNCHANGED <<settings, users, reg>>
  PROVE  RowsOK' /\ CallsOK'
BY DEF IInv, RowsOK, RowOK, CallsOK, CallOK, Calls, Registered

LEMMA RegisterSafe ==
  ASSUME IInv, NEW n \in Names, NEW p \in Passwords, Register(n, p)
  PROVE  IInv'
<1> DEFINE call ==
      [step |-> IF ~ValidInput(n, p) THEN "invalid"
                ELSE IF n \in Registered THEN "conflict" ELSE "checked",
       name |-> n, password |-> p, settings |-> settings]
<1>1. call \in CallRecords /\ reg \in Seq(CallRecords)
  BY DEF IInv, TypeOK, CallRecords, RegSteps
<1>2. reg' = Append(reg, call)
  BY DEF Register
<1> HIDE DEF call
<1>3. PICK new :
        /\ reg' \in Seq(CallRecords)
        /\ Calls' = Calls \cup {new}
        /\ new \notin Calls
        /\ reg'[new] = call
        /\ \A r \in Calls : reg'[r] = reg[r]
  BY <1>1, <1>2, AppendSeq DEF Calls
<1>4. UNCHANGED <<settings, users, Registered, sessions, clock, restarts, faults>>
  BY DEF Register, Registered
<1>5. TypeOK'
  BY <1>3, <1>4 DEF IInv, TypeOK, CallRecords
<1>6. RowsOK'
  BY <1>3, <1>4 DEF IInv, RowsOK, RowOK
<1>7. CallsOK'
  <2>1. CallOK(new)'
    BY <1>3, <1>4 DEF CallOK, call, ValidInput
  <2> QED
    BY <1>3, <1>4, <2>1 DEF IInv, CallsOK, CallOK
<1> QED
  BY <1>4, <1>5, <1>6, <1>7, SessionsKept DEF IInv

(* A call under way ends, with or without its row.                         *)
LEMMA CallEnds ==
  ASSUME IInv, NEW r \in Calls, NEW step \in {"created", "failed", "conflict"},
         reg[r].step = "checked", Step(r, step),
         UNCHANGED <<settings, sessions, clock, restarts>>, faults' \in 0 .. MaxFaults,
         \/ /\ users' = users
            /\ step # "created"
            /\ step = "conflict" => reg[r].name \in Registered
         \/ step # "conflict" /\ reg[r].name \notin Registered /\ Insert(r)
  PROVE  IInv'
<1>1. reg \in Seq(CallRecords) /\ reg[r] \in CallRecords
  BY Elements DEF IInv, TypeOK, CallRecords, Calls
<1> DEFINE call == [reg[r] EXCEPT !.step = step]
<1>2. /\ call \in CallRecords /\ call.step = step /\ call.name = reg[r].name
      /\ call.password = reg[r].password /\ call.settings = reg[r].settings
  BY <1>1 DEF CallRecords, RegSteps
<1>3. reg' = [reg EXCEPT ![r] = call]
  BY DEF Step
<1> HIDE DEF call
<1>4. /\ reg' \in Seq(CallRecords)
      /\ Calls' = Calls
      /\ reg'[r] = call
      /\ \A q \in Calls : q # r => reg'[q] = reg[q]
  BY <1>1, <1>2, <1>3, UpdateSeq DEF Calls
<1>5. reg[r].settings = settings /\ reg[r].name \notin InvalidNames
  BY DEF IInv, CallsOK, CallOK
<1>6. \A n \in Registered : users[n].salt \in Calls /\ users[n].salt # r
  BY DEF IInv, RowsOK, RowOK
<1>7. CASE users' = users /\ step # "created" /\ (step = "conflict" => reg[r].name \in Registered)
  <2>1. Registered' = Registered
    BY <1>7 DEF Registered
  <2>2. TypeOK'
    BY <1>4, <1>7, <2>1 DEF IInv, TypeOK, CallRecords
  <2>3. RowsOK'
    BY <1>4, <1>6, <1>7, <2>1 DEF IInv, RowsOK, RowOK
  <2>4. CallsOK'
    BY <1>2, <1>4, <1>7, <2>1 DEF IInv, CallsOK, CallOK
  <2> QED
    BY <2>2, <2>3, <2>4, SessionsKept DEF IInv
<1>8. CASE step # "conflict" /\ reg[r].name \notin Registered /\ Insert(r)
  <2>1. PICK name \in Names :
        /\ name = reg[r].name
        /\ Registered' = Registered \cup {name}
        /\ users'[name] = Hash(reg[r].password, r)
        /\ \A n \in Registered : users'[n] = users[n]
    BY <1>1, <1>8 DEF Insert, Registered, CallRecords
  <2>2. users'[name].salt = r
    BY <2>1 DEF Hash
  <2>3. TypeOK'
    BY <1>4, <1>6, <2>1, <2>2 DEF IInv, TypeOK, CallRecords
  <2>4. RowsOK'
    <3>1. ASSUME NEW n \in Registered
          PROVE  RowOK(n)'
      BY <1>4, <1>6, <2>1 DEF IInv, RowsOK, RowOK
    <3>2. RowOK(name)'
      <4>1. Text(reg'[r]) = reg[r].password \o settings.pepper
        BY <1>2, <1>4, <1>5 DEF Text
      <4>2. /\ users'[name].params = settings.params
            /\ users'[name].hash = <<Text(reg'[r]), r, settings.params>>
        <5>1. users'[name].params = settings.params
          BY <2>1 DEF Hash
        <5>2. users'[name].hash = IDKey(reg[r].password \o settings.pepper, r, settings.params)
          BY <2>1, HashFields
        <5> QED
          BY <4>1, <5>1, <5>2 DEF IDKey
      <4>3. reg'[r].step \in {"created", "failed"} /\ reg'[r].name = name
        BY <1>2, <1>4, <1>8, <2>1
      <4>4. reg'[r].settings = settings
        BY <1>2, <1>4, <1>5
      <4> QED
        BY <1>4, <1>5, <2>1, <2>2, <4>2, <4>3, <4>4 DEF RowOK
    <3> QED
      BY <2>1, <3>1, <3>2 DEF RowsOK
  <2>5. CallsOK'
    BY <1>2, <1>4, <1>8, <2>1, <2>2 DEF IInv, CallsOK, CallOK
  <2> QED
    BY <2>3, <2>4, <2>5, SessionsKept DEF IInv
<1> QED
  BY <1>7, <1>8

LEMMA CreateSafe ==
  ASSUME IInv, NEW r \in Calls, Create(r) \/ RegisterFails(r)
  PROVE  IInv'
<1>1. faults' \in 0 .. MaxFaults
  BY AccountsAssumption DEF IInv, TypeOK, Create, RegisterFails, Fault
<1>2. CASE Create(r) /\ reg[r].name \in Registered
  BY <1>1, <1>2, CallEnds DEF Create
<1>3. CASE Create(r) /\ reg[r].name \notin Registered
  BY <1>1, <1>3, CallEnds DEF Create
<1>4. CASE RegisterFails(r)
  BY <1>1, <1>4, CallEnds DEF RegisterFails
<1> QED
  BY <1>2, <1>3, <1>4

-----------------------------------------------------------------------------
(* One session goes on, the others stay.                                   *)
LEMMA SessionMoves ==
  ASSUME IInv, NEW sid \in Sids, NEW s \in SessionRecords, SessionOK(s),
         sessions' = [sessions EXCEPT ![sid] = s],
         UNCHANGED <<settings, users, reg, clock, restarts>>, faults' \in 0 .. MaxFaults
  PROVE  IInv'
<1>1. sessions \in Seq(SessionRecords)
  BY DEF IInv, TypeOK, SessionRecords, AccessTokens
<1>2. /\ sessions' \in Seq(SessionRecords)
      /\ Sids' = Sids
      /\ sessions'[sid] = s
      /\ \A i \in Sids : i # sid => sessions'[i] = sessions[i]
  BY <1>1, UpdateSeq DEF Sids
<1>3. TypeOK'
  BY <1>2 DEF IInv, TypeOK, SessionRecords, AccessTokens, Calls, Registered
<1>4. SessionsOK'
  BY <1>2 DEF IInv, SessionsOK, SessionOK, TokenOK
<1> QED
  BY <1>3, <1>4, AccountsKept DEF IInv

LEMMA SigninSafe ==
  ASSUME IInv, NEW n \in Names, NEW p \in Passwords, Signin(n, p)
  PROVE  IInv'
<1> DEFINE s == [user |-> n, live |-> TRUE, secret |-> settings.secret, held |-> FALSE,
                 vouched |-> clock, endedAt |-> Never, token |-> NoToken]
<1>1. sessions \in Seq(SessionRecords) /\ s \in SessionRecords
  BY AccountsAssumption
  DEF IInv, TypeOK, SessionRecords, AccessTokens, NoToken, Keys, Times
<1>2. SessionOK(s)
  BY AccountsAssumption DEF IInv, TypeOK, SessionOK, TokenOK, NoToken, Times
<1>3. sessions' = Append(sessions, s)
  BY DEF Signin
<1> HIDE DEF s
<1>4. PICK new :
        /\ sessions' \in Seq(SessionRecords)
        /\ Sids' = Sids \cup {new}
        /\ sessions'[new] = s
        /\ \A i \in Sids : sessions'[i] = sessions[i]
  BY <1>1, <1>3, AppendSeq DEF Sids
<1>5. UNCHANGED <<settings, users, reg, clock, restarts, faults>>
  BY DEF Signin
<1>6. TypeOK'
  BY <1>4, <1>5 DEF IInv, TypeOK, SessionRecords, AccessTokens, Calls, Registered
<1>7. SessionsOK'
  BY <1>2, <1>4, <1>5 DEF IInv, SessionsOK, SessionOK, TokenOK
<1> QED
  BY <1>5, <1>6, <1>7, AccountsKept DEF IInv

LEMMA SignOK ==
  ASSUME IInv
  PROVE  /\ Sign \in AccessTokens
         /\ TokenOK(Sign)
         /\ Sign.signedAt = clock
<1>1. clock \in Nat /\ clock \in Times
  BY DEF IInv, TypeOK, Times
<1>2. clock % Second \in 0 .. Second - 1
  BY <1>1, Truncation
<1>3. settings.key \in Keys
  BY DEF IInv, TypeOK, Keys
<1> QED
  BY <1>1, <1>2, <1>3, AccountsAssumption, SMTT(30) DEF Sign, TokenOK, AccessTokens

LEMMA SessionSafe ==
  ASSUME IInv, NEW sid \in Sids,
         Issue(sid) \/ IssueFails(sid) \/ Refresh(sid) \/ Signout(sid)
  PROVE  IInv'
<1> DEFINE s == sessions[sid]
<1>1. s \in SessionRecords
  BY Elements DEF IInv, TypeOK, SessionRecords, AccessTokens, Sids
<1>2. SessionOK(s)
  BY DEF IInv, SessionsOK
<1>3. clock \in Times /\ RequestTime \in Nat
  BY AccountsAssumption DEF IInv, TypeOK
<1>4. faults' \in 0 .. MaxFaults /\ UNCHANGED <<settings, users, reg, clock, restarts>>
  BY AccountsAssumption DEF IInv, TypeOK, Issue, IssueFails, Refresh, Signout, Fault
<1>5. CASE Issue(sid)
  <2> DEFINE t == [s EXCEPT !.token = Sign, !.held = TRUE, !.vouched = Never]
  <2>1. sessions' = [sessions EXCEPT ![sid] = t]
    BY <1>5 DEF Issue
  <2>2. t \in SessionRecords
    BY <1>1, SignOK DEF SessionRecords
  <2>3. SessionOK(t)
    BY <1>1, <1>2, <1>3, <1>5, SignOK
    DEF Issue, SessionOK, SessionRecords, AccessTokens, Times, Never
  <2> QED
    BY <1>4, <2>1, <2>2, <2>3, SessionMoves
<1>6. CASE IssueFails(sid)
  <2> DEFINE t == [s EXCEPT !.vouched = Never]
  <2>1. sessions' = [sessions EXCEPT ![sid] = t]
    BY <1>6 DEF IssueFails
  <2>2. t \in SessionRecords /\ SessionOK(t)
    BY <1>1, <1>2 DEF SessionRecords, SessionOK
  <2> QED
    BY <1>4, <2>1, <2>2, SessionMoves
<1>7. CASE Refresh(sid)
  <2> DEFINE t == [s EXCEPT !.held = FALSE, !.vouched = clock]
  <2>1. sessions' = [sessions EXCEPT ![sid] = t]
    BY <1>7 DEF Refresh
  <2>2. t \in SessionRecords
    BY <1>1, <1>3 DEF SessionRecords
  <2>3. SessionOK(t)
    BY <1>1, <1>2, <1>3, <1>7 DEF Refresh, SessionOK, SessionRecords, Times, Never
  <2> QED
    BY <1>4, <2>1, <2>2, <2>3, SessionMoves
<1>8. CASE Signout(sid)
  <2> DEFINE t == [s EXCEPT !.live = FALSE, !.endedAt = clock]
  <2>1. sessions' = [sessions EXCEPT ![sid] = t]
    BY <1>8 DEF Signout
  <2>2. t \in SessionRecords
    BY <1>1, <1>3 DEF SessionRecords
  <2>3. SessionOK(t)
    BY <1>1, <1>2, <1>3, <1>8
    DEF Signout, SessionOK, TokenOK, SessionRecords, AccessTokens, Times, Never
  <2> QED
    BY <1>4, <2>1, <2>2, <2>3, SessionMoves
<1> QED
  BY <1>5, <1>6, <1>7, <1>8

-----------------------------------------------------------------------------
LEMMA RestartSafe ==
  ASSUME IInv, NEW conf \in Settings, Restart(conf)
  PROVE  IInv'
<1>1. reg \in Seq(CallRecords) /\ sessions \in Seq(SessionRecords)
  BY DEF IInv, TypeOK, CallRecords, SessionRecords, AccessTokens
<1>2. /\ reg' = [r \in Calls |->
           IF reg[r].step = "checked" THEN [reg[r] EXCEPT !.step = "failed"] ELSE reg[r]]
      /\ sessions' = [i \in Sids |-> [sessions[i] EXCEPT !.vouched = Never]]
      /\ settings' = conf /\ UNCHANGED <<users, clock, faults>>
      /\ restarts' \in 0 .. MaxRestarts
  BY AccountsAssumption DEF Restart, IInv, TypeOK
<1>3. ASSUME NEW r \in Calls
      PROVE  /\ reg'[r] \in CallRecords
             /\ reg'[r].step # "checked"
             /\ reg[r].step # "checked" => reg'[r] = reg[r]
             /\ reg'[r].step \in {"created", "conflict"} => reg'[r] = reg[r]
  <2>1. reg[r] \in CallRecords
    BY <1>1, Elements DEF Calls
  <2> QED
    BY <1>2, <2>1 DEF CallRecords, RegSteps
<1>4. ASSUME NEW i \in Sids
      PROVE  sessions'[i] \in SessionRecords /\ SessionOK(sessions'[i])
  <2>1. sessions[i] \in SessionRecords /\ SessionOK(sessions[i])
    BY <1>1, Elements DEF Sids, IInv, SessionsOK
  <2> QED
    BY <1>2, <2>1 DEF SessionRecords, SessionOK
<1>5. Calls' = Calls /\ Sids' = Sids /\ Registered' = Registered
  BY <1>2 DEF Calls, Sids, Registered
<1>6. reg' \in Seq(CallRecords)
  <2>1. DOMAIN reg' = DOMAIN reg /\ reg' = [r \in DOMAIN reg |-> reg'[r]]
    BY <1>2 DEF Calls
  <2> QED
    BY <1>1, <1>3, <2>1, MapSeq DEF Calls
<1>7. sessions' \in Seq(SessionRecords)
  <2>1. DOMAIN sessions' = DOMAIN sessions /\ sessions' = [i \in DOMAIN sessions |-> sessions'[i]]
    BY <1>2 DEF Sids
  <2> QED
    BY <1>1, <1>4, <2>1, MapSeq DEF Sids
<1>8. TypeOK'
  BY <1>2, <1>5, <1>6, <1>7
  DEF IInv, TypeOK, CallRecords, SessionRecords, AccessTokens
<1>9. RowsOK'
  BY <1>2, <1>3, <1>5 DEF IInv, RowsOK, RowOK
<1>10. CallsOK'
  BY <1>2, <1>3, <1>5 DEF IInv, CallsOK, CallOK
<1>11. SessionsOK'
  BY <1>2, <1>4, <1>5 DEF SessionsOK, SessionOK, TokenOK
<1> QED
  BY <1>8, <1>9, <1>10, <1>11 DEF IInv

LEMMA TickSafe ==
  ASSUME IInv, Tick
  PROVE  IInv'
<1>1. clock \in Times /\ clock' = clock + 1 /\ clock' \in Times
  BY AccountsAssumption DEF Tick, IInv, TypeOK, Times
<1>2. UNCHANGED <<settings, users, reg, sessions, restarts, faults>>
  BY DEF Tick
<1>3. TypeOK'
  BY <1>1, <1>2 DEF IInv, TypeOK, Calls, Registered
<1>4. SessionsOK'
  <2> SUFFICES ASSUME NEW i \in Sids PROVE SessionOK(sessions[i])'
    BY <1>2 DEF SessionsOK, Sids
  <2>1. sessions[i] \in SessionRecords
    BY Elements DEF IInv, TypeOK, SessionRecords, AccessTokens, Sids
  <2>2. SessionOK(sessions[i])
    BY DEF IInv, SessionsOK
  <2>3. sessions[i].vouched # Never => clock < sessions[i].vouched + RequestTime
    BY DEF Tick
  <2> QED
    BY <1>1, <1>2, <2>1, <2>2, <2>3, AccountsAssumption, SMTT(30)
    DEF SessionOK, TokenOK, SessionRecords, AccessTokens, Times, Never
<1> QED
  BY <1>2, <1>3, <1>4, AccountsKept DEF IInv

(* Every reachable state satisfies the inductive invariant.                *)
THEOREM Invariance == Spec => []IInv
<1>1. ASSUME IInv, [Next]_vars
      PROVE  IInv'
  <2>1. CASE UNCHANGED vars
    BY <1>1, <2>1, SessionsKept, AccountsKept
    DEF vars, IInv, TypeOK, Calls, Registered
  <2>2. CASE Next
    BY <1>1, <2>2, RegisterSafe, CreateSafe, SigninSafe, SessionSafe, RestartSafe, TickSafe
    DEF Next
  <2> QED
    BY <1>1, <2>1, <2>2
<1> QED
  BY InitIInv, <1>1, PTL DEF Spec

-----------------------------------------------------------------------------
(* Every variable keeps its type, and every row belongs to a call of       *)
(* Register.                                                               *)
THEOREM TypeCorrect == Spec => []TypeOK
BY Invariance, PTL DEF IInv

(* A name is created for one call, Conflict is answered only for a taken   *)
(* name, and every account has its valid call: Register checks Exists      *)
(* before it inserts, and the UNIQUE constraint decides the rest.          *)
THEOREM RegistrationIsHonest == Spec => []RegistrationsAreHonest
<1>1. IInv => RegistrationsAreHonest
  BY DEF IInv, RowsOK, RowOK, CallsOK, CallOK, RegistrationsAreHonest
<1> QED
  BY Invariance, <1>1, PTL

(* Whoever was told that the account was created signs in with that        *)
(* password and no other, whatever the settings have become, as long as    *)
(* the pepper is the same: Verify reads the parameters from the row.       *)
THEOREM PasswordsKeepWorking == Spec => []RegisteredPasswordWorks
<1>1. ASSUME IInv, NEW r \in Calls, NEW p \in Passwords,
             reg[r].step = "created", reg[r].settings.pepper = settings.pepper,
             WithinLimits(reg[r].settings.params)
      PROVE  Opens(reg[r].name, p) <=> p = reg[r].password
  <2> DEFINE row == users[reg[r].name]
             kept == reg[r].password \o settings.pepper
             tried == p \o settings.pepper
  <2>1. reg[r].name \in Registered /\ row.salt = r
    BY <1>1 DEF IInv, CallsOK, CallOK
  <2>2. row.params = reg[r].settings.params /\ row.hash = <<Text(reg[r]), r, row.params>>
    BY <1>1, <2>1 DEF IInv, RowsOK, RowOK
  <2>3. Text(reg[r]) = kept
    BY <1>1 DEF Text
  <2>4. reg[r] \in CallRecords /\ settings \in Settings
    BY <1>1, Elements DEF IInv, TypeOK, CallRecords, Calls
  <2>5. tried = kept <=> p = reg[r].password
    <3>1. /\ p \in Seq(Characters) /\ reg[r].password \in Seq(Characters)
          /\ settings.pepper \in Seq(Characters)
      BY <2>4, AccountsAssumption DEF CallRecords
    <3> QED
      BY <3>1, ConcatSimplifications
  <2>6. Verify(p, row) <=> IDKey(tried, r, row.params) = row.hash
    BY <1>1, <2>1, <2>2 DEF Verify
  <2> HIDE DEF kept, tried
  <2>7. IDKey(tried, r, row.params) = row.hash <=> tried = kept
    <3>1. row.hash = IDKey(Text(reg[r]), r, row.params)
      BY <2>2 DEF IDKey
    <3> QED
      BY <2>3, <3>1, KeysDiffer
  <2> QED
    BY <2>1, <2>5, <2>6, <2>7 DEF Opens
<1>2. IInv => RegisteredPasswordWorks
  BY <1>1 DEF RegisteredPasswordWorks
<1> QED
  BY Invariance, <1>2, PTL

(* No token is accepted later than its lifetime and the skew after it was  *)
(* signed, nor, once its session was signed out, later than that and one   *)
(* request's time after the sign-out.                                      *)
THEOREM AccessEnds == Spec => []AccessEndsAfterSignout
<1>1. ASSUME IInv, NEW sid \in Sids, NEW now \in VerifierTimes,
             Accepts(sessions[sid].token, now)
      PROVE  /\ clock < sessions[sid].token.signedAt + TTL + Skew
             /\ sessions[sid].endedAt # Never =>
                  clock < sessions[sid].endedAt + RequestTime + TTL + Skew
  <2>1. sessions[sid] \in SessionRecords
    BY <1>1, Elements DEF IInv, TypeOK, SessionRecords, AccessTokens, Sids
  <2>2. SessionOK(sessions[sid]) /\ clock \in Times
    BY <1>1 DEF IInv, TypeOK, SessionsOK
  <2>3. PICK d \in -Skew .. Skew : now = clock + d
    BY <1>1 DEF VerifierTimes
  <2> DEFINE t == sessions[sid].token
             ended == sessions[sid].endedAt
  <2>4. /\ t.signedAt \in Nat /\ t.exp \in Int
        /\ ended # Never => ended \in Nat
        /\ clock \in Nat
    BY <2>1, <2>2 DEF SessionRecords, AccessTokens, Times
  <2>5. /\ t.exp <= t.signedAt + TTL
        /\ ended # Never => t.signedAt <= ended + RequestTime
        /\ clock + d < t.exp
    BY <1>1, <2>2, <2>3 DEF Accepts, SessionOK, TokenOK
  <2> HIDE DEF t, ended
  <2>6. clock < t.signedAt + TTL + Skew
    BY <2>3, <2>4, <2>5, AccountsAssumption, SMTT(30)
  <2>7. ended # Never => clock < ended + RequestTime + TTL + Skew
    BY <2>4, <2>5, <2>6, AccountsAssumption, SMTT(30)
  <2> QED
    BY <2>6, <2>7 DEF t, ended
<1>2. IInv => AccessEndsAfterSignout
  BY <1>1 DEF AccessEndsAfterSignout
<1> QED
  BY Invariance, <1>2, PTL

(* A token signed with the verifiers' key is good for its lifetime less a  *)
(* second and the skew, wherever in a second it was signed.                *)
THEOREM TokensAreGood == Spec => []FreshTokensWork
<1>1. ASSUME IInv, NEW sid \in Sids, NEW now \in VerifierTimes,
             sessions[sid].token.key = PublicKey,
             clock < sessions[sid].token.signedAt + TTL - (Second - 1) - Skew
      PROVE  Accepts(sessions[sid].token, now)
  <2>1. sessions[sid] \in SessionRecords
    BY <1>1, Elements DEF IInv, TypeOK, SessionRecords, AccessTokens, Sids
  <2>2. SessionOK(sessions[sid]) /\ clock \in Times
    BY <1>1 DEF IInv, TypeOK, SessionsOK
  <2>3. PICK d \in -Skew .. Skew : now = clock + d
    BY <1>1 DEF VerifierTimes
  <2> QED
    BY <1>1, <2>1, <2>2, <2>3, AccountsAssumption, SMTT(30)
    DEF Accepts, SessionOK, TokenOK, SessionRecords, AccessTokens, Times
<1>2. IInv => FreshTokensWork
  BY <1>1 DEF FreshTokensWork
<1> QED
  BY Invariance, <1>2, PTL
=============================================================================
