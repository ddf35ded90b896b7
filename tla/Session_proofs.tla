---------------------------- MODULE Session_proofs ----------------------------
(***************************************************************************)
(* Session for any number of tabs, calls, sessions, expiries and faults:   *)
(* rotation leaves one usable token, and a sign-out is final.              *)
(***************************************************************************)
EXTENDS Session, TLAPS

-----------------------------------------------------------------------------
(* The inductive invariant.  No token is newer than its row; an answer     *)
(* under way carries the row's current token, and every other copy of a    *)
(* token of that session is older; two answers are for two sessions; and a *)
(* session that was signed out has no row and no cookie.                   *)
Known(k) ==
  k # NoToken => k.sid <= opened /\ (sessions[k.sid] # 0 => k.gen <= sessions[k.sid])

TokensKnown ==
  /\ \A s \in Sids : s > opened => sessions[s] = 0
  /\ Known(jar.token)
  /\ \A t \in Tabs : Known(refresh[t].token) /\ Known(signout[t].token) /\ Known(signin[t])

Older(k, a) == k.sid = a.sid => k.gen < a.gen

Outdated(a) ==
  /\ Older(jar.token, a)
  /\ \A u \in Tabs :
       /\ refresh[u].step # "granted" => Older(refresh[u].token, a)
       /\ Older(signout[u].token, a)

AnswersCurrent ==
  \A t \in Tabs :
    /\ refresh[t].step = "granted" =>
         Live(refresh[t].token) /\ Outdated(refresh[t].token)
    /\ signin[t] # NoToken => Live(signin[t]) /\ Outdated(signin[t])

AnswersDistinct ==
  \A t, u \in Tabs :
    /\ refresh[t].step = "granted" /\ refresh[u].step = "granted"
       /\ refresh[t].token.sid = refresh[u].token.sid => t = u
    /\ signin[t] # NoToken /\ signin[t].sid = signin[u].sid => t = u
    /\ refresh[t].step = "granted" => refresh[t].token.sid # signin[u].sid

SignedOutGone ==
  /\ \A t \in Tabs : signout[t].step = "revoked" => sessions[signout[t].token.sid] = 0
  /\ \A s \in signedOut : s <= opened /\ sessions[s] = 0 /\ jar.token.sid # s

StepsOK ==
  \A t \in Tabs :
    /\ refresh[t].step = "read" => refresh[t].token # NoToken
    /\ signout[t].step \in {"read", "revoked"} => signout[t].token # NoToken

IInv ==
  /\ TypeOK
  /\ StepsOK
  /\ TokensKnown
  /\ AnswersCurrent
  /\ AnswersDistinct
  /\ SignedOutGone

LEMMA TokenFacts ==
  /\ NoToken \notin Tokens
  /\ NoToken.sid = 0 /\ NoToken.gen = 0
  /\ \A k \in Tokens : k.sid \in Sids /\ k.gen \in Nat /\ k.gen # 0
  /\ \A k \in Tokens : Renewed(k) = [sid |-> k.sid, gen |-> k.gen + 1]
                       /\ Renewed(k) \in Tokens
BY DEF NoToken, Tokens, Sids, Renewed

LEMMA InitInvariant ==
  ASSUME Init
  PROVE  IInv
<1> USE SessionAssumption DEF Init, NoToken, Tokens, Sids
<1>1. TypeOK
  BY DEF TypeOK, CallRecords, RequestRecords, NoCall, NoRequest, RefreshSteps, SignoutSteps
<1> QED
  BY <1>1 DEF IInv, StepsOK, TokensKnown, Known, AnswersCurrent, AnswersDistinct,
     SignedOutGone, NoRequest

-----------------------------------------------------------------------------
(* The steps of the calls leave the tokens alone, but for the copy of the  *)
(* cookie that a new refresh request takes.                                *)
Tokenless ==
  UNCHANGED <<sessions, opened, jar.token, refresh, signout, signin, signedOut>>

LEMMA TokenlessSteps ==
  ASSUME IInv, Tokenless
  PROVE  /\ StepsOK' /\ TokensKnown' /\ AnswersCurrent' /\ AnswersDistinct'
         /\ SignedOutGone'
BY DEF IInv, Tokenless, StepsOK, TokensKnown, Known, AnswersCurrent, Outdated, Older,
       Live, AnswersDistinct, SignedOutGone

(* Leaving a workspace ends a call, or marks it as left over.              *)
LeftCall(c) == [call[c] EXCEPT !.left = TRUE]

LEMMA CallRecordFacts ==
  ASSUME NEW r \in CallRecords, NEW step \in {"idle", "sent", "waiting", "ready"},
         NEW b \in BOOLEAN
  PROVE  /\ [r EXCEPT !.left = TRUE] \in CallRecords
         /\ [r EXCEPT !.step = step] \in CallRecords
         /\ [r EXCEPT !.step = "sent", !.ok = b] \in CallRecords
         /\ [r EXCEPT !.step = "sent", !.ok = b, !.retry = TRUE] \in CallRecords
         /\ [r EXCEPT !.left = TRUE].step = r.step /\ [r EXCEPT !.left = TRUE].ok = r.ok
         /\ [r EXCEPT !.left = TRUE].retry = r.retry /\ [r EXCEPT !.left = TRUE].sid = r.sid
         /\ [r EXCEPT !.left = TRUE].left = TRUE
         /\ [r EXCEPT !.step = step].step = step /\ [r EXCEPT !.step = step].sid = r.sid
         /\ [r EXCEPT !.step = step].left = r.left
BY DEF CallRecords

LEMMA LeftFields ==
  ASSUME TypeOK, NEW c \in Calls
  PROVE  /\ LeftCall(c).step = call[c].step /\ LeftCall(c).ok = call[c].ok
         /\ LeftCall(c).retry = call[c].retry /\ LeftCall(c).sid = call[c].sid
         /\ LeftCall(c).left /\ LeftCall(c) \in CallRecords
<1>1. call[c] \in CallRecords
  BY DEF TypeOK
<1> QED
  BY <1>1, CallRecordFacts, Zenon DEF LeftCall

LEMMA LeavePoints ==
  ASSUME TypeOK, NEW t \in Tabs, NEW over, Leave(t, over), NEW c \in Calls
  PROVE  /\ c[1] # t => call'[c] = call[c]
         /\ c[1] = t => \/ call'[c] = NoCall
                        \/ /\ call'[c] = LeftCall(c) /\ c \notin over
                           /\ call[c].left \/ call[c].step # "idle"
<1>1. PICK staging \in SUBSET {d \in Calls : d[1] = t /\ call[d].step # "idle"} :
        call' = [d \in Calls |->
          IF d[1] # t THEN call[d]
          ELSE IF d \notin over /\ (call[d].left \/ d \in staging) THEN LeftCall(d)
          ELSE NoCall]
  BY DEF Leave, LeftCall
<1>2. call'[c] = IF c[1] # t THEN call[c]
                 ELSE IF c \notin over /\ (call[c].left \/ c \in staging) THEN LeftCall(c)
                 ELSE NoCall
  BY <1>1
<1>3. c \in staging => call[c].step # "idle"
  OBVIOUS
<1> QED
  BY <1>2, <1>3

LEMMA LeaveType ==
  ASSUME TypeOK, NEW t \in Tabs, NEW over, Leave(t, over)
  PROVE  /\ screen' \in [Tabs -> Sids \cup {0}]
         /\ call' \in [Calls -> CallRecords]
         /\ \A c \in Calls : call'[c].step = "waiting" => call[c].step = "waiting"
         /\ \A c \in Calls : c[1] = t /\ c \in over => call'[c].step # "waiting"
<1>1. screen' \in [Tabs -> Sids \cup {0}]
  BY DEF TypeOK, Leave
<1>2. NoCall \in CallRecords /\ NoCall.step = "idle"
  BY DEF NoCall, CallRecords
<1>3. \A c \in Calls : call[c] \in CallRecords
  BY DEF TypeOK
<1>4. \A c \in Calls : call'[c] \in CallRecords
  BY <1>2, <1>3, LeavePoints, LeftFields
<1>5. \E f : call' = [c \in Calls |-> f[c]]
  <2>1. PICK staging : call' = [c \in Calls |->
           IF c[1] # t THEN call[c]
           ELSE IF c \notin over /\ (call[c].left \/ c \in staging) THEN LeftCall(c)
           ELSE NoCall]
    BY DEF Leave, LeftCall
  <2>2. call' = [c \in Calls |-> call'[c]]
    BY <2>1
  <2> QED
    BY <2>2
<1>6. call' \in [Calls -> CallRecords]
  BY <1>4, <1>5
<1>7. ASSUME NEW c \in Calls, call'[c].step = "waiting"
      PROVE  call[c].step = "waiting" /\ ~(c[1] = t /\ c \in over)
  BY <1>2, <1>7, LeavePoints, LeftFields
<1> QED
  BY <1>1, <1>6, <1>7

LEMMA JarSession == TypeOK => jar.token.sid \in Sids \cup {0}
BY DEF TypeOK, Tokens, NoToken

LEMMA ReplacedType == TypeOK /\ (\E s : Replaced(s)) => contested' \subseteq Sids
BY JarSession DEF TypeOK, Replaced

LEMMA CallFacts == \A c \in Calls : c[1] \in Tabs
BY DEF Calls

LEMMA RefreshTypes ==
  ASSUME TypeOK, NEW t \in Tabs
  PROVE  /\ \A step \in RefreshSteps :
              [refresh EXCEPT ![t].step = step] \in [Tabs -> RequestRecords(RefreshSteps)]
         /\ \A step \in RefreshSteps, k \in Tokens \cup {NoToken} :
              [refresh EXCEPT ![t] = [step |-> step, token |-> k]]
                \in [Tabs -> RequestRecords(RefreshSteps)]
         /\ [refresh EXCEPT ![t] = NoRequest] \in [Tabs -> RequestRecords(RefreshSteps)]
BY DEF TypeOK, RequestRecords, NoRequest, RefreshSteps

LEMMA RefreshPending ==
  ASSUME TypeOK, NEW t \in Tabs, NEW step \in RefreshSteps \ {"none"}
  PROVE  /\ \A u \in Tabs : refresh[u] # NoRequest
              => [refresh EXCEPT ![t].step = step][u] # NoRequest
         /\ \A u \in Tabs, k \in Tokens \cup {NoToken} : refresh[u] # NoRequest \/ u = t
              => [refresh EXCEPT ![t] = [step |-> step, token |-> k]][u] # NoRequest
<1>1. /\ NoRequest.step = "none"
      /\ \A u \in Tabs : [refresh EXCEPT ![t].step = step][u]
           = IF u = t THEN [refresh[t] EXCEPT !.step = step] ELSE refresh[u]
      /\ [refresh[t] EXCEPT !.step = step].step = step
  BY DEF TypeOK, RequestRecords, NoRequest
<1>2. \A u \in Tabs, k \in Tokens \cup {NoToken} :
        [refresh EXCEPT ![t] = [step |-> step, token |-> k]][u]
           = IF u = t THEN [step |-> step, token |-> k] ELSE refresh[u]
  BY DEF TypeOK
<1>3. \A k : [step |-> step, token |-> k].step = step
  OBVIOUS
<1>4. step # "none"
  OBVIOUS
<1>5. ASSUME NEW u \in Tabs, refresh[u] # NoRequest
      PROVE  [refresh EXCEPT ![t].step = step][u] # NoRequest
  BY <1>1, <1>4, <1>5
<1>6. ASSUME NEW u \in Tabs, NEW k \in Tokens \cup {NoToken}, refresh[u] # NoRequest \/ u = t
      PROVE  [refresh EXCEPT ![t] = [step |-> step, token |-> k]][u] # NoRequest
  <2>1. CASE u = t
    <3>1. [refresh EXCEPT ![t] = [step |-> step, token |-> k]][u] = [step |-> step, token |-> k]
      BY <1>2, <2>1
    <3>2. [step |-> step, token |-> k] # NoRequest
      BY <1>1, <1>3, <1>4
    <3> QED
      BY <3>1, <3>2
  <2>2. CASE u # t
    BY <1>2, <1>6, <2>2
  <2> QED
    BY <2>1, <2>2
<1> QED
  BY <1>5, <1>6

LEMMA SignoutTypes ==
  ASSUME TypeOK, NEW t \in Tabs
  PROVE  /\ \A step \in SignoutSteps :
              [signout EXCEPT ![t].step = step] \in [Tabs -> RequestRecords(SignoutSteps)]
         /\ \A step \in SignoutSteps, k \in Tokens \cup {NoToken} :
              [signout EXCEPT ![t] = [step |-> step, token |-> k]]
                \in [Tabs -> RequestRecords(SignoutSteps)]
         /\ [signout EXCEPT ![t] = NoRequest] \in [Tabs -> RequestRecords(SignoutSteps)]
BY DEF TypeOK, RequestRecords, NoRequest, SignoutSteps

LEMMA RowSet ==
  ASSUME TypeOK, NEW s \in Sids, NEW n \in Nat
  PROVE  [sessions EXCEPT ![s] = n] \in [Sids -> Nat]
BY DEF TypeOK

LEMMA RotatedType ==
  ASSUME TypeOK, NEW k, k \in Tokens \cup {NoToken}, Live(k) \/ k # NoToken
  PROVE  /\ k \in Tokens
         /\ Rotated(k) \in [Sids -> Nat]
         /\ Renewed(k) \in Tokens
BY TokenFacts, RowSet DEF Rotated, Live

LEMMA NextTypes ==
  ASSUME TypeOK, StepsOK, [Next]_vars
  PROVE  TypeOK'
<1> USE CallFacts DEF TypeOK, requests, history
<1>1. /\ \A t \in Tabs : /\ refresh[t].step \in RefreshSteps
                         /\ refresh[t].token \in Tokens \cup {NoToken}
                         /\ signout[t].step \in SignoutSteps
                         /\ signout[t].token \in Tokens \cup {NoToken}
                         /\ refresh[t].token.sid \in Sids \cup {0}
                         /\ signout[t].token # NoToken => signout[t].token.sid \in Sids
      /\ jar.token \in Tokens \cup {NoToken}
      /\ NoToken.sid = 0
  BY TokenFacts DEF RequestRecords, RefreshSteps, SignoutSteps
<1>2. CASE Expire
  <2>1. jar' \in [token : Tokens \cup {NoToken}, access : BOOLEAN]
    BY <1>2 DEF Expire
  <2>2. expiries' \in 0 .. MaxExpiries
    BY <1>2, SessionAssumption DEF Expire
  <2> QED
    BY <1>2, <2>1, <2>2 DEF Expire
<1>3. ASSUME NEW c \in Calls, Call(c)
      PROVE  TypeOK'
  <2>1. CASE Send(c)
    BY <2>1, ZenonT(30) DEF Send, CallRecords
  <2>2. CASE Resend(c)
    <3>1. call' = [call EXCEPT ![c] =
             [@ EXCEPT !.step = "sent", !.ok = jar.access, !.retry = TRUE]]
      BY <2>2 DEF Resend
    <3>2. call' \in [Calls -> CallRecords]
      <4>1. [call[c] EXCEPT !.step = "sent", !.ok = jar.access, !.retry = TRUE] \in CallRecords
        <5>1. call[c] \in CallRecords /\ jar.access \in BOOLEAN
          OBVIOUS
        <5> QED
          BY <5>1, CallRecordFacts, Zenon
      <4> QED
        BY <3>1, <4>1
    <3>3. \A d \in Calls : call'[d].step = "waiting" => call[d].step = "waiting"
      BY <3>1 DEF CallRecords
    <3> QED
      BY <2>2, <3>2, <3>3 DEF Resend
  <2>3. CASE Answered(c)
    BY <2>3 DEF Answered, NoCall, CallRecords
  <2>4. CASE Unauthorized(c)
    <3>1. call' \in [Calls -> CallRecords]
      <4>1. call' = [call EXCEPT ![c] = [@ EXCEPT !.step = "waiting"]]
        BY <2>4 DEF Unauthorized
      <4>2. [call[c] EXCEPT !.step = "waiting"] \in CallRecords
        <5>1. call[c] \in CallRecords
          OBVIOUS
        <5> QED
          BY <5>1, CallRecordFacts, Zenon
      <4> QED
        BY <4>1, <4>2
    <3>2. /\ refresh' \in [Tabs -> RequestRecords(RefreshSteps)]
          /\ refresh'[c[1]] # NoRequest
          /\ \A u \in Tabs : refresh[u] # NoRequest => refresh'[u] # NoRequest
      <4>1. CASE refresh[c[1]] = NoRequest
        <5>1. refresh' = [refresh EXCEPT ![c[1]] = [step |-> "sent", token |-> jar.token]]
          BY <2>4, <4>1 DEF Unauthorized
        <5>2. "sent" \in RefreshSteps \ {"none"} /\ c[1] \in Tabs
          BY DEF RefreshSteps
        <5>3. refresh' \in [Tabs -> RequestRecords(RefreshSteps)]
          BY <1>1, <5>1, <5>2, RefreshTypes
        <5>4. \A u \in Tabs : refresh[u] # NoRequest \/ u = c[1] => refresh'[u] # NoRequest
          <6>1. /\ refresh'[c[1]].step = "sent"
                /\ \A u \in Tabs : u # c[1] => refresh'[u] = refresh[u]
            BY <5>1, <5>2
          <6>2. NoRequest.step = "none"
            BY DEF NoRequest
          <6> QED
            BY <6>1, <6>2
        <5> QED
          BY <5>2, <5>3, <5>4
      <4>2. CASE refresh[c[1]] # NoRequest
        BY <2>4, <4>2 DEF Unauthorized
      <4> QED
        BY <4>1, <4>2
    <3>3. \A d \in Calls : call'[d].step = "waiting" => d = c \/ call[d].step = "waiting"
      BY <2>4 DEF Unauthorized
    <3>4. contested' \subseteq Sids
      BY <1>1, <2>4, JarSession DEF Unauthorized
    <3> QED
      BY <2>4, <3>1, <3>2, <3>3, <3>4 DEF Unauthorized
  <2>5. CASE UnauthorizedAgain(c)
    <3>1. Leave(c[1], {c})
      BY <2>5 DEF UnauthorizedAgain
    <3> QED
      BY <2>5, <3>1, LeaveType DEF UnauthorizedAgain
  <2> QED
    BY <1>3, <2>1, <2>2, <2>3, <2>4, <2>5 DEF Call
<1>4. ASSUME NEW t \in Tabs, Request(t)
      PROVE  TypeOK'
  <2>0. {"sent", "read", "granted", "refused"} \subseteq RefreshSteps \ {"none"}
        /\ {"sent", "read", "revoked", "refused"} \subseteq SignoutSteps
    BY DEF RefreshSteps, SignoutSteps
  <2>1. CASE RefreshReads(t)
    <3>1. PICK step \in {"read", "refused"} : refresh' = [refresh EXCEPT ![t].step = step]
      BY <2>1 DEF RefreshReads
    <3>2. step \in RefreshSteps \ {"none"}
      BY <2>0
    <3> QED
      BY <2>1, <3>1, <3>2, RefreshTypes, RefreshPending DEF RefreshReads
  <2>2. CASE RefreshUpdates(t)
    <3>1. CASE Live(refresh[t].token)
      <4>1. /\ Rotated(refresh[t].token) \in [Sids -> Nat]
            /\ Renewed(refresh[t].token) \in Tokens
        BY <1>1, <3>1, RotatedType
      <4>2. /\ sessions' = Rotated(refresh[t].token)
            /\ refresh' = [refresh EXCEPT ![t] =
                 [step |-> "granted", token |-> Renewed(refresh[t].token)]]
        BY <2>2, <3>1 DEF RefreshUpdates
      <4> QED
        BY <2>0, <2>2, <4>1, <4>2, RefreshTypes, RefreshPending DEF RefreshUpdates
    <3>2. CASE ~Live(refresh[t].token)
      BY <2>0, <2>2, <3>2, RefreshTypes, RefreshPending, SMTT(30) DEF RefreshUpdates
    <3> QED
      BY <3>1, <3>2
  <2>3. CASE RefreshErrors(t)
    <3>1. sessions' \in [Sids -> Nat]
      BY <1>1, <2>3, RotatedType DEF RefreshErrors
    <3>2. faults' \in 0 .. MaxFaults
      BY <2>3, SessionAssumption DEF RefreshErrors, Fault
    <3> QED
      BY <2>0, <2>3, <3>1, <3>2, RefreshTypes, RefreshPending DEF RefreshErrors
  <2>4. CASE RefreshGranted(t)
    <3>1. refresh' = [refresh EXCEPT ![t] = NoRequest]
      BY <2>4 DEF RefreshGranted
    <3>2. refresh' \in [Tabs -> RequestRecords(RefreshSteps)]
      BY <3>1, RefreshTypes
    <3>3. /\ call' \in [Calls -> CallRecords]
          /\ \A d \in Calls : call'[d].step = "waiting"
               => call[d].step = "waiting" /\ d[1] # t
      <4>1. call' = [d \in Calls |->
              IF d \in Waiting(t)
              THEN [call[d] EXCEPT !.step = "ready", !.sid = refresh[t].token.sid]
              ELSE call[d]]
        BY <2>4 DEF RefreshGranted, Resume
      <4>2. ASSUME NEW d \in Calls
            PROVE  /\ call'[d] \in CallRecords
                   /\ call'[d].step = "waiting" => call[d].step = "waiting" /\ d[1] # t
        <5>1. CASE d \in Waiting(t)
          <6>1. call'[d] = [call[d] EXCEPT !.step = "ready", !.sid = refresh[t].token.sid]
            BY <4>1, <5>1
          <6> QED
            BY <1>1, <6>1 DEF CallRecords
        <5>2. CASE d \notin Waiting(t)
          BY <4>1, <5>2 DEF Waiting
        <5> QED
          BY <5>1, <5>2
      <4> QED
        BY <4>1, <4>2
    <3>4. jar' \in [token : Tokens \cup {NoToken}, access : BOOLEAN]
      BY <1>1, <2>4 DEF RefreshGranted
    <3>5. contested' \subseteq Sids
      BY <2>4, ReplacedType DEF RefreshGranted
    <3> QED
      BY <2>4, <3>1, <3>2, <3>3, <3>4, <3>5 DEF RefreshGranted
  <2>5. CASE RefreshRefused(t)
    <3>1. refresh' = [refresh EXCEPT ![t] = NoRequest]
      BY <2>5 DEF RefreshRefused
    <3>2. refresh' \in [Tabs -> RequestRecords(RefreshSteps)]
      BY <3>1, RefreshTypes
    <3>3. /\ screen' \in [Tabs -> Sids \cup {0}]
          /\ call' \in [Calls -> CallRecords]
          /\ \A d \in Calls : call'[d].step = "waiting"
               => call[d].step = "waiting" /\ d[1] # t
      <4>1. CASE Waiting(t) = {}
        BY <2>5, <4>1 DEF RefreshRefused, Waiting
      <4>2. CASE Waiting(t) # {}
        <5>1. Leave(t, Waiting(t))
          BY <2>5, <4>2 DEF RefreshRefused
        <5>2. \A d \in Calls : call[d].step = "waiting" /\ d[1] = t => d \in Waiting(t)
          BY DEF Waiting
        <5> QED
          BY <5>1, <5>2, LeaveType
      <4> QED
        BY <4>1, <4>2
    <3> QED
      BY <2>5, <3>1, <3>2, <3>3 DEF RefreshRefused
  <2>6. CASE RefreshLost(t)
    <3>1. refresh' = [refresh EXCEPT ![t] = NoRequest]
      BY <2>6 DEF RefreshLost
    <3>2. refresh' \in [Tabs -> RequestRecords(RefreshSteps)]
      BY <3>1, RefreshTypes
    <3>3. /\ call' \in [Calls -> CallRecords]
          /\ \A d \in Calls : call'[d].step = "waiting"
               => call[d].step = "waiting" /\ d[1] # t
      BY <2>6 DEF RefreshLost, Waiting, NoCall, CallRecords
    <3>4. faults' \in 0 .. MaxFaults
      BY <2>6, SessionAssumption DEF RefreshLost, Fault
    <3> QED
      BY <2>6, <3>1, <3>2, <3>3, <3>4 DEF RefreshLost
  <2>7. CASE SendSignout(t)
    BY <1>1, <2>0, <2>7, SignoutTypes DEF SendSignout
  <2>8. CASE SignoutReads(t)
    <3>1. PICK step \in {"read", "refused"} : signout' = [signout EXCEPT ![t].step = step]
      BY <2>8 DEF SignoutReads
    <3>2. step \in SignoutSteps
      BY <2>0
    <3> QED
      BY <2>8, <3>1, <3>2, SignoutTypes DEF SignoutReads
  <2>9. CASE SignoutDeletes(t)
    <3>1. sessions' \in [Sids -> Nat]
      BY <1>1, <2>9, RowSet DEF SignoutDeletes, Live
    <3> QED
      BY <2>0, <2>9, <3>1, SignoutTypes DEF SignoutDeletes
  <2>10. CASE SignoutErrors(t)
    <3>1. sessions' \in [Sids -> Nat]
      BY <1>1, <2>10, RowSet DEF SignoutErrors, Live
    <3>2. faults' \in 0 .. MaxFaults
      BY <2>10, SessionAssumption DEF SignoutErrors, Fault
    <3> QED
      BY <2>10, <3>1, <3>2, <2>0, SignoutTypes DEF SignoutErrors
  <2>11. CASE SignoutDone(t)
    <3>1. signout' \in [Tabs -> RequestRecords(SignoutSteps)]
      BY <2>11, SignoutTypes DEF SignoutDone
    <3>2. signedOut' \subseteq Sids
      BY <1>1, <2>11 DEF SignoutDone, StepsOK
    <3>3. contested' \subseteq Sids
      BY <2>11, ReplacedType DEF SignoutDone
    <3> QED
      BY <2>11, <3>1, <3>2, <3>3, LeaveType DEF SignoutDone
  <2>12. CASE SignoutRefused(t)
    BY <2>12, SignoutTypes DEF SignoutRefused
  <2>13. CASE SignoutLost(t)
    <3>1. faults' \in 0 .. MaxFaults
      BY <2>13, SessionAssumption DEF SignoutLost, Fault
    <3> QED
      BY <2>13, <3>1, SignoutTypes DEF SignoutLost
  <2>14. CASE Signin(t)
    BY <2>14, RowSet, SessionAssumption DEF Signin, Sids, Tokens
  <2>15. CASE SigninDone(t)
    <3>1. signin[t].sid \in Sids
      BY <2>15, TokenFacts DEF SigninDone
    <3> QED
      BY <2>15, <3>1, ReplacedType DEF SigninDone
  <2>16. CASE SigninLost(t)
    BY <2>16, SessionAssumption DEF SigninLost, Fault
  <2> QED
    BY <1>4, <2>1, <2>2, <2>3, <2>4, <2>5, <2>6, <2>7, <2>8, <2>9, <2>10, <2>11,
       <2>12, <2>13, <2>14, <2>15, <2>16 DEF Request
<1>5. CASE UNCHANGED vars
  BY <1>5 DEF vars
<1> QED
  BY <1>2, <1>3, <1>4, <1>5 DEF Next

-----------------------------------------------------------------------------
(* What a step does to one request, tab by tab.                            *)
LEMMA RefreshPoints ==
  ASSUME TypeOK, NEW t \in Tabs, NEW step, NEW k
  PROVE  /\ refresh' = [refresh EXCEPT ![t].step = step] =>
              /\ refresh'[t].step = step /\ refresh'[t].token = refresh[t].token
              /\ \A u \in Tabs \ {t} : refresh'[u] = refresh[u]
         /\ refresh' = [refresh EXCEPT ![t] = [step |-> step, token |-> k]] =>
              /\ refresh'[t].step = step /\ refresh'[t].token = k
              /\ \A u \in Tabs \ {t} : refresh'[u] = refresh[u]
         /\ refresh' = [refresh EXCEPT ![t] = NoRequest] =>
              /\ refresh'[t].step = "none" /\ refresh'[t].token = NoToken
              /\ \A u \in Tabs \ {t} : refresh'[u] = refresh[u]
BY DEF TypeOK, RequestRecords, NoRequest

LEMMA SignoutPoints ==
  ASSUME TypeOK, NEW t \in Tabs, NEW step, NEW k
  PROVE  /\ signout' = [signout EXCEPT ![t].step = step] =>
              /\ signout'[t].step = step /\ signout'[t].token = signout[t].token
              /\ \A u \in Tabs \ {t} : signout'[u] = signout[u]
         /\ signout' = [signout EXCEPT ![t] = [step |-> step, token |-> k]] =>
              /\ signout'[t].step = step /\ signout'[t].token = k
              /\ \A u \in Tabs \ {t} : signout'[u] = signout[u]
         /\ signout' = [signout EXCEPT ![t] = NoRequest] =>
              /\ signout'[t].step = "none" /\ signout'[t].token = NoToken
              /\ \A u \in Tabs \ {t} : signout'[u] = signout[u]
BY DEF TypeOK, RequestRecords, NoRequest

LEMMA HeldTokens ==
  ASSUME TypeOK
  PROVE  /\ jar.token \in Tokens \cup {NoToken}
         /\ \A t \in Tabs : /\ refresh[t].token \in Tokens \cup {NoToken}
                            /\ signout[t].token \in Tokens \cup {NoToken}
                            /\ signin[t] \in Tokens \cup {NoToken}
         /\ sessions \in [Sids -> Nat] /\ opened \in Sids /\ Sids \subseteq Nat \ {0}
BY DEF TypeOK, RequestRecords, Sids

TokenInvariants ==
  StepsOK /\ TokensKnown /\ AnswersCurrent /\ AnswersDistinct /\ SignedOutGone

(* While a session has an answer under way, no copy of its token is usable. *)
LEMMA LiveCopyMeansNoAnswer ==
  ASSUME IInv, NEW k, Live(k), NEW t \in Tabs,
         \/ k = jar.token
         \/ k = signout[t].token
         \/ k = refresh[t].token /\ refresh[t].step # "granted"
  PROVE  \A u \in Tabs : /\ refresh[u].step = "granted" => refresh[u].token.sid # k.sid
                         /\ signin[u].sid # k.sid
<1>1. k \in Tokens
  BY HeldTokens DEF IInv, Live
<1>2. k.gen \in Nat /\ sessions[k.sid] = k.gen
  BY <1>1, TokenFacts DEF Live
<1>3. ASSUME NEW answer, Live(answer), Outdated(answer), answer.sid = k.sid
      PROVE  FALSE
  BY <1>2, <1>3 DEF Live, Outdated, Older
<1>4. \A u \in Tabs : signin[u].sid = k.sid => signin[u] # NoToken
  BY <1>1, TokenFacts DEF Sids
<1> QED
  BY <1>3, <1>4 DEF IInv, AnswersCurrent

LEMMA UnauthorizedTokens ==
  ASSUME IInv, NEW c \in Calls, Unauthorized(c)
  PROVE  TokenInvariants'
<1> DEFINE t == c[1]
<1>1. t \in Tabs
  BY CallFacts
<1>2. UNCHANGED <<sessions, opened, jar, signout, signin, signedOut>>
  BY DEF Unauthorized, history
<1>3. CASE refresh[t] = NoRequest
  <2>1. refresh' = [refresh EXCEPT ![t] = [step |-> "sent", token |-> jar.token]]
    BY <1>3 DEF Unauthorized
  <2>2. /\ refresh'[t].step = "sent" /\ refresh'[t].token = jar.token
        /\ \A u \in Tabs \ {t} : refresh'[u] = refresh[u]
    BY <1>1, <2>1, RefreshPoints DEF IInv
  <2> QED
    BY <1>1, <1>2, <2>2
    DEF TokenInvariants, IInv, StepsOK, TokensKnown, Known, AnswersCurrent, Outdated,
        Older, Live, AnswersDistinct, SignedOutGone
<1>4. CASE refresh[t] # NoRequest
  BY <1>2, <1>4, TokenlessSteps DEF Unauthorized, Tokenless, TokenInvariants
<1> QED
  BY <1>3, <1>4

LEMMA RefreshReadsTokens ==
  ASSUME IInv, NEW t \in Tabs, RefreshReads(t)
  PROVE  TokenInvariants'
<1>1. UNCHANGED <<sessions, opened, jar, signout, signin, signedOut>>
  BY DEF RefreshReads, history
<1>2. PICK step \in {"read", "refused"} :
        /\ refresh' = [refresh EXCEPT ![t].step = step]
        /\ step = "read" => Live(refresh[t].token)
  BY DEF RefreshReads
<1>3. /\ refresh'[t].step = step /\ refresh'[t].token = refresh[t].token
      /\ \A u \in Tabs \ {t} : refresh'[u] = refresh[u]
  BY <1>2, RefreshPoints DEF IInv
<1>4. refresh[t].step = "sent"
  BY DEF RefreshReads
<1> QED
  BY <1>1, <1>2, <1>3, <1>4
  DEF TokenInvariants, IInv, StepsOK, TokensKnown, Known, AnswersCurrent, Outdated,
      Older, Live, AnswersDistinct, SignedOutGone

(* The rotation: all copies of the token become older than the row.        *)
LEMMA RotationTokens ==
  ASSUME IInv, NEW t \in Tabs, refresh[t].step = "read", Live(refresh[t].token),
         sessions' = Rotated(refresh[t].token),
         UNCHANGED <<opened, jar, signout, signin, signedOut>>,
         \A u \in Tabs \ {t} : refresh'[u] = refresh[u],
         \/ refresh'[t].step = "granted" /\ refresh'[t].token = Renewed(refresh[t].token)
         \/ refresh'[t].step = "refused" /\ refresh'[t].token = refresh[t].token
  PROVE  TokenInvariants'
<1> DEFINE k == refresh[t].token
<1>1. k \in Tokens /\ k.sid \in Sids /\ k.gen \in Nat /\ k.gen # 0 /\ sessions[k.sid] = k.gen
  BY HeldTokens, TokenFacts DEF IInv, Live
<1>2. /\ sessions'[k.sid] = k.gen + 1
      /\ \A s \in Sids \ {k.sid} : sessions'[s] = sessions[s]
  BY <1>1, HeldTokens DEF IInv, Rotated
<1>3. PICK n : n = Renewed(k) /\ n.sid = k.sid /\ n.gen = k.gen + 1 /\ n # NoToken
  BY <1>1, TokenFacts
<1>4. \A u \in Tabs : /\ refresh[u].step = "granted" => refresh[u].token.sid # k.sid
                      /\ signin[u].sid # k.sid
  BY LiveCopyMeansNoAnswer
<1>5. \A a \in Tokens : a.sid = k.sid /\ Known(a) => a.gen <= k.gen
  BY <1>1, TokenFacts DEF Known
<1>6. StepsOK'
  BY DEF IInv, StepsOK
<1>7. TokensKnown'
  <2>1. k.sid <= opened
    BY <1>1, TokenFacts DEF IInv, TokensKnown, Known
  <2>2. \A s \in Sids : s > opened => sessions'[s] = 0
    BY <1>2, <2>1, HeldTokens DEF IInv, TokensKnown
  <2>3. \A a \in Tokens : Known(a) => Known(a)'
    <3> SUFFICES ASSUME NEW a \in Tokens, Known(a)
                 PROVE  Known(a)'
      OBVIOUS
    <3>1. CASE a.sid = k.sid
      BY <1>1, <1>2, <1>5, <2>1, <3>1, TokenFacts DEF Known
    <3>2. CASE a.sid # k.sid
      BY <1>2, <3>2, TokenFacts DEF Known
    <3> QED
      BY <3>1, <3>2
  <2>4. Known(n)'
    BY <1>1, <1>2, <1>3, <2>1 DEF Known
  <2>5. Known(NoToken)'
    BY DEF Known
  <2>6. TypeOK
    BY DEF IInv
  <2>7. Known(jar.token)'
    BY <2>3, <2>5, <2>6, HeldTokens DEF IInv, TokensKnown, Known
  <2>8. ASSUME NEW u \in Tabs
        PROVE  Known(refresh[u].token)' /\ Known(signout[u].token)' /\ Known(signin[u])'
    <3>1. Known(signout[u].token)' /\ Known(signin[u])'
      BY <2>3, <2>5, <2>6, HeldTokens DEF IInv, TokensKnown, Known
    <3>2. CASE u = t
      <4>1. refresh'[t].token = n \/ refresh'[t].token = refresh[t].token
        BY <1>3
      <4> QED
        BY <2>3, <2>4, <3>1, <3>2, <4>1, <1>1 DEF IInv, TokensKnown, Known
    <3>3. CASE u # t
      BY <2>3, <2>5, <2>6, <3>1, <3>3, HeldTokens DEF IInv, TokensKnown, Known
    <3> QED
      BY <3>2, <3>3
  <2> QED
    BY <2>2, <2>7, <2>8 DEF TokensKnown
<1>8. AnswersCurrent'
  <2>1. ASSUME NEW a \in Tokens, a.sid # k.sid, Live(a), Outdated(a)
        PROVE  Live(a)' /\ Outdated(a)'
    <3>1. Live(a)'
      BY <1>2, <2>1, TokenFacts DEF Live
    <3>2. \A u \in Tabs : refresh'[u].step # "granted" => refresh'[u].token = refresh[u].token
      OBVIOUS
    <3>3. \A u \in Tabs : refresh'[u].step # "granted" => refresh[u].step # "granted"
      OBVIOUS
    <3> QED
      BY <2>1, <3>1, <3>2, <3>3 DEF Outdated, Older
  <2>2. ASSUME refresh'[t].step = "granted"
        PROVE  Live(n)' /\ Outdated(n)'
    <3>1. Live(n)'
      BY <1>2, <1>3 DEF Live
    <3>2. \A a \in Tokens \cup {NoToken} : Known(a) => Older(a, n)
      BY <1>1, <1>3, <1>5, TokenFacts DEF Older, Sids
    <3>3. \A u \in Tabs : refresh'[u].step # "granted" => refresh'[u].token = refresh[u].token
      OBVIOUS
    <3> QED
      BY <3>1, <3>2, <3>3, HeldTokens DEF IInv, TokensKnown, Outdated, Older
  <2>3. ASSUME NEW u \in Tabs, refresh'[u].step = "granted"
        PROVE  (Live(refresh[u].token) /\ Outdated(refresh[u].token))'
    <3>1. CASE u = t
      <4>1. refresh'[u].token = n
        BY <1>1, <1>3, <2>3, <3>1
      <4> QED
        BY <2>2, <2>3, <3>1, <4>1 DEF Live, Outdated, Older
    <3>2. CASE u # t
      <4>1. refresh'[u] = refresh[u]
        BY <3>2
      <4>2. refresh[u].token \in Tokens /\ Live(refresh[u].token) /\ Outdated(refresh[u].token)
        BY <2>3, <4>1, HeldTokens DEF IInv, AnswersCurrent, Live
      <4>3. refresh[u].token.sid # k.sid
        BY <1>4, <2>3, <4>1
      <4> QED
        BY <2>1, <4>1, <4>2, <4>3 DEF Live, Outdated, Older
    <3> QED
      BY <3>1, <3>2
  <2>4. ASSUME NEW u \in Tabs, signin'[u] # NoToken
        PROVE  (Live(signin[u]) /\ Outdated(signin[u]))'
    <3>1. signin[u] \in Tokens /\ Live(signin[u]) /\ Outdated(signin[u])
      BY <2>4, HeldTokens DEF IInv, AnswersCurrent
    <3> QED
      BY <1>4, <2>1, <3>1 DEF Live, Outdated, Older
  <2> QED
    BY <2>3, <2>4 DEF AnswersCurrent
<1>9. AnswersDistinct'
  BY <1>3, <1>4 DEF IInv, AnswersDistinct
<1>10. SignedOutGone'
  <2>1. \A s \in Sids : sessions[s] = 0 => sessions'[s] = 0
    BY <1>1, <1>2
  <2>2. \A u \in Tabs : signout[u].step = "revoked" => signout[u].token.sid \in Sids
    BY HeldTokens, TokenFacts DEF IInv, StepsOK
  <2>3. signedOut \subseteq Sids
    BY DEF IInv, TypeOK
  <2> QED
    BY <2>1, <2>2, <2>3 DEF IInv, SignedOutGone
<1> QED
  BY <1>6, <1>7, <1>8, <1>9, <1>10 DEF TokenInvariants

LEMMA RefreshUpdatesTokens ==
  ASSUME IInv, NEW t \in Tabs, RefreshUpdates(t)
  PROVE  TokenInvariants'
<1>1. UNCHANGED <<opened, jar, signout, signin, signedOut>>
  BY DEF RefreshUpdates, history
<1>2. CASE Live(refresh[t].token)
  <2>1. refresh' = [refresh EXCEPT ![t] =
          [step |-> "granted", token |-> Renewed(refresh[t].token)]]
    BY <1>2 DEF RefreshUpdates
  <2>2. /\ refresh'[t].step = "granted" /\ refresh'[t].token = Renewed(refresh[t].token)
        /\ \A u \in Tabs \ {t} : refresh'[u] = refresh[u]
    BY <2>1, RefreshPoints DEF IInv
  <2> QED
    BY <1>1, <1>2, <2>2, RotationTokens DEF RefreshUpdates
<1>3. CASE ~Live(refresh[t].token)
  <2>1. refresh' = [refresh EXCEPT ![t].step = "refused"] /\ UNCHANGED sessions
    BY <1>3 DEF RefreshUpdates
  <2>2. /\ refresh'[t].step = "refused" /\ refresh'[t].token = refresh[t].token
        /\ \A u \in Tabs \ {t} : refresh'[u] = refresh[u]
    BY <2>1, RefreshPoints DEF IInv
  <2>3. refresh[t].step = "read"
    BY DEF RefreshUpdates
  <2> QED
    BY <1>1, <2>1, <2>2, <2>3
    DEF TokenInvariants, IInv, StepsOK, TokensKnown, Known, AnswersCurrent, Outdated,
        Older, Live, AnswersDistinct, SignedOutGone
<1> QED
  BY <1>2, <1>3

LEMMA RefreshErrorsTokens ==
  ASSUME IInv, NEW t \in Tabs, RefreshErrors(t)
  PROVE  TokenInvariants'
<1>1. UNCHANGED <<opened, jar, signout, signin, signedOut>>
  BY DEF RefreshErrors, history
<1>2. /\ refresh'[t].step = "refused" /\ refresh'[t].token = refresh[t].token
      /\ \A u \in Tabs \ {t} : refresh'[u] = refresh[u]
  BY RefreshPoints DEF IInv, RefreshErrors
<1>3. CASE UNCHANGED sessions /\ refresh[t].step \in {"sent", "read"}
  BY <1>1, <1>2, <1>3
  DEF TokenInvariants, IInv, StepsOK, TokensKnown, Known, AnswersCurrent, Outdated,
      Older, Live, AnswersDistinct, SignedOutGone
<1>4. CASE /\ refresh[t].step = "read" /\ Live(refresh[t].token)
           /\ sessions' = Rotated(refresh[t].token)
  BY <1>1, <1>2, <1>4, RotationTokens
<1> QED
  BY <1>3, <1>4 DEF RefreshErrors

(* What a step does not touch stays current: the answers still under way,  *)
(* and the copies of tokens they outdate.                                  *)
LEMMA AnswersStay ==
  ASSUME IInv, NEW s \in Nat,
         \A a \in Tokens : a.sid # s /\ Live(a) /\ Outdated(a) => Live(a)' /\ Outdated(a)',
         \A u \in Tabs : refresh'[u].step = "granted" =>
            refresh'[u] = refresh[u] /\ refresh[u].token.sid # s,
         \A u \in Tabs : signin'[u] # NoToken =>
            signin'[u] = signin[u] /\ signin[u].sid # s
  PROVE  AnswersCurrent'
<1>1. ASSUME NEW u \in Tabs, refresh'[u].step = "granted"
      PROVE  (Live(refresh[u].token) /\ Outdated(refresh[u].token))'
  <2>1. refresh'[u] = refresh[u] /\ refresh[u].token.sid # s
    BY <1>1
  <2>2. refresh[u].token \in Tokens /\ Live(refresh[u].token) /\ Outdated(refresh[u].token)
    BY <1>1, <2>1, HeldTokens DEF IInv, AnswersCurrent, Live
  <2>3. PICK a \in Tokens : a = refresh[u].token
    BY <2>2
  <2>4. Live(a)' /\ Outdated(a)'
    BY <2>1, <2>2, <2>3
  <2> QED
    BY <2>1, <2>3, <2>4 DEF Live, Outdated, Older
<1>2. ASSUME NEW u \in Tabs, signin'[u] # NoToken
      PROVE  (Live(signin[u]) /\ Outdated(signin[u]))'
  <2>1. signin'[u] = signin[u] /\ signin[u].sid # s
    BY <1>2
  <2>2. signin[u] \in Tokens /\ Live(signin[u]) /\ Outdated(signin[u])
    BY <1>2, <2>1, HeldTokens DEF IInv, AnswersCurrent
  <2>3. PICK a \in Tokens : a = signin[u]
    BY <2>2
  <2>4. Live(a)' /\ Outdated(a)'
    BY <2>1, <2>2, <2>3
  <2> QED
    BY <2>1, <2>3, <2>4 DEF Live, Outdated, Older
<1> QED
  BY <1>1, <1>2 DEF AnswersCurrent

(* A request that is over leaves no token behind.                          *)
LEMMA RefreshOverTokens ==
  ASSUME IInv, NEW t \in Tabs, refresh' = [refresh EXCEPT ![t] = NoRequest],
         UNCHANGED <<sessions, opened, jar, signout, signin, signedOut>>
  PROVE  TokenInvariants'
<1>1. /\ refresh'[t].step = "none" /\ refresh'[t].token = NoToken
      /\ \A u \in Tabs \ {t} : refresh'[u] = refresh[u]
  BY RefreshPoints DEF IInv
<1>2. \A a \in Tokens : Older(NoToken, a)
  BY TokenFacts DEF Older, Sids
<1>3. AnswersCurrent'
  <2>1. ASSUME NEW a \in Tokens, Live(a), Outdated(a)
        PROVE  Live(a)' /\ Outdated(a)'
    BY <1>1, <1>2, <2>1 DEF Live, Outdated, Older
  <2>2. \A u \in Tabs : refresh'[u].step = "granted" =>
           refresh'[u] = refresh[u] /\ refresh[u].token.sid # 0
    BY <1>1, HeldTokens, TokenFacts DEF IInv, AnswersCurrent, Live, Sids
  <2>3. \A u \in Tabs : signin'[u] # NoToken => signin'[u] = signin[u] /\ signin[u].sid # 0
    BY HeldTokens, TokenFacts DEF IInv, Sids
  <2> QED
    BY <2>1, <2>2, <2>3, AnswersStay
<1>4. StepsOK' /\ TokensKnown' /\ SignedOutGone'
  BY <1>1 DEF IInv, StepsOK, TokensKnown, Known, SignedOutGone
<1>5. AnswersDistinct'
  BY <1>1 DEF IInv, AnswersDistinct
<1> QED
  BY <1>3, <1>4, <1>5 DEF TokenInvariants

LEMMA SignoutStepTokens ==
  ASSUME IInv, NEW t \in Tabs,
         UNCHANGED <<sessions, opened, jar, refresh, signin, signedOut>>,
         \A u \in Tabs \ {t} : signout'[u] = signout[u],
         \/ signout'[t].token = signout[t].token
         \/ signout'[t].token = jar.token
         \/ signout'[t].token = NoToken,
         signout'[t].step # "revoked",
         signout'[t].step = "read" => signout'[t].token # NoToken
  PROVE  TokenInvariants'
<1>1. \A a \in Tokens : Older(NoToken, a)
  BY TokenFacts DEF Older, Sids
<1>2. AnswersCurrent'
  <2>1. ASSUME NEW a \in Tokens, Live(a), Outdated(a)
        PROVE  Live(a)' /\ Outdated(a)'
    <3>1. Older(signout'[t].token, a)
      BY <1>1, <2>1 DEF Outdated
    <3>2. \A u \in Tabs : Older(signout'[u].token, a)
      BY <2>1, <3>1 DEF Outdated
    <3> QED
      BY <2>1, <3>2 DEF Live, Outdated, Older
  <2>2. \A u \in Tabs : refresh'[u].step = "granted" =>
           refresh'[u] = refresh[u] /\ refresh[u].token.sid # 0
    BY HeldTokens, TokenFacts DEF IInv, AnswersCurrent, Live, Sids
  <2>3. \A u \in Tabs : signin'[u] # NoToken => signin'[u] = signin[u] /\ signin[u].sid # 0
    BY HeldTokens, TokenFacts DEF IInv, Sids
  <2> QED
    BY <2>1, <2>2, <2>3, AnswersStay
<1>3. TokensKnown'
  <2>1. Known(NoToken)' /\ Known(jar.token)' /\ Known(signout[t].token)
    BY DEF IInv, TokensKnown, Known
  <2>2. \A u \in Tabs : Known(signout[u].token)'
    BY <2>1 DEF IInv, TokensKnown, Known
  <2> QED
    BY <2>1, <2>2 DEF IInv, TokensKnown, Known
<1>4. StepsOK' /\ AnswersDistinct' /\ SignedOutGone'
  BY DEF IInv, StepsOK, AnswersDistinct, SignedOutGone
<1> QED
  BY <1>2, <1>3, <1>4 DEF TokenInvariants

(* The row of a copy that is still usable is deleted: no answer is under   *)
(* way for its session.                                                    *)
LEMMA RevocationTokens ==
  ASSUME IInv, NEW t \in Tabs, signout[t].step = "read", Live(signout[t].token),
         sessions' = [sessions EXCEPT ![signout[t].token.sid] = 0],
         UNCHANGED <<opened, jar, refresh, signin, signedOut>>,
         signout'[t].step \in {"revoked", "refused"},
         signout'[t].token = signout[t].token,
         \A u \in Tabs \ {t} : signout'[u] = signout[u]
  PROVE  TokenInvariants'
<1>1. PICK k : k = signout[t].token
  OBVIOUS
<1>2. k \in Tokens /\ k.sid \in Sids /\ Live(k)
  BY <1>1, HeldTokens, TokenFacts DEF IInv, Live
<1>3. /\ sessions'[k.sid] = 0
      /\ \A s \in Sids \ {k.sid} : sessions'[s] = sessions[s]
  BY <1>1, <1>2, HeldTokens DEF IInv
<1>4. \A u \in Tabs : /\ refresh[u].step = "granted" => refresh[u].token.sid # k.sid
                      /\ signin[u].sid # k.sid
  BY <1>1, <1>2, LiveCopyMeansNoAnswer
<1>5. \A u \in Tabs : signout'[u].token = signout[u].token
  OBVIOUS
<1>6. StepsOK'
  BY <1>1, <1>2, TokenFacts DEF IInv, StepsOK
<1>7. TokensKnown'
  <2>1. \A a \in Tokens \cup {NoToken} : Known(a) => Known(a)'
    BY <1>3, TokenFacts DEF Known
  <2>2. \A s \in Sids : s > opened => sessions'[s] = 0
    BY <1>3 DEF IInv, TokensKnown
  <2> QED
    BY <1>5, <2>1, <2>2, HeldTokens DEF IInv, TokensKnown, Known
<1>8. AnswersCurrent'
  <2>1. ASSUME NEW a \in Tokens, a.sid # k.sid, Live(a), Outdated(a)
        PROVE  Live(a)' /\ Outdated(a)'
    BY <1>3, <1>5, <2>1, TokenFacts DEF Live, Outdated, Older
  <2>2. k.sid \in Nat
    BY <1>2 DEF Sids
  <2> QED
    BY <1>4, <2>1, <2>2, AnswersStay
<1>9. AnswersDistinct'
  BY DEF IInv, AnswersDistinct
<1>10. SignedOutGone'
  <2>1. \A s \in Sids : sessions[s] = 0 => sessions'[s] = 0
    BY <1>2, <1>3
  <2>2. \A u \in Tabs : signout[u].step = "revoked" => signout[u].token.sid \in Sids
    BY HeldTokens, TokenFacts DEF IInv, StepsOK
  <2>3. signedOut \subseteq Sids
    BY DEF IInv, TypeOK
  <2> QED
    BY <1>1, <1>3, <1>5, <2>1, <2>2, <2>3 DEF IInv, SignedOutGone
<1> QED
  BY <1>6, <1>7, <1>8, <1>9, <1>10 DEF TokenInvariants

(* An answer arrives: the jar takes over its token.                        *)
LEMMA RefreshGrantedTokens ==
  ASSUME IInv, NEW t \in Tabs, RefreshGranted(t)
  PROVE  TokenInvariants'
<1>1. PICK k : k = refresh[t].token
  OBVIOUS
<1>2. jar'.token = k /\ UNCHANGED <<sessions, opened, signout, signin, signedOut>>
  BY <1>1 DEF RefreshGranted, history
<1>3. /\ refresh'[t].step = "none" /\ refresh'[t].token = NoToken
      /\ \A u \in Tabs \ {t} : refresh'[u] = refresh[u]
  BY RefreshPoints DEF IInv, RefreshGranted
<1>4. refresh[t].step = "granted" /\ Live(k) /\ Known(k) /\ k \in Tokens
  BY <1>1, HeldTokens DEF IInv, RefreshGranted, AnswersCurrent, TokensKnown, Live
<1>5. /\ \A u \in Tabs \ {t} : refresh[u].step = "granted" => refresh[u].token.sid # k.sid
      /\ \A u \in Tabs : signin[u].sid # k.sid
  BY <1>1, <1>4 DEF IInv, AnswersDistinct
<1>6. \A a \in Tokens : Older(NoToken, a) /\ (a.sid # k.sid => Older(k, a))
  BY TokenFacts DEF Older, Sids
<1>7. AnswersCurrent'
  <2>1. ASSUME NEW a \in Tokens, a.sid # k.sid, Live(a), Outdated(a)
        PROVE  Live(a)' /\ Outdated(a)'
    <3>1. Older(jar'.token, a)
      BY <1>2, <1>6, <2>1
    <3> QED
      BY <1>2, <1>3, <1>6, <2>1, <3>1 DEF Live, Outdated, Older
  <2>2. k.sid \in Nat
    BY <1>4, TokenFacts DEF Sids
  <2>3. \A u \in Tabs : refresh'[u].step = "granted" =>
           refresh'[u] = refresh[u] /\ refresh[u].token.sid # k.sid
    BY <1>2, <1>3, <1>5
  <2>4. \A u \in Tabs : signin'[u] # NoToken => signin'[u] = signin[u] /\ signin[u].sid # k.sid
    BY <1>2, <1>3, <1>5
  <2> QED
    BY <2>1, <2>2, <2>3, <2>4, AnswersStay
<1>8. StepsOK' /\ TokensKnown' /\ AnswersDistinct'
  BY <1>2, <1>3, <1>4 DEF IInv, StepsOK, TokensKnown, Known, AnswersDistinct
<1>9. SignedOutGone'
  BY <1>2, <1>4, TokenFacts DEF IInv, SignedOutGone, Live
<1> QED
  BY <1>7, <1>8, <1>9 DEF TokenInvariants

LEMMA SigninDoneTokens ==
  ASSUME IInv, NEW t \in Tabs, SigninDone(t)
  PROVE  TokenInvariants'
<1>1. PICK k : k = signin[t]
  OBVIOUS
<1>2. jar'.token = k /\ UNCHANGED <<sessions, opened, refresh, signout, signedOut>>
  BY <1>1 DEF SigninDone, history
<1>3. signin'[t] = NoToken /\ \A u \in Tabs \ {t} : signin'[u] = signin[u]
  BY DEF IInv, TypeOK, SigninDone
<1>4. k # NoToken /\ Live(k) /\ Known(k) /\ k \in Tokens
  BY <1>1, HeldTokens DEF IInv, SigninDone, AnswersCurrent, TokensKnown
<1>5. /\ \A u \in Tabs : refresh[u].step = "granted" => refresh[u].token.sid # k.sid
      /\ \A u \in Tabs \ {t} : signin[u].sid # k.sid
  BY <1>1, <1>4 DEF IInv, AnswersDistinct
<1>6. \A a \in Tokens : a.sid # 0 /\ (a.sid # k.sid => Older(k, a))
  BY TokenFacts DEF Older, Sids
<1>7. AnswersCurrent'
  <2>1. ASSUME NEW a \in Tokens, a.sid # k.sid, Live(a), Outdated(a)
        PROVE  Live(a)' /\ Outdated(a)'
    <3>1. Older(jar'.token, a)
      BY <1>2, <1>6, <2>1
    <3> QED
      BY <1>2, <1>3, <1>6, <2>1, <3>1 DEF Live, Outdated, Older
  <2>2. k.sid \in Nat
    BY <1>4, TokenFacts DEF Sids
  <2>3. \A u \in Tabs : refresh'[u].step = "granted" =>
           refresh'[u] = refresh[u] /\ refresh[u].token.sid # k.sid
    BY <1>2, <1>3, <1>5
  <2>4. \A u \in Tabs : signin'[u] # NoToken => signin'[u] = signin[u] /\ signin[u].sid # k.sid
    BY <1>2, <1>3, <1>5
  <2> QED
    BY <2>1, <2>2, <2>3, <2>4, AnswersStay
<1>8. StepsOK' /\ TokensKnown'
  BY <1>2, <1>3, <1>4 DEF IInv, StepsOK, TokensKnown, Known
<1>9. SignedOutGone'
  BY <1>2, <1>4, TokenFacts DEF IInv, SignedOutGone, Live
<1>10. AnswersDistinct'
  <2>1. \A u \in Tabs : refresh[u].step = "granted" => refresh[u].token.sid # NoToken.sid
    BY HeldTokens, TokenFacts DEF IInv, AnswersCurrent, Live, Sids
  <2>2. \A u \in Tabs : signin[u] # NoToken => signin[u].sid # NoToken.sid
    BY HeldTokens, TokenFacts DEF IInv, Sids
  <2> QED
    BY <1>2, <1>3, <2>1, <2>2 DEF IInv, AnswersDistinct
<1> QED
  BY <1>7, <1>8, <1>9, <1>10 DEF TokenInvariants

LEMMA SigninLostTokens ==
  ASSUME IInv, NEW t \in Tabs, SigninLost(t)
  PROVE  TokenInvariants'
<1>1. UNCHANGED <<sessions, opened, jar, refresh, signout, signedOut>>
  BY DEF SigninLost, history
<1>2. signin'[t] = NoToken /\ \A u \in Tabs \ {t} : signin'[u] = signin[u]
  BY DEF IInv, TypeOK, SigninLost
<1>3. AnswersCurrent'
  <2>1. ASSUME NEW a \in Tokens, Live(a), Outdated(a)
        PROVE  Live(a)' /\ Outdated(a)'
    BY <1>1, <2>1 DEF Live, Outdated, Older
  <2>2. \A u \in Tabs : refresh'[u].step = "granted" =>
           refresh'[u] = refresh[u] /\ refresh[u].token.sid # 0
    BY <1>1, HeldTokens, TokenFacts DEF IInv, AnswersCurrent, Live, Sids
  <2>3. \A u \in Tabs : signin'[u] # NoToken => signin'[u] = signin[u] /\ signin[u].sid # 0
    BY <1>2, HeldTokens, TokenFacts DEF IInv, Sids
  <2> QED
    BY <2>1, <2>2, <2>3, AnswersStay
<1>4. StepsOK' /\ TokensKnown' /\ SignedOutGone'
  BY <1>1, <1>2 DEF IInv, StepsOK, TokensKnown, Known, SignedOutGone
<1>5. AnswersDistinct'
  <2>1. \A u \in Tabs : refresh[u].step = "granted" => refresh[u].token.sid # NoToken.sid
    BY HeldTokens, TokenFacts DEF IInv, AnswersCurrent, Live, Sids
  <2>2. \A u \in Tabs : signin[u] # NoToken => signin[u].sid # NoToken.sid
    BY HeldTokens, TokenFacts DEF IInv, Sids
  <2> QED
    BY <1>1, <1>2, <2>1, <2>2 DEF IInv, AnswersDistinct
<1> QED
  BY <1>3, <1>4, <1>5 DEF TokenInvariants

(* A new session: no token names it yet.                                   *)
LEMMA SigninTokens ==
  ASSUME IInv, NEW t \in Tabs, Signin(t)
  PROVE  TokenInvariants'
<1>1. PICK n : n = opened + 1 /\ n \in Sids
  BY HeldTokens, SessionAssumption DEF IInv, Signin, Sids
<1>2. UNCHANGED <<jar, refresh, signout, signedOut>> /\ opened' = n
  BY <1>1 DEF Signin, history
<1>3. sessions'[n] = 1 /\ \A s \in Sids \ {n} : sessions'[s] = sessions[s]
  BY <1>1, HeldTokens DEF IInv, Signin
<1>4. /\ signin'[t] = [sid |-> n, gen |-> 1]
      /\ \A u \in Tabs \ {t} : signin'[u] = signin[u]
  BY <1>1 DEF IInv, TypeOK, Signin
<1>5. \A k \in Tokens : Known(k) => k.sid # n /\ Known(k)'
  <2> SUFFICES ASSUME NEW k \in Tokens, Known(k)
               PROVE  k.sid # n /\ Known(k)'
    OBVIOUS
  <2>1. k.sid \in Sids /\ k.sid <= opened /\ opened \in Nat
    BY HeldTokens, TokenFacts DEF IInv, TypeOK, Known, Sids
  <2>2. k.sid # n /\ k.sid <= n
    BY <1>1, <2>1 DEF Sids
  <2>3. sessions'[k.sid] = sessions[k.sid]
    BY <1>3, <2>1, <2>2
  <2> QED
    BY <1>2, <2>2, <2>3 DEF Known
<1>6. Known(NoToken)' /\ NoToken.sid # n
  BY <1>1, TokenFacts DEF Known, Sids
<1>7. TypeOK
  BY DEF IInv
<1>8. /\ jar.token.sid # n /\ Known(jar.token)'
      /\ \A u \in Tabs : /\ refresh[u].token.sid # n
                         /\ signout[u].token.sid # n
                         /\ signin[u].sid # n
  BY <1>2, <1>5, <1>6, <1>7, HeldTokens DEF IInv, TokensKnown, Known
<1>9. \A u \in Tabs : Known(refresh[u].token)' /\ Known(signout[u].token)'
  BY <1>2, <1>5, <1>6, <1>7, HeldTokens DEF IInv, TokensKnown, Known
<1>10. \A u \in Tabs \ {t} : Known(signin[u])'
  BY <1>4, <1>5, <1>6, <1>7, HeldTokens DEF IInv, TokensKnown, Known
<1>11. Known(signin[t])'
  BY <1>1, <1>2, <1>3, <1>4 DEF Known, NoToken
<1>12. TokensKnown'
  <2>1. opened \in Nat
    BY <1>7, SessionAssumption DEF TypeOK, Sids
  <2>2. \A s \in Sids : s > n => s > opened /\ s # n
    BY <1>1, <2>1 DEF Sids
  <2>3. \A s \in Sids : s > n => sessions'[s] = 0
    BY <1>3, <2>2 DEF IInv, TokensKnown
  <2> QED
    BY <1>2, <1>8, <1>9, <1>10, <1>11, <2>3 DEF TokensKnown
<1>13. AnswersCurrent'
  <2>1. ASSUME NEW a \in Tokens, a.sid # n, Live(a), Outdated(a)
        PROVE  Live(a)' /\ Outdated(a)'
    BY <1>2, <1>3, <2>1, TokenFacts DEF Live, Outdated, Older
  <2>2. ASSUME NEW u \in Tabs, refresh[u].step = "granted"
        PROVE  (Live(refresh[u].token) /\ Outdated(refresh[u].token))'
    <3>1. refresh[u].token \in Tokens
      BY <2>2, HeldTokens DEF IInv, AnswersCurrent, Live
    <3> QED
      BY <1>2, <1>8, <2>1, <2>2, <3>1 DEF IInv, AnswersCurrent, Live, Outdated, Older
  <2>3. ASSUME NEW u \in Tabs \ {t}, signin[u] # NoToken
        PROVE  (Live(signin[u]) /\ Outdated(signin[u]))'
    <3>1. signin[u] \in Tokens /\ signin'[u] = signin[u]
      BY <1>4, <2>3, HeldTokens DEF IInv
    <3> QED
      BY <1>8, <2>1, <2>3, <3>1 DEF IInv, AnswersCurrent, Live, Outdated, Older
  <2>4. (Live(signin[t]) /\ Outdated(signin[t]))'
    BY <1>1, <1>2, <1>3, <1>4, <1>8 DEF Live, Outdated, Older, NoToken
  <2> QED
    BY <1>2, <1>4, <2>2, <2>3, <2>4 DEF AnswersCurrent
<1>14. AnswersDistinct'
  BY <1>2, <1>4, <1>8 DEF IInv, AnswersDistinct
<1>15. SignedOutGone'
  <2>1. \A s \in Sids : s # n => sessions'[s] = sessions[s]
    BY <1>3
  <2>2. \A u \in Tabs : signout[u].step = "revoked" => signout[u].token.sid \in Sids
    BY HeldTokens, TokenFacts DEF IInv, StepsOK
  <2>3. signedOut \subseteq Sids
    BY DEF IInv, TypeOK
  <2> QED
    BY <1>1, <1>2, <1>8, <2>1, <2>2, <2>3, HeldTokens DEF IInv, SignedOutGone
<1>16. StepsOK'
  BY <1>2 DEF IInv, StepsOK
<1> QED
  BY <1>12, <1>13, <1>14, <1>15, <1>16 DEF TokenInvariants

(* The tab is told: the revoked session joins signedOut, the jar is empty. *)
LEMMA SignoutDoneTokens ==
  ASSUME IInv, NEW t \in Tabs, SignoutDone(t)
  PROVE  TokenInvariants'
<1>1. PICK k : k = signout[t].token
  OBVIOUS
<1>2. /\ jar'.token = NoToken /\ signedOut' = signedOut \cup {k.sid}
      /\ UNCHANGED <<sessions, opened, refresh, signin>>
  BY <1>1 DEF SignoutDone, history
<1>3. /\ signout'[t].step = "none" /\ signout'[t].token = NoToken
      /\ \A u \in Tabs \ {t} : signout'[u] = signout[u]
  BY SignoutPoints DEF IInv, SignoutDone
<1>4. k \in Tokens /\ sessions[k.sid] = 0 /\ k.sid <= opened
  BY <1>1, HeldTokens DEF IInv, SignoutDone, StepsOK, SignedOutGone, TokensKnown, Known
<1>5. \A a \in Tokens : Older(NoToken, a)
  BY TokenFacts DEF Older, Sids
<1>6. AnswersCurrent'
  <2>1. ASSUME NEW a \in Tokens, Live(a), Outdated(a)
        PROVE  Live(a)' /\ Outdated(a)'
    BY <1>2, <1>3, <1>5, <2>1 DEF Live, Outdated, Older
  <2>2. \A u \in Tabs : refresh'[u].step = "granted" =>
           refresh'[u] = refresh[u] /\ refresh[u].token.sid # 0
    BY <1>2, HeldTokens, TokenFacts DEF IInv, AnswersCurrent, Live, Sids
  <2>3. \A u \in Tabs : signin'[u] # NoToken => signin'[u] = signin[u] /\ signin[u].sid # 0
    BY <1>2, HeldTokens, TokenFacts DEF IInv, Sids
  <2> QED
    BY <2>1, <2>2, <2>3, AnswersStay
<1>7. StepsOK' /\ TokensKnown' /\ AnswersDistinct'
  BY <1>2, <1>3 DEF IInv, StepsOK, TokensKnown, Known, AnswersDistinct
<1>8. SignedOutGone'
  <2>1. \A s \in signedOut' : s \in Sids
    BY <1>2, <1>4, TokenFacts DEF IInv, TypeOK
  <2> QED
    BY <1>2, <1>3, <1>4, <2>1, TokenFacts DEF IInv, SignedOutGone, Sids
<1> QED
  BY <1>6, <1>7, <1>8 DEF TokenInvariants

-----------------------------------------------------------------------------
LEMMA NextTokens ==
  ASSUME IInv, [Next]_vars
  PROVE  TokenInvariants'
<1> USE DEF history, requests
<1>1. CASE Expire
  BY <1>1, TokenlessSteps DEF Expire, Tokenless, TokenInvariants
<1>2. ASSUME NEW c \in Calls, Call(c)
      PROVE  TokenInvariants'
  <2>1. CASE Send(c)
    BY <2>1, TokenlessSteps DEF Send, Tokenless, TokenInvariants
  <2>2. CASE Resend(c)
    BY <2>2, TokenlessSteps DEF Resend, Tokenless, TokenInvariants
  <2>3. CASE Answered(c)
    BY <2>3, TokenlessSteps DEF Answered, Tokenless, TokenInvariants
  <2>4. CASE Unauthorized(c)
    BY <2>4, UnauthorizedTokens
  <2>5. CASE UnauthorizedAgain(c)
    BY <2>5, TokenlessSteps DEF UnauthorizedAgain, Tokenless, TokenInvariants
  <2> QED
    BY <1>2, <2>1, <2>2, <2>3, <2>4, <2>5 DEF Call
<1>3. ASSUME NEW t \in Tabs, Request(t)
      PROVE  TokenInvariants'
  <2>0. TypeOK
    BY DEF IInv
  <2>1. CASE RefreshReads(t)
    BY <2>1, RefreshReadsTokens
  <2>2. CASE RefreshUpdates(t)
    BY <2>2, RefreshUpdatesTokens
  <2>3. CASE RefreshErrors(t)
    BY <2>3, RefreshErrorsTokens
  <2>4. CASE RefreshGranted(t)
    BY <2>4, RefreshGrantedTokens
  <2>5. CASE RefreshRefused(t)
    BY <2>5, RefreshOverTokens DEF RefreshRefused
  <2>6. CASE RefreshLost(t)
    BY <2>6, RefreshOverTokens DEF RefreshLost
  <2>7. CASE SendSignout(t)
    <3>1. signout' = [signout EXCEPT ![t] = [step |-> "sent", token |-> jar.token]]
      BY <2>7 DEF SendSignout
    <3>2. /\ signout'[t].step = "sent" /\ signout'[t].token = jar.token
          /\ \A u \in Tabs \ {t} : signout'[u] = signout[u]
      BY <2>0, <3>1, SignoutPoints
    <3> QED
      BY <2>7, <3>2, SignoutStepTokens DEF SendSignout
  <2>8. CASE SignoutReads(t)
    <3>1. PICK step \in {"read", "refused"} :
            /\ signout' = [signout EXCEPT ![t].step = step]
            /\ step = "read" => Live(signout[t].token)
      BY <2>8 DEF SignoutReads
    <3>2. /\ signout'[t].step = step /\ signout'[t].token = signout[t].token
          /\ \A u \in Tabs \ {t} : signout'[u] = signout[u]
      BY <2>0, <3>1, SignoutPoints
    <3> QED
      BY <2>8, <3>1, <3>2, SignoutStepTokens DEF SignoutReads, Live
  <2>9. CASE SignoutDeletes(t)
    <3>1. CASE Live(signout[t].token)
      <4>1. /\ signout'[t].step = "revoked" /\ signout'[t].token = signout[t].token
            /\ \A u \in Tabs \ {t} : signout'[u] = signout[u]
        BY <2>0, <2>9, <3>1, SignoutPoints DEF SignoutDeletes
      <4> QED
        BY <2>9, <3>1, <4>1, RevocationTokens DEF SignoutDeletes
    <3>2. CASE ~Live(signout[t].token)
      <4>1. /\ signout'[t].step = "refused" /\ signout'[t].token = signout[t].token
            /\ \A u \in Tabs \ {t} : signout'[u] = signout[u]
        BY <2>0, <2>9, <3>2, SignoutPoints DEF SignoutDeletes
      <4> QED
        BY <2>9, <3>2, <4>1, SignoutStepTokens DEF SignoutDeletes
    <3> QED
      BY <3>1, <3>2
  <2>10. CASE SignoutErrors(t)
    <3>1. /\ signout'[t].step = "refused" /\ signout'[t].token = signout[t].token
          /\ \A u \in Tabs \ {t} : signout'[u] = signout[u]
      BY <2>0, <2>10, SignoutPoints DEF SignoutErrors
    <3>2. CASE UNCHANGED sessions
      BY <2>10, <3>1, <3>2, SignoutStepTokens DEF SignoutErrors
    <3>3. CASE /\ signout[t].step = "read" /\ Live(signout[t].token)
               /\ sessions' = [sessions EXCEPT ![signout[t].token.sid] = 0]
      BY <2>10, <3>1, <3>3, RevocationTokens DEF SignoutErrors
    <3> QED
      BY <2>10, <3>2, <3>3 DEF SignoutErrors
  <2>11. CASE SignoutDone(t)
    BY <2>11, SignoutDoneTokens
  <2>12. CASE SignoutRefused(t) \/ SignoutLost(t)
    <3>1. signout' = [signout EXCEPT ![t] = NoRequest]
      BY <2>12 DEF SignoutRefused, SignoutLost
    <3>2. /\ signout'[t].step = "none" /\ signout'[t].token = NoToken
          /\ \A u \in Tabs \ {t} : signout'[u] = signout[u]
      BY <2>0, <3>1, SignoutPoints
    <3> QED
      BY <2>12, <3>2, SignoutStepTokens DEF SignoutRefused, SignoutLost
  <2>13. CASE Signin(t)
    BY <2>13, SigninTokens
  <2>14. CASE SigninDone(t)
    BY <2>14, SigninDoneTokens
  <2>15. CASE SigninLost(t)
    BY <2>15, SigninLostTokens
  <2> QED
    BY <1>3, <2>1, <2>2, <2>3, <2>4, <2>5, <2>6, <2>7, <2>8, <2>9, <2>10, <2>11,
       <2>12, <2>13, <2>14, <2>15 DEF Request
<1>4. CASE UNCHANGED vars
  BY <1>4, TokenlessSteps DEF vars, Tokenless, TokenInvariants
<1> QED
  BY <1>1, <1>2, <1>3, <1>4 DEF Next

(* Every reachable state satisfies the inductive invariant.                *)
THEOREM Invariance == Spec => []IInv
<1>1. IInv /\ [Next]_vars => IInv'
  BY NextTypes, NextTokens DEF IInv, TokenInvariants
<1> QED
  BY InitInvariant, <1>1, PTL DEF Spec

(* Every variable keeps its type, and no call of a tab waits for a refresh *)
(* that is not under way (refreshSession in lib/api.ts).                   *)
THEOREM TypeCorrect == Spec => []TypeOK
BY Invariance, PTL DEF IInv

(* Of any number of tabs that refresh with the same cookie at most one is  *)
(* answered with a new token, and then the cookie is already spent: the    *)
(* UPDATE of PostgresSessionRepo names the selector it replaces.           *)
THEOREM RotationLeavesOneToken == Spec => []OneTokenPerSession
<1>1. IInv => OneTokenPerSession
  <2> SUFFICES ASSUME IInv, NEW s \in Sids
               PROVE  /\ \A t, u \in Underway(s) : t = u
                      /\ Underway(s) # {} => ~(jar.token.sid = s /\ Live(jar.token))
    BY DEF OneTokenPerSession
  <2>1. \A t \in Underway(s) : t \in Tabs /\ (\/ refresh[t].step = "granted" /\ refresh[t].token.sid = s
                                           \/ signin[t].sid = s)
    BY DEF Underway
  <2>2. \A t \in Tabs : signin[t].sid = s => signin[t] # NoToken
    BY TokenFacts DEF Sids
  <2>3. \A t, u \in Underway(s) : t = u
    BY <2>1, <2>2 DEF IInv, AnswersDistinct
  <2>4. \A t \in Underway(s) : ~(jar.token.sid = s /\ Live(jar.token))
    <3> SUFFICES ASSUME NEW t \in Underway(s), jar.token.sid = s, Live(jar.token)
                 PROVE  FALSE
      OBVIOUS
    <3>1. PICK a : /\ \/ a = refresh[t].token /\ refresh[t].step = "granted"
                      \/ a = signin[t] /\ signin[t] # NoToken
                   /\ a.sid = s
      BY <2>1, <2>2
    <3>2. Live(a) /\ Outdated(a)
      BY <2>1, <3>1 DEF IInv, AnswersCurrent
    <3>3. a \in Tokens /\ jar.token \in Tokens
      BY <2>1, <3>1, <3>2, HeldTokens DEF IInv, Live
    <3>4. jar.token.gen < a.gen
      BY <3>1, <3>2 DEF Outdated, Older
    <3>5. a.gen = jar.token.gen /\ a.gen \in Nat
      BY <3>1, <3>2, <3>3, TokenFacts DEF Live
    <3> QED
      BY <3>4, <3>5
  <2> QED
    BY <2>3, <2>4
<1> QED
  BY Invariance, <1>1, PTL

(* Once a tab is told that it is signed out, nothing brings the session    *)
(* back: not its row, not its cookie, not an answer still under way.       *)
THEOREM SignOutHolds == Spec => []SignOutIsFinal
<1>1. IInv => SignOutIsFinal
  <2> SUFFICES ASSUME IInv, NEW s \in signedOut
               PROVE  sessions[s] = 0 /\ jar.token.sid # s /\ Underway(s) = {}
    BY DEF SignOutIsFinal
  <2>1. s \in Sids /\ sessions[s] = 0 /\ jar.token.sid # s
    BY DEF IInv, TypeOK, SignedOutGone
  <2>2. \A t \in Tabs : /\ refresh[t].step = "granted" => refresh[t].token.sid # s
                        /\ signin[t].sid # s
    <3>1. \A a \in Tokens : Live(a) => a.sid # s
      BY <2>1, TokenFacts DEF Live
    <3>2. \A t \in Tabs : /\ refresh[t].step = "granted" => refresh[t].token \in Tokens
                          /\ signin[t] # NoToken => signin[t] \in Tokens
      BY HeldTokens DEF IInv, AnswersCurrent, Live
    <3>3. \A t \in Tabs : signin[t] = NoToken => signin[t].sid # s
      BY <2>1, TokenFacts DEF Sids
    <3>4. ASSUME NEW t \in Tabs, refresh[t].step = "granted"
          PROVE  refresh[t].token.sid # s
      <4>1. refresh[t].token \in Tokens
        BY <3>2, <3>4
      <4>2. Live(refresh[t].token)
        BY <3>4 DEF IInv, AnswersCurrent
      <4> QED
        BY <3>1, <4>1, <4>2
    <3>5. ASSUME NEW t \in Tabs, signin[t] # NoToken
          PROVE  signin[t].sid # s
      <4>1. signin[t] \in Tokens
        BY <3>2, <3>5
      <4>2. Live(signin[t])
        BY <3>5 DEF IInv, AnswersCurrent
      <4> QED
        BY <3>1, <4>1, <4>2
    <3> QED
      BY <3>3, <3>4, <3>5
  <2> QED
    BY <2>1, <2>2 DEF Underway
<1> QED
  BY Invariance, <1>1, PTL

(* A step that takes back no answer under way, and leaves the row of the   *)
(* jar's session alone, locks nobody out.                                  *)
LEMMA NothingTakenBack ==
  ASSUME IInv, NeverLockedOut,
         jar'.token = jar.token, faults' = faults,
         jar.token # NoToken => sessions'[jar.token.sid] = sessions[jar.token.sid],
         \A u \in Tabs : /\ refresh[u].step = "granted" => refresh'[u] = refresh[u]
                         /\ signout[u].step = "revoked" => signout'[u] = signout[u]
                         /\ signin[u] # NoToken => signin'[u] = signin[u]
  PROVE  NeverLockedOut'
<1> SUFFICES ASSUME faults = 0, jar.token # NoToken
             PROVE  \/ Live(jar.token)'
                    \/ Underway(jar.token.sid)' # {}
                    \/ \E t \in Tabs :
                         signout'[t].step = "revoked" /\ signout'[t].token.sid = jar'.token.sid
  BY DEF NeverLockedOut
<1>1. jar.token.sid \in Sids /\ jar.token.sid # NoToken.sid
  BY HeldTokens, TokenFacts DEF IInv, Sids
<1>2. CASE Live(jar.token)
  BY <1>2 DEF Live
<1>3. CASE Underway(jar.token.sid) # {}
  <2>1. PICK t \in Tabs : \/ refresh[t].step = "granted" /\ refresh[t].token.sid = jar.token.sid
                         \/ signin[t].sid = jar.token.sid
    BY <1>3 DEF Underway
  <2>2. signin[t].sid = jar.token.sid => signin[t] # NoToken
    BY <1>1
  <2>3. \/ refresh'[t].step = "granted" /\ refresh'[t].token.sid = jar'.token.sid
        \/ signin'[t].sid = jar'.token.sid
    BY <2>1, <2>2
  <2> QED
    BY <2>3 DEF Underway
<1>4. CASE \E t \in Tabs :
             signout[t].step = "revoked" /\ signout[t].token.sid = jar.token.sid
  BY <1>4
<1> QED
  BY <1>2, <1>3, <1>4 DEF NeverLockedOut

LEMMA RefreshUpdatesBacks ==
  ASSUME IInv, NeverLockedOut, NEW t \in Tabs, RefreshUpdates(t)
  PROVE  NeverLockedOut'
<1> DEFINE k == refresh[t].token
<1>1. /\ jar' = jar /\ faults' = faults /\ signout' = signout /\ signin' = signin
      /\ refresh[t].step = "read"
  BY DEF RefreshUpdates
<1>2. /\ k \in Tokens /\ sessions \in [Sids -> Nat]
  BY <1>1, HeldTokens DEF IInv, StepsOK
<1>3. CASE Live(k)
  <2>1. /\ sessions' = [sessions EXCEPT ![k.sid] = k.gen + 1]
        /\ refresh' = [refresh EXCEPT ![t] = [step |-> "granted", token |-> Renewed(k)]]
    BY <1>3 DEF RefreshUpdates, Rotated
  <2>2. /\ refresh'[t].step = "granted" /\ refresh'[t].token = Renewed(k)
        /\ \A u \in Tabs \ {t} : refresh'[u] = refresh[u]
    BY <2>1, RefreshPoints DEF IInv
  <2>3. CASE jar.token.sid = k.sid
    <3>1. refresh'[t].token.sid = k.sid
      BY <1>2, <2>2, TokenFacts
    <3> QED
      BY <1>1, <2>2, <2>3, <3>1 DEF NeverLockedOut, Underway
  <2>4. CASE jar.token.sid # k.sid
    <3>1. jar.token # NoToken => sessions'[jar.token.sid] = sessions[jar.token.sid]
      BY <1>2, <2>1, <2>4, HeldTokens, TokenFacts DEF IInv
    <3> QED
      BY <1>1, <2>2, <3>1, NothingTakenBack
  <2> QED
    BY <2>3, <2>4
<1>4. CASE ~Live(k)
  <2>1. refresh' = [refresh EXCEPT ![t].step = "refused"] /\ UNCHANGED sessions
    BY <1>4 DEF RefreshUpdates
  <2>2. \A u \in Tabs \ {t} : refresh'[u] = refresh[u]
    BY <2>1, RefreshPoints DEF IInv
  <2> QED
    BY <1>1, <2>1, <2>2, NothingTakenBack
<1> QED
  BY <1>3, <1>4

LEMMA SignoutDeletesBacks ==
  ASSUME IInv, NeverLockedOut, NEW t \in Tabs, SignoutDeletes(t)
  PROVE  NeverLockedOut'
<1> DEFINE k == signout[t].token
<1>1. /\ jar' = jar /\ faults' = faults /\ refresh' = refresh /\ signin' = signin
      /\ signout[t].step = "read"
  BY DEF SignoutDeletes
<1>2. k \in Tokens /\ sessions \in [Sids -> Nat]
  BY <1>1, HeldTokens DEF IInv, StepsOK
<1>3. CASE Live(k)
  <2>1. /\ sessions' = [sessions EXCEPT ![k.sid] = 0]
        /\ signout' = [signout EXCEPT ![t].step = "revoked"]
    BY <1>3 DEF SignoutDeletes
  <2>2. /\ signout'[t].step = "revoked" /\ signout'[t].token = k
        /\ \A u \in Tabs \ {t} : signout'[u] = signout[u]
    BY <2>1, SignoutPoints DEF IInv
  <2>3. CASE jar.token.sid = k.sid
    BY <1>1, <2>2, <2>3 DEF NeverLockedOut
  <2>4. CASE jar.token.sid # k.sid
    <3>1. jar.token # NoToken => sessions'[jar.token.sid] = sessions[jar.token.sid]
      BY <1>2, <2>1, <2>4, HeldTokens, TokenFacts DEF IInv
    <3> QED
      BY <1>1, <2>2, <3>1, NothingTakenBack
  <2> QED
    BY <2>3, <2>4
<1>4. CASE ~Live(k)
  <2>1. signout' = [signout EXCEPT ![t].step = "refused"] /\ UNCHANGED sessions
    BY <1>4 DEF SignoutDeletes
  <2>2. \A u \in Tabs \ {t} : signout'[u] = signout[u]
    BY <2>1, SignoutPoints DEF IInv
  <2> QED
    BY <1>1, <2>1, <2>2, NothingTakenBack
<1> QED
  BY <1>3, <1>4

LEMMA SigninBacks ==
  ASSUME IInv, NeverLockedOut, NEW t \in Tabs, Signin(t)
  PROVE  NeverLockedOut'
<1>1. /\ jar' = jar /\ faults' = faults /\ refresh' = refresh /\ signout' = signout
      /\ signin[t] = NoToken
      /\ sessions' = [sessions EXCEPT ![opened + 1] = 1]
      /\ signin' = [signin EXCEPT ![t] = [sid |-> opened + 1, gen |-> 1]]
  BY DEF Signin
<1>2. jar.token # NoToken => sessions'[jar.token.sid] = sessions[jar.token.sid]
  <2>1. jar.token # NoToken => jar.token.sid \in Sids /\ jar.token.sid <= opened
    BY HeldTokens, TokenFacts DEF IInv, TokensKnown, Known
  <2>2. opened \in Nat /\ sessions \in [Sids -> Nat] /\ Sids \subseteq Nat
    BY HeldTokens DEF IInv
  <2> QED
    BY <1>1, <2>1, <2>2
<1>3. \A u \in Tabs : signin[u] # NoToken => signin'[u] = signin[u]
  BY <1>1 DEF IInv, TypeOK
<1> QED
  BY <1>1, <1>2, <1>3, NothingTakenBack

(* An answer that reaches the browser holds the session's current token.   *)
LEMMA AnswerBacks ==
  ASSUME IInv, NEW t \in Tabs, RefreshGranted(t) \/ SigninDone(t)
  PROVE  NeverLockedOut'
<1>1. CASE RefreshGranted(t)
  <2>1. Live(refresh[t].token)
    BY <1>1 DEF RefreshGranted, IInv, AnswersCurrent
  <2> QED
    BY <1>1, <2>1 DEF RefreshGranted, NeverLockedOut, Live
<1>2. CASE SigninDone(t)
  <2>1. Live(signin[t])
    BY <1>2 DEF SigninDone, IInv, AnswersCurrent
  <2> QED
    BY <1>2, <2>1 DEF SigninDone, NeverLockedOut, Live
<1> QED
  BY <1>1, <1>2

LEMMA FaultExcuses ==
  ASSUME IInv, Fault
  PROVE  NeverLockedOut'
BY DEF Fault, NeverLockedOut, IInv, TypeOK

LEMMA NextBacks ==
  ASSUME IInv, NeverLockedOut, [Next]_vars
  PROVE  NeverLockedOut'
<1> USE DEF requests, history
<1>1. CASE Expire
  <2>1. jar'.token = jar.token
    BY <1>1 DEF Expire, IInv, TypeOK
  <2> QED
    BY <1>1, <2>1, NothingTakenBack DEF Expire
<1>2. ASSUME NEW c \in Calls, Call(c)
      PROVE  NeverLockedOut'
  <2>1. UNCHANGED <<sessions, jar, signout, signin, faults>>
    BY <1>2 DEF Call, Send, Resend, Answered, Unauthorized, UnauthorizedAgain
  <2>2. \A u \in Tabs : refresh[u].step = "granted" => refresh'[u] = refresh[u]
    <3>1. CASE Unauthorized(c)
      <4>1. CASE refresh[c[1]] = NoRequest
        <5>1. refresh' = [refresh EXCEPT ![c[1]] = [step |-> "sent", token |-> jar.token]]
          BY <3>1, <4>1 DEF Unauthorized
        <5>2. refresh[c[1]].step = "none"
          BY <4>1 DEF NoRequest
        <5> QED
          BY <5>1, <5>2, CallFacts, RefreshPoints DEF IInv
      <4>2. CASE refresh[c[1]] # NoRequest
        BY <3>1, <4>2 DEF Unauthorized
      <4> QED
        BY <4>1, <4>2
    <3>2. CASE ~Unauthorized(c)
      BY <1>2, <3>2 DEF Call, Send, Resend, Answered, UnauthorizedAgain
    <3> QED
      BY <3>1, <3>2
  <2> QED
    BY <2>1, <2>2, NothingTakenBack
<1>3. ASSUME NEW t \in Tabs, Request(t)
      PROVE  NeverLockedOut'
  <2>0. TypeOK
    BY DEF IInv
  <2>1. CASE RefreshReads(t)
    <3>1. PICK step : refresh' = [refresh EXCEPT ![t].step = step]
      BY <2>1 DEF RefreshReads
    <3>2. \A u \in Tabs \ {t} : refresh'[u] = refresh[u]
      BY <2>0, <3>1, RefreshPoints
    <3> QED
      BY <2>1, <3>2, NothingTakenBack DEF RefreshReads
  <2>2. CASE RefreshUpdates(t)
    BY <2>2, RefreshUpdatesBacks
  <2>3. CASE RefreshRefused(t)
    <3>1. \A u \in Tabs \ {t} : refresh'[u] = refresh[u]
      BY <2>0, <2>3, RefreshPoints DEF RefreshRefused
    <3> QED
      BY <2>3, <3>1, NothingTakenBack DEF RefreshRefused
  <2>4. CASE SendSignout(t)
    <3>1. signout' = [signout EXCEPT ![t] = [step |-> "sent", token |-> jar.token]]
      BY <2>4 DEF SendSignout
    <3>2. \A u \in Tabs \ {t} : signout'[u] = signout[u]
      BY <2>0, <3>1, SignoutPoints
    <3>3. signout[t].step = "none"
      BY <2>4 DEF SendSignout, NoRequest
    <3> QED
      BY <2>4, <3>2, <3>3, NothingTakenBack DEF SendSignout
  <2>5. CASE SignoutReads(t)
    <3>1. PICK step : signout' = [signout EXCEPT ![t].step = step]
      BY <2>5 DEF SignoutReads
    <3>2. \A u \in Tabs \ {t} : signout'[u] = signout[u]
      BY <2>0, <3>1, SignoutPoints
    <3> QED
      BY <2>5, <3>2, NothingTakenBack DEF SignoutReads
  <2>6. CASE SignoutDeletes(t)
    BY <2>6, SignoutDeletesBacks
  <2>7. CASE SignoutDone(t)
    BY <2>7 DEF SignoutDone, NeverLockedOut
  <2>8. CASE SignoutRefused(t)
    <3>1. \A u \in Tabs \ {t} : signout'[u] = signout[u]
      BY <2>0, <2>8, SignoutPoints DEF SignoutRefused
    <3> QED
      BY <2>8, <3>1, NothingTakenBack DEF SignoutRefused
  <2>9. CASE Signin(t)
    BY <2>9, SigninBacks
  <2>10. CASE RefreshGranted(t) \/ SigninDone(t)
    BY <2>10, AnswerBacks
  <2>11. CASE RefreshErrors(t) \/ RefreshLost(t) \/ SignoutErrors(t) \/ SignoutLost(t)
              \/ SigninLost(t)
    <3>1. Fault
      BY <2>11 DEF RefreshErrors, RefreshLost, SignoutErrors, SignoutLost, SigninLost
    <3> QED
      BY <3>1, FaultExcuses
  <2> QED
    BY <1>3, <2>1, <2>2, <2>3, <2>4, <2>5, <2>6, <2>7, <2>8, <2>9, <2>10, <2>11
    DEF Request
<1>4. CASE UNCHANGED vars
  BY <1>4, NothingTakenBack DEF vars
<1> QED
  BY <1>1, <1>2, <1>3, <1>4 DEF Next

(* Unless something failed, whatever number of tabs refresh, sign out and  *)
(* sign in at once, a spent cookie is one that an answer under way is      *)
(* about to replace or clear (Manager.Refresh, setAuthCookies).            *)
THEOREM NobodyLockedOut == Spec => []NeverLockedOut
<1>1. Init => NeverLockedOut
  BY SessionAssumption DEF Init, NeverLockedOut, Live, NoToken, Sids
<1>2. IInv /\ NeverLockedOut /\ [Next]_vars => NeverLockedOut'
  BY NextBacks
<1> QED
  BY Invariance, <1>1, <1>2, PTL DEF Spec

-----------------------------------------------------------------------------
(* What a tab is told of its session: the invariant follows a refresh, and *)
(* the call that waits for it, from the cookie it was sent with to the     *)
(* answer the tab acts on, and the workspace the call belongs to from the  *)
(* sign-in that opened it.                                                 *)

(* A refresh carries the current token until it is answered, ...           *)
RefreshesCurrent ==
  \A t \in Tabs : refresh[t].token # NoToken =>
    \/ Excused(refresh[t].token.sid)
    \/ refresh[t].step = "granted"
    \/ refresh[t].step \in {"sent", "read"} /\ Live(refresh[t].token)

(* ... only one tab has a refresh of a session under way, ...              *)
RefreshesApart ==
  \A t, u \in Tabs :
    t # u /\ refresh[t].token # NoToken /\ refresh[u].token.sid = refresh[t].token.sid
    => Excused(refresh[t].token.sid)

(* ... and until a refreshed call is sent again, the jar has its cookies.  *)
CallsCurrent ==
  \A c \in Calls :
    /\ call[c].step = "idle" => call[c] = NoCall
    /\ call[c].sid # 0 =>
         \/ Excused(call[c].sid)
         \/ call[c].step = "ready" /\ jar.access /\ jar.token.sid = call[c].sid
         \/ call[c].step = "sent" /\ call[c].ok
         \/ call[c].step = "waiting"

(* A workspace shows the session of the cookies, and a refresh that a call *)
(* of it would join is one for that session, ...                           *)
Renews(t, s) == refresh[t] = NoRequest \/ refresh[t].token.sid = s

ScreensCurrent ==
  \A t \in Tabs :
    /\ screen[t] <= opened
    /\ screen[t] # 0 =>
         /\ signin[t] = NoToken
         /\ \/ Excused(screen[t])
            \/ jar.token.sid = screen[t] /\ (jar.access \/ Renews(t, screen[t]))

(* ... so what is answered to a call that its workspace still waits for is *)
(* an answer for the session of that workspace.                            *)
Owned(c, s) ==
  \/ Excused(s)
  \/ call[c].step = "ready" /\ call[c].sid = s
  \/ call[c].step = "sent" /\ call[c].retry /\ call[c].sid = s
  \/ call[c].step = "sent" /\ ~call[c].retry /\ (call[c].ok \/ Renews(c[1], s))
  \/ call[c].step = "waiting" /\ Renews(c[1], s)

CallsOwned ==
  \A c \in Calls : ~call[c].left /\ call[c].step # "idle" =>
    screen[c[1]] # 0 /\ Owned(c, screen[c[1]])

(* None of these is about a session that is still to be opened.            *)
SessionsOpened ==
  /\ \A c \in Calls : call[c].sid <= opened
  /\ \A t \in Tabs : signin[t] # NoToken => signin[t].gen = 1

EndInvariant ==
  /\ NeverLockedOut
  /\ RefreshesCurrent
  /\ RefreshesApart
  /\ CallsCurrent
  /\ ScreensCurrent
  /\ CallsOwned
  /\ SessionsOpened

LEMMA InitEnd == Init => EndInvariant
BY SessionAssumption
   DEF Init, EndInvariant, NeverLockedOut, Live, RefreshesCurrent, RefreshesApart, CallsCurrent,
       ScreensCurrent, CallsOwned, SessionsOpened, NoRequest, NoCall, NoToken, Sids

-----------------------------------------------------------------------------
LEMMA RefreshSessions ==
  ASSUME IInv, NEW t \in Tabs
  PROVE  /\ refresh[t].token # NoToken =>
              refresh[t].token \in Tokens /\ refresh[t].token.sid \in Sids
              /\ refresh[t].token.sid <= opened
         /\ refresh[t].token.sid \in Nat /\ opened \in Nat /\ refresh[t].token.sid <= opened
         /\ NoRequest.token = NoToken
BY HeldTokens, TokenFacts DEF IInv, TokensKnown, Known, NoRequest

LEMMA CallSessions ==
  ASSUME IInv, NEW c \in Calls
  PROVE  call[c].sid \in Sids \cup {0} /\ call \in [Calls -> CallRecords]
BY DEF IInv, TypeOK, CallRecords

(* What excuses a session is never taken back.                             *)
StillExcused(s) == sessions'[s] = 0 \/ faults' > 0 \/ s \in contested'
StillLive(k) == k # NoToken /\ sessions'[k.sid] = k.gen

LEMMA ExcuseStays ==
  ASSUME IInv, [Next]_vars, NEW s \in Sids, s <= opened, Excused(s)
  PROVE  StillExcused(s)
<1> USE DEF history, requests
<1>1. /\ sessions \in [Sids -> Nat] /\ opened \in Nat /\ s \in Nat /\ faults \in Nat
  BY HeldTokens DEF IInv, TypeOK
<1>2. faults' >= faults /\ contested \subseteq contested'
  <2>1. CASE Expire \/ UNCHANGED vars
    BY <1>1, <2>1 DEF Expire, vars
  <2>2. ASSUME NEW c \in Calls, Call(c)
        PROVE  faults' >= faults /\ contested \subseteq contested'
    BY <1>1, <2>2 DEF Call, Send, Resend, Answered, Unauthorized, UnauthorizedAgain
  <2>3. ASSUME NEW t \in Tabs, Request(t)
        PROVE  faults' >= faults /\ contested \subseteq contested'
    BY <1>1, <2>3
    DEF Request, RefreshReads, RefreshUpdates, RefreshErrors, RefreshGranted, RefreshRefused,
        RefreshLost, SendSignout, SignoutReads, SignoutDeletes, SignoutErrors, SignoutDone,
        SignoutRefused, SignoutLost, Signin, SigninDone, SigninLost, Replaced, Fault
  <2> QED
    BY <2>1, <2>2, <2>3 DEF Next
<1>3. sessions[s] = 0 => sessions'[s] = 0 \/ faults' > 0
  <2> SUFFICES ASSUME sessions[s] = 0
               PROVE  sessions'[s] = 0 \/ faults' > 0
    OBVIOUS
  <2>1. CASE Expire \/ UNCHANGED vars
    BY <2>1 DEF Expire, vars
  <2>2. ASSUME NEW c \in Calls, Call(c)
        PROVE  sessions' = sessions
    BY <2>2 DEF Call, Send, Resend, Answered, Unauthorized, UnauthorizedAgain
  <2>3. ASSUME NEW t \in Tabs, Request(t)
        PROVE  sessions'[s] = 0 \/ faults' > 0
    <3>1. CASE RefreshUpdates(t)
      <4>1. CASE Live(refresh[t].token)
        <5>1. /\ refresh[t].token \in Tokens
              /\ sessions' = [sessions EXCEPT ![refresh[t].token.sid] = refresh[t].token.gen + 1]
          BY <3>1, <4>1, RefreshSessions DEF RefreshUpdates, Rotated, Live
        <5>2. refresh[t].token.sid # s
          BY <4>1, <5>1, TokenFacts DEF Live
        <5> QED
          BY <1>1, <5>1, <5>2
      <4>2. CASE ~Live(refresh[t].token)
        BY <3>1, <4>2 DEF RefreshUpdates
      <4> QED
        BY <4>1, <4>2
    <3>2. CASE SignoutDeletes(t)
      BY <1>1, <3>2 DEF SignoutDeletes
    <3>3. CASE Signin(t)
      BY <1>1, <3>3 DEF Signin
    <3>4. CASE Fault
      BY <1>1, <3>4 DEF Fault
    <3>5. CASE ~(RefreshUpdates(t) \/ SignoutDeletes(t) \/ Signin(t) \/ Fault)
      BY <2>3, <3>5
      DEF Request, RefreshReads, RefreshErrors, RefreshGranted, RefreshRefused, RefreshLost,
          SendSignout, SignoutReads, SignoutErrors, SignoutDone, SignoutRefused, SignoutLost,
          SigninDone, SigninLost
    <3> QED
      BY <3>1, <3>2, <3>3, <3>4, <3>5
  <2> QED
    BY <2>1, <2>2, <2>3 DEF Next
<1>4. faults' \in Nat
  BY <1>1, NextTypes DEF IInv, TypeOK
<1> QED
  BY <1>1, <1>2, <1>3, <1>4 DEF Excused, StillExcused

LEMMA LeftSids ==
  ASSUME IInv, NEW t \in Tabs, \E over : Leave(t, over), NEW c \in Calls
  PROVE  call'[c].sid \in {0, call[c].sid}
<1>1. NoCall.sid = 0
  BY DEF NoCall
<1> QED
  BY <1>1, LeavePoints, LeftFields DEF IInv

(* The calls are about sessions already opened.                            *)
LEMMA NextOpened ==
  ASSUME IInv, SessionsOpened, [Next]_vars
  PROVE  SessionsOpened'
<1> USE DEF history, requests
<1>1. /\ opened \in Nat /\ opened' >= opened
      /\ \A c \in Calls : call[c].sid \in Nat
      /\ \A c \in Calls : c[1] \in Tabs
      /\ signin \in [Tabs -> Tokens \cup {NoToken}]
  <2>1. opened \in Nat
    BY HeldTokens DEF IInv, TypeOK, Sids
  <2>2. opened' = opened \/ opened' = opened + 1
    BY DEF Next, vars, Expire, Call, Send, Resend, Answered, Unauthorized, UnauthorizedAgain,
           Request, RefreshReads, RefreshUpdates, RefreshErrors, RefreshGranted,
           RefreshRefused, RefreshLost, SendSignout, SignoutReads, SignoutDeletes,
           SignoutErrors, SignoutDone, SignoutRefused, SignoutLost, Signin, SigninDone,
           SigninLost
  <2>3. signin \in [Tabs -> Tokens \cup {NoToken}]
    BY DEF IInv, TypeOK
  <2>4. \A c \in Calls : call[c].sid \in Nat
    BY CallSessions DEF Sids
  <2> QED
    BY <2>1, <2>2, <2>3, <2>4, CallFacts
<1>2. \A t \in Tabs : signin'[t] # NoToken => signin'[t].gen = 1
  <2>1. CASE signin' = signin
    BY <2>1 DEF SessionsOpened
  <2>2. CASE signin' # signin
    <3>1. PICK t \in Tabs : Signin(t) \/ SigninDone(t) \/ SigninLost(t)
      BY <2>2 DEF Next, vars, Expire, Call, Send, Resend, Answered, Unauthorized,
           UnauthorizedAgain, Request, RefreshReads, RefreshUpdates, RefreshErrors,
           RefreshGranted, RefreshRefused, RefreshLost, SendSignout, SignoutReads,
           SignoutDeletes, SignoutErrors, SignoutDone, SignoutRefused, SignoutLost
    <3>2. \/ signin' = [signin EXCEPT ![t] = [sid |-> opened + 1, gen |-> 1]]
          \/ signin' = [signin EXCEPT ![t] = NoToken]
      BY <3>1 DEF Signin, SigninDone, SigninLost
    <3> QED
      BY <1>1, <3>2 DEF SessionsOpened
  <2> QED
    BY <2>1, <2>2
<1>3. \A c \in Calls : call'[c].sid <= opened
  <2>1. \A c \in Calls : call[c].sid <= opened /\ call \in [Calls -> CallRecords]
    BY CallSessions DEF SessionsOpened
  <2>2. CASE Expire \/ UNCHANGED vars
    BY <2>1, <2>2 DEF Expire, vars
  <2>3. ASSUME NEW c \in Calls, Call(c)
        PROVE  \A d \in Calls : call'[d].sid <= opened
    <3>1. CASE UnauthorizedAgain(c)
      BY <1>1, <2>1, <3>1, LeftSids DEF UnauthorizedAgain
    <3>2. CASE Answered(c)
      BY <1>1, <2>1, <3>2 DEF Answered, NoCall
    <3>3. CASE Resend(c)
      BY <2>1, <3>3 DEF Resend, CallRecords
    <3>4. CASE Send(c) \/ Unauthorized(c)
      BY <2>1, <3>4 DEF Send, Unauthorized, CallRecords
    <3> QED
      BY <2>3, <3>1, <3>2, <3>3, <3>4 DEF Call
  <2>4. ASSUME NEW t \in Tabs, Request(t)
        PROVE  \A d \in Calls : call'[d].sid <= opened
    <3>1. CASE RefreshGranted(t)
      BY <2>1, <3>1, RefreshSessions DEF RefreshGranted, Resume, CallRecords
    <3>2. CASE RefreshRefused(t) \/ SignoutDone(t) \/ RefreshLost(t)
      BY <1>1, <2>1, <3>2, LeftSids DEF RefreshRefused, SignoutDone, RefreshLost, NoCall
    <3>3. CASE ~(RefreshGranted(t) \/ RefreshRefused(t) \/ SignoutDone(t) \/ RefreshLost(t))
      BY <2>1, <2>4, <3>3
      DEF Request, RefreshReads, RefreshUpdates, RefreshErrors, SendSignout, SignoutReads,
          SignoutDeletes, SignoutErrors, SignoutRefused, SignoutLost, Signin, SigninDone,
          SigninLost
    <3> QED
      BY <3>1, <3>2, <3>3
  <2> QED
    BY <2>2, <2>3, <2>4 DEF Next
<1>4. (\A c \in Calls : call'[c].sid \in Nat) /\ opened' \in Nat
  <2>1. TypeOK'
    BY NextTypes DEF IInv
  <2> QED
    BY <2>1 DEF TypeOK, CallRecords, Sids
<1> QED
  BY <1>1, <1>2, <1>3, <1>4 DEF SessionsOpened

-----------------------------------------------------------------------------
(* The token of a refresh that goes on is still the current one, unless    *)
(* the refresh of another tab or a sign-out spent it.                      *)
LEMMA LiveStays ==
  ASSUME IInv, EndInvariant, [Next]_vars, NEW u \in Tabs,
         ~RefreshUpdates(u), refresh[u].token # NoToken, Live(refresh[u].token)
  PROVE  StillLive(refresh[u].token) \/ StillExcused(refresh[u].token.sid) \/ refresh'[u] # refresh[u]
<1> SUFFICES ASSUME refresh'[u] = refresh[u]
             PROVE  sessions'[refresh[u].token.sid] = sessions[refresh[u].token.sid]
                    \/ StillExcused(refresh'[u].token.sid)
  BY DEF Live, StillLive
<1> DEFINE k == refresh[u].token
<1> USE DEF history, requests
<1>1. /\ k \in Tokens /\ k.sid \in Sids /\ k.sid <= opened
      /\ sessions \in [Sids -> Nat] /\ opened \in Nat /\ Sids \subseteq Nat /\ faults \in Nat
  BY RefreshSessions, HeldTokens DEF IInv, TypeOK
<1>2. CASE sessions' = sessions
  BY <1>2
<1>3. CASE sessions' # sessions
  <2>1. PICK t \in Tabs : RefreshUpdates(t) \/ SignoutDeletes(t) \/ Signin(t) \/ Fault
    BY <1>3 DEF Next, vars, Expire, Call, Send, Resend, Answered, Unauthorized,
         UnauthorizedAgain, Request, RefreshReads, RefreshErrors, RefreshGranted,
         RefreshRefused, RefreshLost, SendSignout, SignoutReads, SignoutErrors, SignoutDone,
         SignoutRefused, SignoutLost, SigninDone, SigninLost
  <2>2. CASE RefreshUpdates(t)
    <3>1. t # u
      BY <2>2
    <3>2. CASE refresh[t].token.sid = k.sid
      <4>1. Excused(k.sid)
        BY <3>1, <3>2 DEF EndInvariant, RefreshesApart
      <4> QED
        BY <1>1, <4>1, ExcuseStays
    <3>3. CASE refresh[t].token.sid # k.sid
      BY <1>1, <2>2, <3>3 DEF RefreshUpdates, Rotated
    <3> QED
      BY <3>2, <3>3
  <2>3. CASE SignoutDeletes(t)
    <3>1. sessions'[k.sid] \in {0, sessions[k.sid]}
      BY <1>1, <2>3 DEF SignoutDeletes
    <3> QED
      BY <3>1 DEF Excused, StillExcused
  <2>4. CASE Signin(t)
    BY <1>1, <2>4 DEF Signin
  <2>5. CASE Fault
    BY <1>1, <2>5 DEF Fault, Excused, StillExcused
  <2> QED
    BY <2>1, <2>2, <2>3, <2>4, <2>5
<1> QED
  BY <1>2, <1>3

(* A request that starts copies the cookie: it is the current one, unless  *)
(* another tab refreshes with it already, or nothing it names is left.     *)
LEMMA CookieCurrent ==
  ASSUME IInv, EndInvariant, jar.token # NoToken
  PROVE  \/ Live(jar.token)
         \/ Excused(jar.token.sid)
         \/ jar.token.sid \in {refresh[t].token.sid : t \in Tabs}
<1>1. /\ jar.token \in Tokens /\ faults \in Nat
      /\ \A t \in Tabs : signin[t] \in Tokens \cup {NoToken}
  BY HeldTokens DEF IInv, TypeOK
<1>2. CASE faults > 0
  BY <1>2 DEF Excused, StillExcused
<1>3. CASE Live(jar.token)
  BY <1>3
<1>4. CASE \E t \in Tabs :
             signout[t].step = "revoked" /\ signout[t].token.sid = jar.token.sid
  BY <1>4 DEF IInv, SignedOutGone, Excused, StillExcused
<1>5. CASE Underway(jar.token.sid) # {}
  <2>1. PICK t \in Tabs : \/ refresh[t].token.sid = jar.token.sid
                         \/ signin[t].sid = jar.token.sid
    BY <1>5 DEF Underway
  <2>2. CASE refresh[t].token.sid = jar.token.sid
    BY <2>2
  <2>3. CASE signin[t].sid = jar.token.sid
    <3>1. signin[t] # NoToken
      BY <1>1, <2>3, TokenFacts DEF Sids
    <3>2. signin[t].gen = 1
      BY <3>1 DEF EndInvariant, SessionsOpened
    <3>3. jar.token.gen < 1
      BY <2>3, <3>1, <3>2 DEF IInv, AnswersCurrent, Outdated, Older
    <3> QED
      BY <1>1, <3>3, TokenFacts
  <2> QED
    BY <2>1, <2>2, <2>3
<1> QED
  BY <1>1, <1>2, <1>3, <1>4, <1>5 DEF EndInvariant, NeverLockedOut

LEMMA RefreshUpdatesShows ==
  ASSUME IInv, NEW u \in Tabs, RefreshUpdates(u)
  PROVE  refresh[u].step = "read" /\ refresh'[u].step \in {"granted", "refused"}
BY RefreshPoints DEF IInv, RefreshUpdates

(* A refresh that goes on keeps its session; one that starts is marked if  *)
(* another tab has one for the same session.                               *)
LEMMA NextRefreshes ==
  ASSUME IInv, EndInvariant, [Next]_vars, faults' = 0
  PROVE  RefreshesCurrent' /\ RefreshesApart'
<1> USE DEF history, requests
<1> DEFINE Good(u) ==
      refresh'[u].token # NoToken =>
        \/ StillExcused(refresh'[u].token.sid)
        \/ refresh'[u].step = "granted"
        \/ refresh'[u].step \in {"sent", "read"} /\ StillLive(refresh'[u].token)
<1>1. /\ TypeOK /\ faults \in Nat
      /\ \A u \in Tabs : RefreshUpdates(u) => refresh[u].step = "read"
  BY DEF IInv, TypeOK, RefreshUpdates
<1>2. \A u \in Tabs : refresh'[u] = refresh[u] /\ ~RefreshUpdates(u) => Good(u)
  <2> SUFFICES ASSUME NEW u \in Tabs, refresh'[u] = refresh[u], ~RefreshUpdates(u),
                      refresh[u].token # NoToken
               PROVE  Good(u)
    OBVIOUS
  <2>1. CASE Excused(refresh[u].token.sid)
    <3>1. StillExcused(refresh[u].token.sid)
      BY <2>1, RefreshSessions, ExcuseStays
    <3> QED
      BY <3>1
  <2>2. CASE refresh[u].step = "granted"
    BY <2>2
  <2>3. CASE refresh[u].step \in {"sent", "read"} /\ Live(refresh[u].token)
    BY <2>3, LiveStays
  <2> QED
    BY <2>1, <2>2, <2>3 DEF EndInvariant, RefreshesCurrent
<1>3. CASE UNCHANGED refresh /\ \A u \in Tabs : ~RefreshUpdates(u)
  <2>1. RefreshesCurrent'
    BY <1>2, <1>3 DEF RefreshesCurrent, Excused, StillExcused, Live, StillLive
  <2>2. RefreshesApart'
    BY <1>3, RefreshSessions, ExcuseStays
    DEF EndInvariant, RefreshesApart, Excused, StillExcused
  <2> QED
    BY <2>1, <2>2
<1>4. ASSUME NEW t \in Tabs, refresh'[t].token.sid \in {refresh[t].token.sid, 0},
             \A u \in Tabs \ {t} : refresh'[u] = refresh[u] /\ ~RefreshUpdates(u),
             TypeOK', Good(t)
      PROVE  RefreshesCurrent' /\ RefreshesApart'
  <2>1. RefreshesCurrent'
    BY <1>2, <1>4 DEF RefreshesCurrent, Excused, StillExcused, Live, StillLive
  <2>2. RefreshesApart'
    <3> SUFFICES ASSUME NEW u \in Tabs, NEW v \in Tabs, u # v,
                        refresh'[u].token # NoToken,
                        refresh'[v].token.sid = refresh'[u].token.sid
                 PROVE  StillExcused(refresh'[u].token.sid)
      BY DEF RefreshesApart, Excused, StillExcused
    <3>1. refresh'[u].token \in Tokens
      BY <1>4 DEF TypeOK, RequestRecords
    <3>2. refresh'[u].token.sid \in Sids /\ 0 \notin Sids
      BY <3>1, TokenFacts DEF Sids
    <3>3. /\ refresh[u].token.sid = refresh'[u].token.sid
          /\ refresh[v].token.sid = refresh'[v].token.sid
      BY <1>4, <3>2
    <3>4. refresh[u].token # NoToken
      BY <3>2, <3>3, TokenFacts
    <3>5. Excused(refresh[u].token.sid) /\ refresh[u].token.sid <= opened
      BY <3>3, <3>4, RefreshSessions DEF EndInvariant, RefreshesApart
    <3> QED
      BY <3>2, <3>3, <3>5, ExcuseStays
  <2> QED
    BY <2>1, <2>2
<1>5. TypeOK'
  BY NextTypes DEF IInv
<1>6. ASSUME NEW t \in Tabs, refresh' = [refresh EXCEPT ![t] = NoRequest],
             \A u \in Tabs \ {t} : ~RefreshUpdates(u)
      PROVE  RefreshesCurrent' /\ RefreshesApart'
  <2>1. /\ refresh'[t].token = NoToken
        /\ \A u \in Tabs \ {t} : refresh'[u] = refresh[u]
    BY <1>1, <1>6, RefreshPoints
  <2> QED
    BY <1>4, <1>5, <1>6, <2>1, TokenFacts
<1>7. ASSUME NEW c \in Calls, Call(c)
      PROVE  RefreshesCurrent' /\ RefreshesApart'
  <2>1. \A u \in Tabs : ~RefreshUpdates(u)
    <3> SUFFICES ASSUME NEW u \in Tabs, RefreshUpdates(u)
                 PROVE  FALSE
      OBVIOUS
    <3>1. refresh'[u] = refresh[u] \/ refresh'[u].step = "sent"
      BY <1>1, <1>7 DEF Call, Send, Resend, Answered, Unauthorized, UnauthorizedAgain, TypeOK
    <3> QED
      BY <3>1, RefreshUpdatesShows
  <2>2. CASE UNCHANGED refresh
    BY <1>3, <2>1, <2>2
  <2>3. CASE refresh' # refresh
    <3> DEFINE t == c[1]
    <3>1. /\ refresh' = [refresh EXCEPT ![t] = [step |-> "sent", token |-> jar.token]]
          /\ contested' = contested \cup
               (({jar.token.sid} \ {0}) \cap {refresh[v].token.sid : v \in Tabs})
          /\ UNCHANGED <<sessions, opened, faults>>
      BY <1>7, <2>3 DEF Call, Send, Resend, Answered, Unauthorized, UnauthorizedAgain
    <3>0. t \in Tabs
      BY CallFacts
    <3> HIDE DEF t
    <3>2. /\ refresh'[t].step = "sent" /\ refresh'[t].token = jar.token
          /\ \A u \in Tabs \ {t} : refresh'[u] = refresh[u]
      BY <1>1, <3>0, <3>1, RefreshPoints
    <3>6. jar.token # NoToken => jar.token.sid # 0
      BY HeldTokens, TokenFacts DEF IInv, Sids
    <3>3. Good(t)
      <4>1. CASE jar.token = NoToken
        BY <3>2, <4>1
      <4>2. CASE jar.token # NoToken /\ Live(jar.token)
        BY <3>1, <3>2, <4>2 DEF Live, StillLive
      <4>3. CASE jar.token # NoToken /\ Excused(jar.token.sid)
        BY <3>1, <3>2, <4>3 DEF Excused, StillExcused
      <4>4. CASE /\ jar.token # NoToken
                 /\ jar.token.sid \in {refresh[v].token.sid : v \in Tabs}
        BY <3>1, <3>2, <3>6, <4>4 DEF Excused, StillExcused
      <4> QED
        BY <4>1, <4>2, <4>3, <4>4, CookieCurrent
    <3>4. RefreshesCurrent'
      BY <1>2, <2>1, <3>2, <3>3
      DEF RefreshesCurrent, Excused, StillExcused, Live, StillLive
    <3>5. RefreshesApart'
      <4> SUFFICES ASSUME NEW u \in Tabs, NEW v \in Tabs, u # v,
                          refresh'[u].token # NoToken,
                          refresh'[v].token.sid = refresh'[u].token.sid
                   PROVE  StillExcused(refresh'[u].token.sid)
        BY DEF RefreshesApart, Excused, StillExcused
      <4>1. CASE u = t \/ v = t
        <5>1. /\ refresh'[u].token.sid = jar.token.sid
              /\ jar.token.sid \in {refresh[w].token.sid : w \in Tabs}
              /\ jar.token.sid # 0
          <6>1. refresh'[u].token.sid # 0
            <7>1. refresh'[u].token \in Tokens
              BY <1>5 DEF TypeOK, RequestRecords
            <7> QED
              BY <7>1, TokenFacts DEF Sids
          <6> QED
            BY <3>2, <4>1, <6>1
        <5> QED
          BY <3>1, <5>1 DEF Excused, StillExcused
      <4>2. CASE u # t /\ v # t
        <5>1. refresh'[u] = refresh[u] /\ refresh'[v] = refresh[v]
          BY <3>2, <4>2
        <5> QED
          BY <3>1, <5>1 DEF EndInvariant, RefreshesApart, Excused, StillExcused
      <4> QED
        BY <4>1, <4>2
    <3> QED
      BY <3>4, <3>5
  <2> QED
    BY <2>2, <2>3
<1>8. ASSUME NEW t \in Tabs, RefreshReads(t)
      PROVE  RefreshesCurrent' /\ RefreshesApart'
  <2> DEFINE step == IF Live(refresh[t].token) THEN "read" ELSE "refused"
  <2>1. /\ refresh[t].step = "sent"
        /\ refresh' = [refresh EXCEPT ![t].step = step]
        /\ UNCHANGED <<sessions, opened, contested, faults>>
    BY <1>8 DEF RefreshReads
  <2>2. /\ refresh'[t].step = step /\ refresh'[t].token = refresh[t].token
        /\ \A u \in Tabs \ {t} : refresh'[u] = refresh[u]
    BY <1>1, <2>1, RefreshPoints, ZenonT(30)
  <2>3. Good(t)
    BY <2>1, <2>2 DEF EndInvariant, RefreshesCurrent, Excused, StillExcused, Live, StillLive
  <2>4. \A u \in Tabs \ {t} : ~RefreshUpdates(u)
    BY <2>2, RefreshUpdatesShows
  <2> QED
    BY <1>4, <1>5, <2>2, <2>3, <2>4
<1>9. ASSUME NEW t \in Tabs, RefreshUpdates(t)
      PROVE  RefreshesCurrent' /\ RefreshesApart'
  <2> DEFINE k == refresh[t].token
  <2>1. /\ refresh[t].step = "read" /\ k # NoToken
        /\ k \in Tokens /\ UNCHANGED <<opened, contested, faults>>
    BY <1>9, RefreshSessions DEF RefreshUpdates, IInv, StepsOK
  <2>2. CASE Live(k)
    <3>1. refresh' = [refresh EXCEPT ![t] = [step |-> "granted", token |-> Renewed(k)]]
      BY <1>9, <2>2 DEF RefreshUpdates
    <3>0. Renewed(k).sid = k.sid
      BY <2>1, TokenFacts
    <3>2. /\ refresh'[t].step = "granted" /\ refresh'[t].token.sid = k.sid
          /\ \A u \in Tabs \ {t} : refresh'[u] = refresh[u]
      <4>1. PICK r : r = Renewed(k)
        OBVIOUS
      <4>2. refresh' = [refresh EXCEPT ![t] = [step |-> "granted", token |-> r]]
        BY <3>1, <4>1
      <4>3. /\ refresh'[t].step = "granted" /\ refresh'[t].token = r
            /\ \A u \in Tabs \ {t} : refresh'[u] = refresh[u]
        BY <1>1, <4>2, RefreshPoints
      <4> QED
        BY <3>0, <4>1, <4>3
    <3>3. \A u \in Tabs \ {t} : ~RefreshUpdates(u)
      BY <3>2, RefreshUpdatesShows
    <3> QED
      BY <1>4, <1>5, <3>2, <3>3
  <2>3. CASE ~Live(k)
    <3>1. refresh' = [refresh EXCEPT ![t].step = "refused"] /\ UNCHANGED sessions
      BY <1>9, <2>3 DEF RefreshUpdates
    <3>2. /\ refresh'[t].step = "refused" /\ refresh'[t].token = k
          /\ \A u \in Tabs \ {t} : refresh'[u] = refresh[u]
      BY <1>1, <3>1, RefreshPoints
    <3>3. Good(t)
      BY <2>1, <2>3, <3>1, <3>2 DEF EndInvariant, RefreshesCurrent, Excused, StillExcused
    <3>4. \A u \in Tabs \ {t} : ~RefreshUpdates(u)
      BY <3>2, RefreshUpdatesShows
    <3> QED
      BY <1>4, <1>5, <3>2, <3>3, <3>4
  <2> QED
    BY <2>2, <2>3
<1>10. ASSUME NEW t \in Tabs, Request(t), \A u \in Tabs : ~RefreshUpdates(u),
             \A u \in Tabs : ~RefreshReads(u)
      PROVE  RefreshesCurrent' /\ RefreshesApart'
  <2>1. \/ UNCHANGED refresh
        \/ refresh' = [refresh EXCEPT ![t] = NoRequest]
        \/ Fault
    BY <1>10 DEF Request, RefreshErrors, RefreshGranted, RefreshRefused, RefreshLost,
         SendSignout, SignoutReads, SignoutDeletes, SignoutErrors, SignoutDone,
         SignoutRefused, SignoutLost, Signin, SigninDone, SigninLost
  <2>2. ~Fault
    BY <1>1 DEF Fault
  <2> QED
    BY <1>3, <1>6, <1>10, <2>1, <2>2
<1>11. CASE Expire \/ UNCHANGED vars
  <2>1. UNCHANGED refresh
    BY <1>11 DEF Expire, vars
  <2>2. \A u \in Tabs : ~RefreshUpdates(u)
    BY <2>1, RefreshUpdatesShows
  <2> QED
    BY <1>3, <2>1, <2>2
<1> QED
  BY <1>7, <1>8, <1>9, <1>10, <1>11 DEF Next

(* The calls: one that is ready was refreshed, and only an answer that     *)
(* replaces the cookie of its session makes its second try fail.           *)
LEMMA NextCalls ==
  ASSUME IInv, EndInvariant, [Next]_vars
  PROVE  CallsCurrent'
<1> USE DEF history, requests
<1> DEFINE Good(d) ==
      /\ call'[d].step = "idle" => call'[d] = NoCall
      /\ call'[d].sid # 0 =>
           \/ StillExcused(call'[d].sid)
           \/ call'[d].step = "ready" /\ jar'.access /\ jar'.token.sid = call'[d].sid
           \/ call'[d].step = "sent" /\ call'[d].ok
           \/ call'[d].step = "waiting"
<1>1. /\ TypeOK /\ call \in [Calls -> CallRecords]
      /\ \A d \in Calls : call[d].sid # 0 /\ Excused(call[d].sid) => StillExcused(call[d].sid)
  <2>1. \A d \in Calls : call[d].sid \in Sids \cup {0} /\ call[d].sid <= opened
    BY CallSessions DEF EndInvariant, SessionsOpened
  <2> QED
    BY <2>1, ExcuseStays DEF IInv, TypeOK
<1>2. SUFFICES \A d \in Calls : Good(d)
  BY DEF CallsCurrent, Excused, StillExcused
(* A call that the step leaves alone needs the jar only while it is ready. *)
<1>3. ASSUME NEW d \in Calls, call'[d] = call[d],
             \/ call[d].step # "ready"
             \/ jar'.access /\ jar'.token.sid = jar.token.sid
             \/ jar'.access = jar.access /\ jar'.token.sid = jar.token.sid
             \/ jar.token.sid = 0 \/ StillExcused(jar.token.sid)
      PROVE  Good(d)
  BY <1>1, <1>3 DEF EndInvariant, CallsCurrent
<1>4. ASSUME NEW d \in Calls, call'[d] = NoCall
      PROVE  Good(d)
  BY <1>4 DEF NoCall
<1>9. ASSUME NEW t \in Tabs, NEW over, Leave(t, over), NEW d \in Calls,
             jar' = jar \/ jar.token.sid = 0 \/ StillExcused(jar.token.sid)
      PROVE  Good(d)
  <2>1. call[d].left => call[d].step # "idle"
    BY DEF EndInvariant, CallsCurrent, NoCall
  <2>2. \/ call'[d] = call[d]
        \/ call'[d] = LeftCall(d) /\ call[d].step # "idle"
        \/ call'[d] = NoCall
    BY <1>1, <1>9, <2>1, LeavePoints
  <2>3. CASE call'[d] = LeftCall(d) /\ call[d].step # "idle"
    <3>1. /\ call'[d].step = call[d].step /\ call'[d].sid = call[d].sid
          /\ call'[d].ok = call[d].ok
      BY <1>1, <2>3, LeftFields
    <3> QED
      BY <1>1, <1>9, <2>3, <3>1 DEF EndInvariant, CallsCurrent
  <2> QED
    BY <1>3, <1>4, <1>9, <2>2, <2>3
<1>5. CASE Expire
  BY <1>3, <1>5 DEF Expire
<1>6. ASSUME NEW c \in Calls, Call(c)
      PROVE  \A d \in Calls : Good(d)
  <2>0. jar' = jar
    BY <1>6 DEF Call, Send, Resend, Answered, Unauthorized, UnauthorizedAgain
  <2>1. CASE Send(c)
    <3>1. /\ call[c].sid = 0 /\ call'[c].sid = 0 /\ call'[c].step = "sent"
          /\ \A d \in Calls \ {c} : call'[d] = call[d]
      <4>1. call[c] = NoCall
        BY <2>1 DEF Send, EndInvariant, CallsCurrent
      <4>2. call' = [call EXCEPT ![c] = [NoCall EXCEPT !.step = "sent", !.ok = jar.access]]
        BY <2>1, <4>1 DEF Send
      <4> QED
        BY <1>1, <4>1, <4>2 DEF NoCall
    <3> QED
      BY <1>3, <2>0, <3>1
  <2>2. CASE Resend(c)
    <3>1. /\ call[c].step = "ready" /\ call'[c].step = "sent" /\ call'[c].ok = jar.access
          /\ call'[c].sid = call[c].sid
          /\ \A d \in Calls \ {c} : call'[d] = call[d]
      BY <1>1, <2>2 DEF Resend, CallRecords
    <3>2. Good(c)
      BY <1>1, <3>1 DEF EndInvariant, CallsCurrent
    <3> QED
      BY <1>3, <2>0, <3>1, <3>2
  <2>3. CASE Answered(c)
    BY <1>1, <1>3, <1>4, <2>0, <2>3 DEF Answered
  <2>4. CASE Unauthorized(c)
    <3>1. call'[c].step = "waiting" /\ \A d \in Calls \ {c} : call'[d] = call[d]
      BY <1>1, <2>4 DEF Unauthorized, CallRecords
    <3> QED
      BY <1>3, <2>0, <3>1
  <2>5. CASE UnauthorizedAgain(c)
    <3>1. c[1] \in Tabs /\ Leave(c[1], {c})
      BY <2>5, CallFacts DEF UnauthorizedAgain
    <3> QED
      BY <1>9, <2>0, <3>1
  <2> QED
    BY <1>6, <2>1, <2>2, <2>3, <2>4, <2>5 DEF Call
<1>7. ASSUME NEW t \in Tabs, Request(t)
      PROVE  \A d \in Calls : Good(d)
  <2>1. CASE RefreshGranted(t)
    <3>1. /\ jar'.access /\ jar'.token.sid = refresh[t].token.sid
          /\ contested' = contested \cup ({jar.token.sid} \ {0, refresh[t].token.sid})
          /\ call' = [d \in Calls |-> IF d \in Waiting(t)
               THEN [call[d] EXCEPT !.step = "ready", !.sid = refresh[t].token.sid]
               ELSE call[d]]
      BY <2>1 DEF RefreshGranted, Replaced, Resume
    <3>2. jar'.token.sid = jar.token.sid \/ jar.token.sid = 0 \/ StillExcused(jar.token.sid)
      BY <3>1 DEF StillExcused
    <3>3. ASSUME NEW d \in Calls
          PROVE  Good(d)
      <4>1. CASE d \in Waiting(t)
        <5>1. call'[d].step = "ready" /\ call'[d].sid = refresh[t].token.sid
          BY <1>1, <3>1, <4>1 DEF CallRecords
        <5> QED
          BY <3>1, <5>1
      <4>2. CASE d \notin Waiting(t)
        BY <1>3, <3>1, <3>2, <4>2
      <4> QED
        BY <4>1, <4>2
    <3> QED
      BY <3>3
  <2>2. CASE SigninDone(t)
    <3>1. /\ jar'.access /\ jar'.token.sid = signin[t].sid /\ call' = call
          /\ contested' = contested \cup ({jar.token.sid} \ {0, signin[t].sid})
      BY <2>2 DEF SigninDone, Replaced
    <3>2. jar'.token.sid = jar.token.sid \/ jar.token.sid = 0 \/ StillExcused(jar.token.sid)
      BY <3>1 DEF StillExcused
    <3> QED
      BY <1>3, <3>1, <3>2
  <2>3. CASE SignoutDone(t)
    <3>1. jar.token.sid = 0 \/ StillExcused(jar.token.sid)
      <4>1. /\ sessions[signout[t].token.sid] = 0 /\ sessions' = sessions
            /\ contested' = contested \cup ({jar.token.sid} \ {0, signout[t].token.sid})
        BY <2>3 DEF SignoutDone, Replaced, IInv, SignedOutGone
      <4> QED
        BY <4>1 DEF StillExcused
    <3> QED
      BY <1>9, <2>3, <3>1 DEF SignoutDone
  <2>4. CASE RefreshRefused(t)
    <3>1. jar' = jar /\ (call' = call \/ Leave(t, Waiting(t)))
      BY <2>4 DEF RefreshRefused
    <3> QED
      BY <1>3, <1>9, <3>1
  <2>5. CASE RefreshLost(t)
    BY <1>3, <1>4, <2>5 DEF RefreshLost
  <2>6. CASE ~(RefreshGranted(t) \/ SigninDone(t) \/ SignoutDone(t) \/ RefreshRefused(t)
               \/ RefreshLost(t))
    <3>1. jar' = jar /\ call' = call
      BY <1>7, <2>6
      DEF Request, RefreshReads, RefreshUpdates, RefreshErrors, SendSignout,
          SignoutReads, SignoutDeletes, SignoutErrors, SignoutRefused, SignoutLost, Signin,
          SigninLost
    <3> QED
      BY <1>3, <3>1
  <2> QED
    BY <2>1, <2>2, <2>3, <2>4, <2>5, <2>6
<1>8. CASE UNCHANGED vars
  BY <1>3, <1>8 DEF vars
<1> QED
  BY <1>5, <1>6, <1>7, <1>8 DEF Next

-----------------------------------------------------------------------------
(* A refresh that a call of a workspace would join stays one for its       *)
(* session: a tab that starts one takes the cookie.                        *)
LEMMA RenewsStays ==
  ASSUME IInv, EndInvariant, [Next]_vars, NEW t \in Tabs, screen[t] # 0,
         Renews(t, screen[t])
  PROVE  \/ Excused(screen[t])
         \/ refresh'[t] = NoRequest
         \/ refresh'[t].token.sid = screen[t]
<1> USE DEF history, requests
<1>1. TypeOK /\ \A u \in Tabs : refresh[u].token \in Tokens \cup {NoToken}
  BY HeldTokens DEF IInv
<1>2. \/ refresh'[t] = refresh[t]
      \/ refresh'[t] = NoRequest
      \/ refresh[t] = NoRequest /\ refresh'[t].token = jar.token
      \/ refresh[t] # NoRequest /\ refresh'[t].token.sid = refresh[t].token.sid
  <2>1. CASE Expire \/ UNCHANGED vars
    BY <2>1 DEF Expire, vars
  <2>2. ASSUME NEW c \in Calls, Call(c)
        PROVE  \/ refresh'[t] = refresh[t]
               \/ refresh[t] = NoRequest /\ refresh'[t].token = jar.token
    <3>1. CASE UNCHANGED refresh
      BY <3>1
    <3>2. CASE refresh' # refresh
      <4>1. /\ refresh[c[1]] = NoRequest /\ c[1] \in Tabs
            /\ refresh' = [refresh EXCEPT ![c[1]] = [step |-> "sent", token |-> jar.token]]
        BY <2>2, <3>2, CallFacts
        DEF Call, Send, Resend, Answered, Unauthorized, UnauthorizedAgain
      <4> QED
        BY <1>1, <4>1, RefreshPoints
    <3> QED
      BY <3>1, <3>2
  <2>3. ASSUME NEW u \in Tabs, Request(u)
        PROVE  \/ refresh'[t] = refresh[t]
               \/ refresh'[t] = NoRequest
               \/ refresh[t] # NoRequest /\ refresh'[t].token.sid = refresh[t].token.sid
    <3>1. CASE UNCHANGED refresh
      BY <3>1
    <3>2. CASE refresh' = [refresh EXCEPT ![u] = NoRequest]
      BY <1>1, <3>2 DEF TypeOK
    <3>3. CASE RefreshUpdates(u) /\ Live(refresh[u].token)
      <4>1. /\ refresh[u].step = "read" /\ Renewed(refresh[u].token).sid = refresh[u].token.sid
            /\ refresh' = [refresh EXCEPT ![u] =
                 [step |-> "granted", token |-> Renewed(refresh[u].token)]]
        BY <1>1, <3>3, TokenFacts DEF RefreshUpdates, Live
      <4>2. PICK k : k = Renewed(refresh[u].token)
        OBVIOUS
      <4>3. refresh' = [refresh EXCEPT ![u] = [step |-> "granted", token |-> k]]
        BY <4>1, <4>2
      <4>4. /\ refresh'[u].step = "granted" /\ refresh'[u].token = k
            /\ \A v \in Tabs \ {u} : refresh'[v] = refresh[v]
        BY <1>1, <4>3, RefreshPoints
      <4>5. refresh[u] # NoRequest
        BY <4>1 DEF NoRequest
      <4> QED
        BY <4>1, <4>2, <4>4, <4>5
    <3>4. CASE /\ ~(RefreshUpdates(u) /\ Live(refresh[u].token))
               /\ refresh' # refresh /\ refresh' # [refresh EXCEPT ![u] = NoRequest]
      <4>1. \E step : /\ refresh[u].step \in {"sent", "read"}
                      /\ refresh' = [refresh EXCEPT ![u].step = step]
        BY <2>3, <3>4 DEF Request, RefreshReads, RefreshUpdates, RefreshErrors, RefreshGranted,
           RefreshRefused, RefreshLost, SendSignout, SignoutReads, SignoutDeletes,
           SignoutErrors, SignoutDone, SignoutRefused, SignoutLost, Signin, SigninDone,
           SigninLost
      <4>2. refresh[u] # NoRequest
        BY <4>1 DEF NoRequest
      <4>3. /\ refresh'[u].token = refresh[u].token
            /\ \A v \in Tabs \ {u} : refresh'[v] = refresh[v]
        BY <1>1, <4>1, RefreshPoints
      <4> QED
        BY <4>2, <4>3
    <3> QED
      BY <3>1, <3>2, <3>3, <3>4
  <2> QED
    BY <2>1, <2>2, <2>3 DEF Next
<1>3. Excused(screen[t]) \/ jar.token.sid = screen[t]
  BY DEF EndInvariant, ScreensCurrent
<1> QED
  BY <1>2, <1>3 DEF Renews

(* The workspaces: an answer that takes the cookie of one away excuses it. *)
LEMMA NextScreens ==
  ASSUME IInv, EndInvariant, [Next]_vars
  PROVE  ScreensCurrent'
<1> USE DEF history, requests
<1>1. /\ TypeOK /\ opened \in Nat /\ opened' \in Nat /\ opened' >= opened
      /\ \A t \in Tabs : screen[t] \in Nat /\ screen[t] <= opened
      /\ \A t \in Tabs : screen[t] # 0 /\ Excused(screen[t]) => StillExcused(screen[t])
  <2>1. opened \in Nat /\ opened' \in Nat /\ TypeOK
    BY HeldTokens, NextTypes DEF IInv, TypeOK, Sids
  <2>2. opened' = opened \/ opened' = opened + 1
    BY DEF Next, vars, Expire, Call, Send, Resend, Answered, Unauthorized, UnauthorizedAgain,
           Request, RefreshReads, RefreshUpdates, RefreshErrors, RefreshGranted,
           RefreshRefused, RefreshLost, SendSignout, SignoutReads, SignoutDeletes,
           SignoutErrors, SignoutDone, SignoutRefused, SignoutLost, Signin, SigninDone,
           SigninLost
  <2>3. \A t \in Tabs : screen[t] \in Sids \cup {0} /\ screen[t] <= opened
    BY <2>1 DEF TypeOK, EndInvariant, ScreensCurrent
  <2>4. \A t \in Tabs : screen[t] \in Nat
    BY <2>3 DEF Sids
  <2> QED
    BY <2>1, <2>2, <2>3, <2>4, ExcuseStays
<1> SUFFICES ASSUME NEW t \in Tabs
             PROVE  /\ screen'[t] <= opened'
                    /\ screen'[t] # 0 =>
                         /\ signin'[t] = NoToken
                         /\ \/ StillExcused(screen'[t])
                            \/ /\ jar'.token.sid = screen'[t]
                               /\ \/ jar'.access
                                  \/ refresh'[t] = NoRequest
                                  \/ refresh'[t].token.sid = screen'[t]
  BY DEF ScreensCurrent, Excused, StillExcused, Renews
<1>2. CASE screen'[t] = 0
  BY <1>1, <1>2
<1>3. CASE screen'[t] # 0 /\ screen'[t] = screen[t]
  <2>1. signin'[t] = NoToken
    <3>1. signin[t] = NoToken
      BY <1>3 DEF EndInvariant, ScreensCurrent
    <3>2. \/ signin' = signin
          \/ \E u \in Tabs : screen[u] = 0 /\ signin' = [signin EXCEPT ![u] = [sid |-> opened + 1, gen |-> 1]]
          \/ \E u \in Tabs : signin' = [signin EXCEPT ![u] = NoToken]
      BY DEF Next, vars, Expire, Call, Send, Resend, Answered, Unauthorized,
           UnauthorizedAgain, Request, RefreshReads, RefreshUpdates, RefreshErrors,
           RefreshGranted, RefreshRefused, RefreshLost, SendSignout, SignoutReads,
           SignoutDeletes, SignoutErrors, SignoutDone, SignoutRefused, SignoutLost, Signin,
           SigninDone, SigninLost
    <3> QED
      BY <1>1, <1>3, <3>1, <3>2 DEF TypeOK
  <2>2. CASE Excused(screen[t])
    BY <1>1, <1>3, <2>1, <2>2
  <2>3. CASE ~Excused(screen[t])
    <3>1. jar.token.sid = screen[t] /\ (jar.access \/ Renews(t, screen[t]))
      BY <1>3, <2>3 DEF EndInvariant, ScreensCurrent
    <3>2. CASE jar' = jar
      BY <1>1, <1>3, <2>1, <2>3, <3>1, <3>2, RenewsStays
    <3>3. CASE Expire
      BY <1>1, <1>3, <2>1, <3>1, <3>3 DEF Expire
    <3>4. ASSUME NEW s, Replaced(s),
                 (jar'.token.sid = s /\ jar'.access) \/ sessions'[s] = 0
          PROVE  StillExcused(screen[t]) \/ (jar'.token.sid = screen[t] /\ jar'.access)
      <4>1. CASE s = screen[t]
        BY <3>4, <4>1 DEF StillExcused
      <4>2. CASE s # screen[t]
        BY <1>3, <3>1, <3>4, <4>2 DEF Replaced, StillExcused
      <4> QED
        BY <4>1, <4>2
    <3>5. ASSUME NEW u \in Tabs, RefreshGranted(u) \/ SigninDone(u) \/ SignoutDone(u)
          PROVE  \E s : /\ Replaced(s)
                        /\ (jar'.token.sid = s /\ jar'.access) \/ sessions'[s] = 0
      BY <3>5 DEF RefreshGranted, SigninDone, SignoutDone, IInv, SignedOutGone
    <3>6. \/ jar' = jar \/ Expire
          \/ \E u \in Tabs : RefreshGranted(u) \/ SigninDone(u) \/ SignoutDone(u)
      BY DEF Next, vars, Call, Send, Resend, Answered, Unauthorized, UnauthorizedAgain,
           Request, RefreshReads, RefreshUpdates, RefreshErrors, RefreshRefused, RefreshLost,
           SendSignout, SignoutReads, SignoutDeletes, SignoutErrors, SignoutRefused,
           SignoutLost, Signin, SigninLost
    <3>7. CASE \E u \in Tabs : RefreshGranted(u) \/ SigninDone(u) \/ SignoutDone(u)
      BY <1>1, <1>3, <2>1, <3>4, <3>5, <3>7
    <3> QED
      BY <3>2, <3>3, <3>6, <3>7
  <2> QED
    BY <2>2, <2>3
<1>4. CASE screen'[t] # 0 /\ screen'[t] # screen[t]
  <2>1. SigninDone(t)
    <3>1. \/ screen' = screen
          \/ \E u \in Tabs : screen' = [screen EXCEPT ![u] = 0]
          \/ \E u \in Tabs : SigninDone(u)
      BY CallFacts
      DEF Next, vars, Expire, Call, Send, Resend, Answered, Unauthorized, UnauthorizedAgain,
          Request, RefreshReads, RefreshUpdates, RefreshErrors, RefreshGranted,
          RefreshRefused, RefreshLost, SendSignout, SignoutReads, SignoutDeletes,
          SignoutErrors, SignoutDone, SignoutRefused, SignoutLost, Signin, SigninLost, Leave
    <3>2. ASSUME NEW u \in Tabs, SigninDone(u)
          PROVE  u = t
      BY <1>1, <1>4, <3>2 DEF SigninDone, TypeOK
    <3> QED
      BY <1>1, <1>4, <3>1, <3>2 DEF TypeOK
  <2>2. /\ screen'[t] = signin[t].sid /\ jar'.token = signin[t] /\ jar'.access
        /\ signin'[t] = NoToken /\ opened' = opened /\ signin[t] # NoToken
    BY <1>1, <2>1 DEF SigninDone, TypeOK
  <2>3. signin[t].sid <= opened
    BY <2>2 DEF IInv, TokensKnown, Known
  <2> QED
    BY <2>2, <2>3
<1> QED
  BY <1>2, <1>3, <1>4

(* The calls of a workspace: a refresh they wait for is one for its        *)
(* session, and who leaves the workspace keeps none of them.               *)
LEMMA NextOwned ==
  ASSUME IInv, EndInvariant, [Next]_vars
  PROVE  CallsOwned'
<1> USE DEF history, requests
<1> DEFINE StillOwned(d, s) ==
      \/ StillExcused(s)
      \/ call'[d].step = "ready" /\ call'[d].sid = s
      \/ call'[d].step = "sent" /\ call'[d].retry /\ call'[d].sid = s
      \/ /\ call'[d].step = "sent" /\ ~call'[d].retry
         /\ call'[d].ok \/ refresh'[d[1]] = NoRequest \/ refresh'[d[1]].token.sid = s
      \/ /\ call'[d].step = "waiting"
         /\ refresh'[d[1]] = NoRequest \/ refresh'[d[1]].token.sid = s
<1> DEFINE Good(d) == ~call'[d].left /\ call'[d].step # "idle" =>
                        screen'[d[1]] # 0 /\ StillOwned(d, screen'[d[1]])
<1>1. /\ TypeOK /\ call \in [Calls -> CallRecords]
      /\ \A t \in Tabs : screen[t] # 0 /\ Excused(screen[t]) => StillExcused(screen[t])
  <2>1. \A t \in Tabs : screen[t] \in Sids \cup {0} /\ screen[t] <= opened
    BY DEF IInv, TypeOK, EndInvariant, ScreensCurrent
  <2>2. TypeOK /\ call \in [Calls -> CallRecords]
    BY DEF IInv, TypeOK
  <2> QED
    BY <2>1, <2>2, ExcuseStays
<1>2. SUFFICES \A d \in Calls : Good(d)
  BY DEF CallsOwned, Owned, Excused, StillExcused, Renews
(* A call that the step leaves alone, in a workspace that stays.           *)
<1>3. ASSUME NEW d \in Calls, call'[d] = call[d], screen'[d[1]] = screen[d[1]]
      PROVE  Good(d)
  <2> SUFFICES ASSUME ~call[d].left, call[d].step # "idle"
               PROVE  screen[d[1]] # 0 /\ StillOwned(d, screen[d[1]])
    BY <1>3
  <2>1. d[1] \in Tabs /\ screen[d[1]] # 0 /\ Owned(d, screen[d[1]])
    BY CallFacts DEF EndInvariant, CallsOwned
  <2>2. Renews(d[1], screen[d[1]]) =>
          \/ StillExcused(screen[d[1]])
          \/ refresh'[d[1]] = NoRequest
          \/ refresh'[d[1]].token.sid = screen[d[1]]
    BY <1>1, <2>1, RenewsStays
  <2> QED
    BY <1>1, <1>3, <2>1, <2>2 DEF Owned
<1>4. ASSUME NEW d \in Calls, call'[d] = NoCall
      PROVE  Good(d)
  BY <1>4 DEF NoCall
<1>5. ASSUME NEW t \in Tabs, NEW over, Leave(t, over), NEW d \in Calls
      PROVE  Good(d)
  <2>1. CASE d[1] = t
    <3>1. call'[d] = NoCall \/ call'[d] = LeftCall(d)
      BY <1>1, <1>5, <2>1, LeavePoints
    <3>2. LeftCall(d).left
      BY <1>1, LeftFields
    <3> QED
      BY <1>4, <3>1, <3>2
  <2>2. CASE d[1] # t
    <3>1. call'[d] = call[d]
      BY <1>1, <1>5, <2>2, LeavePoints
    <3>2. screen'[d[1]] = screen[d[1]]
      BY <1>1, <1>5, <2>2, CallFacts DEF Leave, TypeOK
    <3> QED
      BY <1>3, <3>1, <3>2
  <2> QED
    BY <2>1, <2>2
<1>6. ASSUME NEW c \in Calls, Call(c)
      PROVE  \A d \in Calls : Good(d)
  <2>0. c[1] \in Tabs
    BY CallFacts
  <2>1. CASE Send(c)
    <3>1. /\ screen[c[1]] # 0 /\ UNCHANGED <<jar, screen, refresh>>
          /\ call[c] = NoCall /\ call'[c].step = "sent" /\ call'[c].ok = jar.access
          /\ call'[c].retry = FALSE
          /\ \A d \in Calls \ {c} : call'[d] = call[d]
      <4>1. call[c] = NoCall
        BY <2>1 DEF Send, EndInvariant, CallsCurrent
      <4>2. call' = [call EXCEPT ![c] = [NoCall EXCEPT !.step = "sent", !.ok = jar.access]]
        BY <2>1, <4>1 DEF Send
      <4> QED
        BY <1>1, <2>1, <4>1, <4>2 DEF Send, NoCall
    <3>2. \/ Excused(screen[c[1]])
          \/ jar.access \/ Renews(c[1], screen[c[1]])
      BY <2>0, <3>1 DEF EndInvariant, ScreensCurrent
    <3>3. Good(c)
      BY <1>1, <2>0, <3>1, <3>2 DEF Renews
    <3> QED
      BY <1>3, <3>1, <3>3
  <2>2. CASE Resend(c)
    <3>1. /\ call[c].step = "ready" /\ UNCHANGED <<screen, refresh>>
          /\ call'[c].step = "sent" /\ call'[c].retry = TRUE
          /\ call'[c].sid = call[c].sid /\ call'[c].left = call[c].left
          /\ \A d \in Calls \ {c} : call'[d] = call[d]
      BY <1>1, <2>2 DEF Resend, CallRecords
    <3>2. ~call[c].left => screen[c[1]] # 0
            /\ (Excused(screen[c[1]]) \/ call[c].sid = screen[c[1]])
      BY <3>1 DEF EndInvariant, CallsOwned, Owned
    <3>3. Good(c)
      BY <1>1, <2>0, <3>1, <3>2
    <3> QED
      BY <1>3, <3>1, <3>3
  <2>3. CASE Answered(c)
    BY <1>1, <1>3, <1>4, <2>3 DEF Answered
  <2>4. CASE Unauthorized(c)
    <3>1. /\ call[c].step = "sent" /\ ~call[c].ok /\ ~call[c].retry /\ screen' = screen
          /\ call'[c].step = "waiting" /\ call'[c].left = call[c].left
          /\ \A d \in Calls \ {c} : call'[d] = call[d]
      BY <1>1, <2>4 DEF Unauthorized, CallRecords
    <3>2. ~call[c].left => screen[c[1]] # 0
            /\ (Excused(screen[c[1]]) \/ Renews(c[1], screen[c[1]]))
      BY <3>1 DEF EndInvariant, CallsOwned, Owned
    <3>3. Good(c)
      BY <1>1, <2>0, <3>1, <3>2, RenewsStays
    <3> QED
      BY <1>3, <3>1, <3>3
  <2>5. CASE UnauthorizedAgain(c)
    BY <1>5, <2>0, <2>5 DEF UnauthorizedAgain
  <2> QED
    BY <1>6, <2>1, <2>2, <2>3, <2>4, <2>5 DEF Call
<1>7. ASSUME NEW t \in Tabs, Request(t)
      PROVE  \A d \in Calls : Good(d)
  <2>1. CASE RefreshGranted(t)
    <3>1. /\ refresh[t].step = "granted" /\ screen' = screen
          /\ call' = [d \in Calls |-> IF d \in Waiting(t)
               THEN [call[d] EXCEPT !.step = "ready", !.sid = refresh[t].token.sid]
               ELSE call[d]]
      BY <2>1 DEF RefreshGranted, Resume
    <3>4. refresh[t].step = "granted"
      BY <3>1
    <3>2. refresh[t] # NoRequest
      BY <3>4 DEF NoRequest
    <3>3. ASSUME NEW d \in Calls
          PROVE  Good(d)
      <4>1. CASE d \in Waiting(t)
        <5>1. /\ call'[d].step = "ready" /\ call'[d].sid = refresh[t].token.sid
              /\ call'[d].left = call[d].left /\ call[d].step = "waiting" /\ d[1] = t
          BY <1>1, <3>1, <4>1 DEF CallRecords, Waiting
        <5>2. ~call[d].left => screen[t] # 0
                /\ (Excused(screen[t]) \/ refresh[t].token.sid = screen[t])
          BY <3>2, <5>1 DEF EndInvariant, CallsOwned, Owned, Renews
        <5> QED
          BY <1>1, <3>1, <5>1, <5>2
      <4>2. CASE d \notin Waiting(t)
        BY <1>3, <3>1, <4>2
      <4> QED
        BY <4>1, <4>2
    <3> QED
      BY <3>3
  <2>2. CASE SigninDone(t)
    <3>1. /\ signin[t] # NoToken /\ call' = call
          /\ \A u \in Tabs \ {t} : screen'[u] = screen[u]
      BY <1>1, <2>2 DEF SigninDone, TypeOK
    <3>2. screen[t] = 0
      BY <3>1 DEF EndInvariant, ScreensCurrent
    <3>3. ASSUME NEW d \in Calls
          PROVE  Good(d)
      <4>1. CASE d[1] = t
        BY <3>1, <3>2, <4>1 DEF EndInvariant, CallsOwned
      <4>2. CASE d[1] # t
        BY <1>3, <3>1, <4>2, CallFacts
      <4> QED
        BY <4>1, <4>2
    <3> QED
      BY <3>3
  <2>3. CASE SignoutDone(t)
    BY <1>5, <2>3 DEF SignoutDone
  <2>4. CASE RefreshRefused(t)
    <3>1. (call' = call /\ screen' = screen) \/ Leave(t, Waiting(t))
      BY <2>4 DEF RefreshRefused
    <3> QED
      BY <1>3, <1>5, <3>1
  <2>5. CASE RefreshLost(t)
    BY <1>3, <1>4, <2>5 DEF RefreshLost
  <2>6. CASE ~(RefreshGranted(t) \/ SigninDone(t) \/ SignoutDone(t) \/ RefreshRefused(t)
               \/ RefreshLost(t))
    <3>1. screen' = screen /\ call' = call
      BY <1>7, <2>6
      DEF Request, RefreshReads, RefreshUpdates, RefreshErrors, SendSignout,
          SignoutReads, SignoutDeletes, SignoutErrors, SignoutRefused, SignoutLost, Signin,
          SigninLost
    <3> QED
      BY <1>3, <3>1
  <2> QED
    BY <2>1, <2>2, <2>3, <2>4, <2>5, <2>6
<1>8. CASE Expire \/ UNCHANGED vars
  BY <1>3, <1>8 DEF Expire, vars
<1> QED
  BY <1>6, <1>7, <1>8 DEF Next

(* What a call throws comes of a refresh that was refused or of a second   *)
(* 401, and both follow the session of the workspace.                      *)
LEMMA EndExcused ==
  ASSUME IInv, EndInvariant
  PROVE  EndedOrContested
<1> SUFFICES ASSUME NEW c \in Calls, Expired(c)
             PROVE  /\ Refused(c) # 0 => Excused(Refused(c))
                    /\ ~call[c].left /\ screen[c[1]] # 0 => Excused(screen[c[1]])
  BY DEF EndedOrContested
<1>1. /\ c[1] \in Tabs /\ NoToken.sid = 0
      /\ \A t \in Tabs : refresh[t].step = "refused" => refresh[t] # NoRequest
  BY CallFacts, TokenFacts DEF NoRequest
<1>2. CASE call[c].step = "waiting" /\ refresh[c[1]].step = "refused"
  <2>1. refresh[c[1]].token.sid # 0 => Excused(refresh[c[1]].token.sid)
    BY <1>1, <1>2 DEF EndInvariant, RefreshesCurrent
  <2>2. ~call[c].left =>
          Excused(screen[c[1]]) \/ refresh[c[1]].token.sid = screen[c[1]]
    BY <1>1, <1>2 DEF EndInvariant, CallsOwned, Owned, Renews
  <2> QED
    BY <1>2, <2>1, <2>2 DEF Refused
<1>3. CASE call[c].step = "sent" /\ ~call[c].ok /\ call[c].retry
  <2>1. call[c].sid # 0 => Excused(call[c].sid)
    BY <1>3 DEF EndInvariant, CallsCurrent
  <2>2. ~call[c].left => Excused(screen[c[1]]) \/ call[c].sid = screen[c[1]]
    BY <1>3 DEF EndInvariant, CallsOwned, Owned
  <2> QED
    BY <1>3, <2>1, <2>2 DEF Refused
<1> QED
  BY <1>2, <1>3 DEF Expired

(* No cookie is refused for good, and no workspace closed by a call of its *)
(* own, unless the session has ended, a request failed, or another tab     *)
(* refreshed with the same cookie or replaced it: the calls of one tab,    *)
(* which share its refreshRequest, never mislead each other, whatever is   *)
(* left over from the session before (refreshSession in lib/api.ts).       *)
THEOREM EndsAreHonest == Spec => []EndedOrContested
<1>1. IInv /\ EndInvariant /\ [Next]_vars => EndInvariant'
  <2> SUFFICES ASSUME IInv, EndInvariant, [Next]_vars
               PROVE  EndInvariant'
    OBVIOUS
  <2>1. NeverLockedOut'
    BY NextBacks DEF EndInvariant
  <2>2. RefreshesCurrent' /\ RefreshesApart'
    <3>1. CASE faults' = 0
      BY <3>1, NextRefreshes
    <3>2. CASE faults' # 0
      <4>1. faults' > 0
        BY <3>2, NextTypes DEF IInv, TypeOK
      <4> QED
        BY <4>1 DEF RefreshesCurrent, RefreshesApart, Excused
    <3> QED
      BY <3>1, <3>2
  <2>3. CallsCurrent' /\ ScreensCurrent' /\ CallsOwned' /\ SessionsOpened'
    BY NextCalls, NextScreens, NextOwned, NextOpened DEF EndInvariant
  <2> QED
    BY <2>1, <2>2, <2>3 DEF EndInvariant
<1>2. IInv /\ EndInvariant => EndedOrContested
  BY EndExcused
<1> QED
  BY InitEnd, Invariance, <1>1, <1>2, PTL DEF Spec
===============================================================================
