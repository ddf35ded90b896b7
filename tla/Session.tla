------------------------------- MODULE Session --------------------------------
(***************************************************************************)
(* The session of one browser: the auth service's sessions table and its   *)
(* Signin, Refresh and Signout handlers, the browser's cookie jar, and the *)
(* tabs that share the jar.  A tab sends API calls; a call answered 401    *)
(* waits for the tab's one refresh request (lib/api.ts shares it between   *)
(* the tab's calls, not between tabs) and is sent again.                   *)
(*                                                                         *)
(* A refresh token names a row by its selector and proves it with its      *)
(* validator; a refresh replaces both.  Here a row is a number that grows  *)
(* with every refresh, and a token is a session and that number.           *)
(***************************************************************************)
EXTENDS Naturals

CONSTANTS
  Tabs,         \* the tabs of the browser
  Lanes,        \* the API calls a tab may have under way at once
  MaxSessions,  \* bound on sessions opened
  MaxExpiries,  \* bound on expiries of the access token
  MaxFaults     \* bound on lost messages and failing database calls

ASSUME SessionAssumption ==
  /\ MaxSessions \in Nat \ {0}
  /\ MaxExpiries \in Nat
  /\ MaxFaults \in Nat

Sids == 1 .. MaxSessions
Tokens == [sid : Sids, gen : Nat \ {0}]
NoToken == [sid |-> 0, gen |-> 0]
Calls == Tabs \X Lanes

VARIABLES
  sessions,   \* the row of each session, 0 when there is none
  opened,     \* history: the number of sessions opened so far
  jar,        \* the cookies: the refresh token, and whether the access token is valid
  screen,     \* the session each tab shows the workspace of, 0 for the sign-in screen
  call,       \* the API calls of the tabs
  refresh,    \* each tab's refreshRequest
  signout,    \* each tab's sign-out request
  signin,     \* each tab's sign-in request, answered with this token
  signedOut,  \* history: the sessions a tab was told it signed out of
  contested,  \* history: the sessions whose cookie another tab got in the way of
  expiries, faults

requests == <<call, refresh, signout, signin>>
history == <<signedOut, contested>>
vars == <<sessions, opened, jar, screen, requests, history, expiries, faults>>

(* A call that was refreshed keeps the session; left says that the tab has *)
(* left the workspace the call was made in.                                *)
NoCall == [step |-> "idle", ok |-> FALSE, retry |-> FALSE, sid |-> 0, left |-> FALSE]
NoRequest == [step |-> "none", token |-> NoToken]

(* The browser is signed in, and its tabs show the workspace.              *)
Init ==
  /\ sessions = [s \in Sids |-> IF s = 1 THEN 1 ELSE 0]
  /\ opened = 1
  /\ jar = [token |-> [sid |-> 1, gen |-> 1], access |-> TRUE]
  /\ screen = [t \in Tabs |-> 1]
  /\ call = [c \in Calls |-> NoCall]
  /\ refresh = [t \in Tabs |-> NoRequest]
  /\ signout = [t \in Tabs |-> NoRequest]
  /\ signin = [t \in Tabs |-> NoToken]
  /\ signedOut = {} /\ contested = {}
  /\ expiries = 0 /\ faults = 0

Live(token) == token # NoToken /\ sessions[token.sid] = token.gen

Fault == faults < MaxFaults /\ faults' = faults + 1

-----------------------------------------------------------------------------
(* The access token reaches its TTL, which is longer than a round trip: a  *)
(* refreshed call has been sent again, and a refresh sent before the       *)
(* cookies of a sign-in were set has been answered.                        *)
Expire ==
  /\ jar.access
  /\ \A c \in Calls : call[c].step # "ready"
  /\ \A t \in Tabs : refresh[t] = NoRequest \/ refresh[t].token.sid = jar.token.sid
  /\ expiries < MaxExpiries
  /\ expiries' = expiries + 1
  /\ jar' = [jar EXCEPT !.access = FALSE]
  /\ UNCHANGED <<sessions, opened, screen, requests, history, faults>>

(* A call is sent with the cookies of the moment.                          *)
Send(c) ==
  /\ screen[c[1]] # 0
  /\ call[c].step = "idle"
  /\ call' = [call EXCEPT ![c] = [@ EXCEPT !.step = "sent", !.ok = jar.access]]
  /\ UNCHANGED <<sessions, opened, jar, screen, refresh, signout, signin,
                 history, expiries, faults>>

(* After the refresh the call is sent a second time.                       *)
Resend(c) ==
  /\ call[c].step = "ready"
  /\ call' = [call EXCEPT ![c] =
       [@ EXCEPT !.step = "sent", !.ok = jar.access, !.retry = TRUE]]
  /\ UNCHANGED <<sessions, opened, jar, screen, refresh, signout, signin,
                 history, expiries, faults>>

Answered(c) ==
  /\ call[c].step = "sent"
  /\ call[c].ok
  /\ call' = [call EXCEPT ![c] = NoCall]
  /\ UNCHANGED <<sessions, opened, jar, screen, refresh, signout, signin,
                 history, expiries, faults>>

(* 401: refreshSession starts a request unless the tab has one under way.  *)
UnauthorizedJoinsSettled(c) ==
  /\ call[c].step = "sent" /\ ~call[c].ok /\ ~call[c].retry
  /\ call' = [call EXCEPT ![c] = [@ EXCEPT !.step = "waiting"]]
  /\ UNCHANGED <<sessions, opened, jar, screen, refresh, signout, signin,
                 history, expiries, faults>>

Unauthorized(c) ==
  /\ call[c].step = "sent" /\ ~call[c].ok /\ ~call[c].retry
  /\ call' = [call EXCEPT ![c] = [@ EXCEPT !.step = "waiting"]]
  /\ IF refresh[c[1]] = NoRequest
     THEN /\ refresh' = [refresh EXCEPT ![c[1]] = [step |-> "sent", token |-> jar.token]]
          /\ contested' = contested \cup
               (({jar.token.sid} \ {0}) \cap {refresh[t].token.sid : t \in Tabs})
     ELSE UNCHANGED <<refresh, contested>>
  /\ UNCHANGED <<sessions, opened, jar, screen, signout, signin, signedOut,
                 expiries, faults>>

LeaveKeepsCalls(t, over) ==
  /\ screen' = [screen EXCEPT ![t] = 0]
  /\ call' = [c \in Calls |-> IF c \in over THEN NoCall ELSE call[c]]

(* The tab goes to the sign-in screen and cancels its calls, but for the   *)
(* staging of an upload, which goes on unless it is one of those just over *)
(* (a call is taken for a staging or a query only here, where it matters). *)
Leave(t, over) ==
  /\ screen' = [screen EXCEPT ![t] = 0]
  /\ \E staging \in SUBSET {c \in Calls : c[1] = t /\ call[c].step # "idle"} :
       call' = [c \in Calls |->
         IF c[1] # t THEN call[c]
         ELSE IF c \notin over /\ (call[c].left \/ c \in staging)
         THEN [call[c] EXCEPT !.left = TRUE]
         ELSE NoCall]

(* 401 again after a refresh: SessionExpired.                              *)
UnauthorizedAgain(c) ==
  /\ call[c].step = "sent" /\ ~call[c].ok /\ call[c].retry
  /\ Leave(c[1], {c})
  /\ UNCHANGED <<sessions, opened, jar, refresh, signout, signin, signedOut,
                 contested, expiries, faults>>

-----------------------------------------------------------------------------
(* Refresh, at the auth service: read the row and compare, then UPDATE ... *)
(* WHERE selector = the one read.  HandleRefresh answers every error 401.  *)
RefreshReads(t) ==
  /\ refresh[t].step = "sent"
  /\ refresh' = [refresh EXCEPT ![t].step =
       IF Live(refresh[t].token) THEN "read" ELSE "refused"]
  /\ UNCHANGED <<sessions, opened, jar, screen, call, signout, signin,
                 history, expiries, faults>>

Renewed(token) == [token EXCEPT !.gen = @ + 1]

Rotated(token) == [sessions EXCEPT ![token.sid] = token.gen + 1]

RefreshUpdatesAnyRow(t) ==
  /\ refresh[t].step = "read"
  /\ sessions' = Rotated(refresh[t].token)
  /\ refresh' = [refresh EXCEPT ![t] =
       [step |-> "granted", token |-> Renewed(refresh[t].token)]]
  /\ UNCHANGED <<opened, jar, screen, call, signout, signin, history,
                 expiries, faults>>

RefreshUpdates(t) ==
  LET token == refresh[t].token
  IN /\ refresh[t].step = "read"
     /\ \/ /\ Live(token)
           /\ sessions' = Rotated(token)
           /\ refresh' = [refresh EXCEPT ![t] =
                [step |-> "granted", token |-> Renewed(token)]]
        \/ /\ ~Live(token)
           /\ refresh' = [refresh EXCEPT ![t].step = "refused"]
           /\ UNCHANGED sessions
     /\ UNCHANGED <<opened, jar, screen, call, signout, signin, history,
                    expiries, faults>>

(* A database call of Refresh fails, the UPDATE perhaps after it was done. *)
RefreshErrors(t) ==
  /\ Fault
  /\ \/ /\ refresh[t].step \in {"sent", "read"}
        /\ UNCHANGED sessions
     \/ /\ refresh[t].step = "read"
        /\ Live(refresh[t].token)
        /\ sessions' = Rotated(refresh[t].token)
  /\ refresh' = [refresh EXCEPT ![t].step = "refused"]
  /\ UNCHANGED <<opened, jar, screen, call, signout, signin, history, expiries>>

-----------------------------------------------------------------------------
(* The answer of the refresh: the cookies are set, refreshRequest cleared, *)
(* and the calls that wait for it go on.                                   *)
Waiting(t) == {c \in Calls : c[1] = t /\ call[c].step = "waiting"}

Resume(t, sid) ==
  call' = [c \in Calls |->
    IF c \in Waiting(t) THEN [call[c] EXCEPT !.step = "ready", !.sid = sid]
    ELSE call[c]]

(* An answer for session sid overwrites the cookies, whosever they are by  *)
(* now: the browser sends no other session's token any more.               *)
Replaced(sid) == contested' = contested \cup ({jar.token.sid} \ {0, sid})

RefreshGrantedKeepsOldCookie(t) ==
  /\ refresh[t].step = "granted"
  /\ jar' = [jar EXCEPT !.access = TRUE]
  /\ refresh' = [refresh EXCEPT ![t] = NoRequest]
  /\ Resume(t, refresh[t].token.sid)
  /\ UNCHANGED <<sessions, opened, screen, signout, signin, history,
                 expiries, faults>>

RefreshGranted(t) ==
  /\ refresh[t].step = "granted"
  /\ jar' = [token |-> refresh[t].token, access |-> TRUE]
  /\ Replaced(refresh[t].token.sid)
  /\ refresh' = [refresh EXCEPT ![t] = NoRequest]
  /\ Resume(t, refresh[t].token.sid)
  /\ UNCHANGED <<sessions, opened, screen, signout, signin, signedOut,
                 expiries, faults>>

(* 401: every waiting call throws SessionExpired.                          *)
RefreshRefused(t) ==
  /\ refresh[t].step = "refused"
  /\ refresh' = [refresh EXCEPT ![t] = NoRequest]
  /\ IF Waiting(t) = {}
     THEN UNCHANGED <<screen, call>>
     ELSE Leave(t, Waiting(t))
  /\ UNCHANGED <<sessions, opened, jar, signout, signin, signedOut, contested,
                 expiries, faults>>

(* The request or its answer is lost: the waiting calls fail, the session  *)
(* is not taken for ended.                                                 *)
RefreshLost(t) ==
  /\ refresh[t].step \in {"sent", "granted", "refused"}
  /\ Fault
  /\ refresh' = [refresh EXCEPT ![t] = NoRequest]
  /\ call' = [c \in Calls |-> IF c \in Waiting(t) THEN NoCall ELSE call[c]]
  /\ UNCHANGED <<sessions, opened, jar, screen, signout, signin, history, expiries>>

-----------------------------------------------------------------------------
(* Sign-out: read the row and compare, then DELETE ... WHERE selector.     *)
SendSignout(t) ==
  /\ screen[t] # 0
  /\ signout[t] = NoRequest
  /\ signout' = [signout EXCEPT ![t] = [step |-> "sent", token |-> jar.token]]
  /\ UNCHANGED <<sessions, opened, jar, screen, call, refresh, signin,
                 history, expiries, faults>>

SignoutReads(t) ==
  /\ signout[t].step = "sent"
  /\ signout' = [signout EXCEPT ![t].step =
       IF Live(signout[t].token) THEN "read" ELSE "refused"]
  /\ UNCHANGED <<sessions, opened, jar, screen, call, refresh, signin,
                 history, expiries, faults>>

SignoutIgnoresMissingRow(t) ==
  LET token == signout[t].token
  IN /\ signout[t].step = "read"
     /\ sessions' = IF Live(token) THEN [sessions EXCEPT ![token.sid] = 0] ELSE sessions
     /\ signout' = [signout EXCEPT ![t].step = "revoked"]
     /\ UNCHANGED <<opened, jar, screen, call, refresh, signin, history,
                    expiries, faults>>

SignoutDeletes(t) ==
  LET token == signout[t].token
  IN /\ signout[t].step = "read"
     /\ \/ /\ Live(token)
           /\ sessions' = [sessions EXCEPT ![token.sid] = 0]
           /\ signout' = [signout EXCEPT ![t].step = "revoked"]
        \/ /\ ~Live(token)
           /\ signout' = [signout EXCEPT ![t].step = "refused"]
           /\ UNCHANGED sessions
     /\ UNCHANGED <<opened, jar, screen, call, refresh, signin, history,
                    expiries, faults>>

(* A database call of Signout fails, the DELETE perhaps after it was done. *)
SignoutErrors(t) ==
  /\ Fault
  /\ \/ /\ signout[t].step \in {"sent", "read"}
        /\ UNCHANGED sessions
     \/ /\ signout[t].step = "read"
        /\ Live(signout[t].token)
        /\ sessions' = [sessions EXCEPT ![signout[t].token.sid] = 0]
  /\ signout' = [signout EXCEPT ![t].step = "refused"]
  /\ UNCHANGED <<opened, jar, screen, call, refresh, signin, history, expiries>>

(* The cookies are overwritten with empty ones and the tab leaves.         *)
SignoutDone(t) ==
  /\ signout[t].step = "revoked"
  /\ jar' = [token |-> NoToken, access |-> FALSE]
  /\ signout' = [signout EXCEPT ![t] = NoRequest]
  /\ signedOut' = signedOut \cup {signout[t].token.sid}
  /\ Replaced(signout[t].token.sid)
  /\ Leave(t, {})
  /\ UNCHANGED <<sessions, opened, refresh, signin, expiries, faults>>

(* 500: the status line was sent before clearAuthCookies, so the cookies   *)
(* stay; the tab says it could not sign out.                               *)
SignoutRefused(t) ==
  /\ signout[t].step = "refused"
  /\ signout' = [signout EXCEPT ![t] = NoRequest]
  /\ UNCHANGED <<sessions, opened, jar, screen, call, refresh, signin,
                 history, expiries, faults>>

SignoutLost(t) ==
  /\ signout[t].step \in {"sent", "revoked", "refused"}
  /\ Fault
  /\ signout' = [signout EXCEPT ![t] = NoRequest]
  /\ UNCHANGED <<sessions, opened, jar, screen, call, refresh, signin,
                 history, expiries>>

-----------------------------------------------------------------------------
(* Sign-in: Create inserts a row beside any the browser left behind.       *)
Signin(t) ==
  /\ screen[t] = 0
  /\ signin[t] = NoToken
  /\ opened < MaxSessions
  /\ opened' = opened + 1
  /\ sessions' = [sessions EXCEPT ![opened + 1] = 1]
  /\ signin' = [signin EXCEPT ![t] = [sid |-> opened + 1, gen |-> 1]]
  /\ UNCHANGED <<jar, screen, call, refresh, signout, history, expiries, faults>>

SigninDone(t) ==
  /\ signin[t] # NoToken
  /\ jar' = [token |-> signin[t], access |-> TRUE]
  /\ Replaced(signin[t].sid)
  /\ signin' = [signin EXCEPT ![t] = NoToken]
  /\ screen' = [screen EXCEPT ![t] = signin[t].sid]
  /\ UNCHANGED <<sessions, opened, call, refresh, signout, signedOut,
                 expiries, faults>>

SigninLost(t) ==
  /\ signin[t] # NoToken
  /\ Fault
  /\ signin' = [signin EXCEPT ![t] = NoToken]
  /\ UNCHANGED <<sessions, opened, jar, screen, call, refresh, signout,
                 history, expiries>>

-----------------------------------------------------------------------------
Call(c) ==
  \/ Send(c)
  \/ Resend(c)
  \/ Answered(c)
  \/ Unauthorized(c)
  \/ UnauthorizedAgain(c)

Request(t) ==
  \/ RefreshReads(t)
  \/ RefreshUpdates(t)
  \/ RefreshErrors(t)
  \/ RefreshGranted(t)
  \/ RefreshRefused(t)
  \/ RefreshLost(t)
  \/ SendSignout(t)
  \/ SignoutReads(t)
  \/ SignoutDeletes(t)
  \/ SignoutErrors(t)
  \/ SignoutDone(t)
  \/ SignoutRefused(t)
  \/ SignoutLost(t)
  \/ Signin(t)
  \/ SigninDone(t)
  \/ SigninLost(t)

Next ==
  \/ Expire
  \/ \E c \in Calls : Call(c)
  \/ \E t \in Tabs : Request(t)

Spec == Init /\ [][Next]_vars
-----------------------------------------------------------------------------
CallRecords == [step : {"idle", "sent", "waiting", "ready"}, ok : BOOLEAN,
                retry : BOOLEAN, sid : Sids \cup {0}, left : BOOLEAN]

RequestRecords(steps) == [step : steps, token : Tokens \cup {NoToken}]
RefreshSteps == {"none", "sent", "read", "granted", "refused"}
SignoutSteps == {"none", "sent", "read", "revoked", "refused"}

(* Besides the types: a call waits only for a refresh that is under way.   *)
TypeOK ==
  /\ sessions \in [Sids -> Nat]
  /\ opened \in Sids
  /\ jar \in [token : Tokens \cup {NoToken}, access : BOOLEAN]
  /\ screen \in [Tabs -> Sids \cup {0}]
  /\ call \in [Calls -> CallRecords]
  /\ refresh \in [Tabs -> RequestRecords(RefreshSteps)]
  /\ signout \in [Tabs -> RequestRecords(SignoutSteps)]
  /\ signin \in [Tabs -> Tokens \cup {NoToken}]
  /\ signedOut \subseteq Sids
  /\ contested \subseteq Sids
  /\ expiries \in 0 .. MaxExpiries /\ faults \in 0 .. MaxFaults
  /\ \A c \in Calls : call[c].step = "waiting" => refresh[c[1]] # NoRequest

(* The tokens the auth service has sent and the browser not yet stored.    *)
Underway(s) ==
  {t \in Tabs : refresh[t].step = "granted" /\ refresh[t].token.sid = s}
    \cup {t \in Tabs : signin[t].sid = s}

(* Rotation leaves one token: of tabs that refresh with the same cookie at *)
(* most one is answered with a new token, and while that answer is under   *)
(* way the jar's token is already spent (PostgresSessionRepo.Update).      *)
OneTokenPerSession ==
  \A s \in Sids :
    /\ \A t, u \in Underway(s) : t = u
    /\ Underway(s) # {} => ~(jar.token.sid = s /\ Live(jar.token))

(* Sign-out is final: once a tab was told that it is signed out, the       *)
(* session has no row, and no answer still under way puts a token of it    *)
(* back into the jar (Manager.Delete against Manager.Refresh).             *)
SignOutIsFinal ==
  \A s \in signedOut :
    /\ sessions[s] = 0
    /\ jar.token.sid # s
    /\ Underway(s) = {}

(* Nobody is locked out: unless something failed, a token in the jar that  *)
(* is not the current one of its session is about to be replaced or        *)
(* cleared by an answer under way (Manager.Refresh, setAuthCookies).       *)
NeverLockedOut ==
  faults = 0 /\ jar.token # NoToken =>
    \/ Live(jar.token)
    \/ Underway(jar.token.sid) # {}
    \/ \E t \in Tabs :
         signout[t].step = "revoked" /\ signout[t].token.sid = jar.token.sid

(* "HandleSignout revokes the session and clears its cookies."             *)
(* (web/handlers.go:119): an answered sign-out leaves no token in the jar. *)
SignoutClearsCookies ==
  [][\A t \in Tabs :
       signout[t] # NoRequest /\ signout'[t] = NoRequest /\ faults' = faults
       => jar'.token = NoToken]_vars

(* The call is about to throw SessionExpired, for cookies of a session.    *)
Expired(c) ==
  \/ call[c].step = "waiting" /\ refresh[c[1]].step = "refused"
  \/ call[c].step = "sent" /\ ~call[c].ok /\ call[c].retry

Refused(c) ==
  IF call[c].step = "waiting" THEN refresh[c[1]].token.sid ELSE call[c].sid

(* A session has ended, or the browser was misled about it: by a failure,  *)
(* or by another tab, which refreshed with the same cookie, or whose       *)
(* answer for another session replaced it.                                 *)
Excused(s) == sessions[s] = 0 \/ faults > 0 \/ s \in contested

(* No cookie is refused for good unless its session is excused, and the    *)
(* workspace that a call of its own closes was of an excused session too:  *)
(* the calls of a tab never mislead each other, they share refreshRequest  *)
(* (lib/api.ts:42), and a workspace outlives its queries.  Only an upload  *)
(* left over from a session before may close the workspace of a live one   *)
(* (onExpired, upload-dialog.tsx:76).                                      *)
EndedOrContested ==
  \A c \in Calls : Expired(c) =>
    /\ Refused(c) # 0 => Excused(Refused(c))
    /\ ~call[c].left /\ screen[c[1]] # 0 => Excused(screen[c[1]])
===============================================================================
