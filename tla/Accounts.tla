------------------------------ MODULE Accounts ------------------------------
(***************************************************************************)
(* The accounts of the auth service and what they open: registration with  *)
(* Argon2 hashes, sign-in against the stored hash, the sessions a sign-in  *)
(* opens, and the access tokens the dashboard and the rag service accept   *)
(* without asking the auth service.  The service may be restarted with     *)
(* other settings at any time.                                             *)
(*                                                                         *)
(* The clock counts ticks, Second of them to a second; a verifier's clock  *)
(* is at most Skew ticks off.  How a refresh token is rotated and raced    *)
(* for by tabs is the subject of Session: here a session's holder has the  *)
(* current refresh token or not.                                           *)
(***************************************************************************)
EXTENDS Integers, Sequences

CONSTANTS
  Names,              \* the usernames tried
  InvalidNames,       \* those usernameRegex or the length limits refuse
  Characters,         \* what passwords and peppers are made of
  Passwords,          \* the passwords tried
  MinPasswordLength, MaxPasswordLength,
  Settings,           \* what the service may be configured with
  MaxAllowed,         \* Verify's limits for memory, time and threads
  PublicKey,          \* the key the verifiers are configured with
  TTL,                \* the lifetime of an access token, in ticks
  Second,             \* ticks per second
  Skew,               \* how far a verifier's clock may be off
  RequestTime,        \* the longest an auth request takes
  MaxRegistrations, MaxSessions, MaxTime, MaxRestarts, MaxFaults,   \* bounds
  None

ASSUME AccountsAssumption ==
  /\ InvalidNames \subseteq Names
  /\ Passwords \subseteq Seq(Characters)
  /\ \A s \in Settings : s.pepper \in Seq(Characters)
  /\ None # PublicKey
  /\ Second \in Nat \ {0}
  /\ TTL \in Nat /\ Skew \in Nat /\ RequestTime \in Nat
  /\ TTL % Second = 0
  /\ {MaxRegistrations, MaxSessions, MaxTime, MaxRestarts, MaxFaults} \subseteq Nat

VARIABLES
  settings,  \* the configuration in force
  users,     \* table users: the password_hash of each name that has a row
  reg,       \* the calls of Register: their input, their settings, how far they are
  sessions,  \* the sessions opened so far, with their row and access token
  clock, restarts, faults

vars == <<settings, users, reg, sessions, clock, restarts, faults>>

Sids == DOMAIN sessions
Calls == DOMAIN reg
Registered == DOMAIN users

Never == -1
NoToken == [exp |-> 0, key |-> None, signedAt |-> 0]

Init ==
  /\ settings \in Settings
  /\ users = <<>>
  /\ reg = <<>>
  /\ sessions = <<>>
  /\ clock = 0 /\ restarts = 0 /\ faults = 0

Fault == faults < MaxFaults /\ faults' = faults + 1

-----------------------------------------------------------------------------
(* argon2.IDKey: different inputs give different keys.                     *)
IDKey(text, salt, params) == <<text, salt, params>>

(* Hash: the PHC string keeps the salt and the parameters, not the pepper. *)
Hash(password, salt) ==
  [salt |-> salt, params |-> settings.params,
   hash |-> IDKey(password \o settings.pepper, salt, settings.params)]

WithinLimits(params) == \A p \in DOMAIN MaxAllowed : params[p] <= MaxAllowed[p]

(* Verify hashes with the parameters of the stored hash and today's pepper. *)
VerifyAsConfigured(password, stored) ==
  /\ WithinLimits(stored.params)
  /\ IDKey(password \o settings.pepper, stored.salt, settings.params) = stored.hash

Verify(password, stored) ==
  /\ WithinLimits(stored.params)
  /\ IDKey(password \o settings.pepper, stored.salt, stored.params) = stored.hash

(* Signin's answer to a name and a password: NotFound and every error of   *)
(* Verify are Unauthorized too.                                            *)
Opens(name, password) == name \in Registered /\ Verify(password, users[name])

-----------------------------------------------------------------------------
ValidInput(name, password) ==
  /\ name \notin InvalidNames
  /\ Len(password) \in MinPasswordLength .. MaxPasswordLength

(* Register validates its input and asks whether the name is taken.        *)
Register(name, password) ==
  /\ Len(reg) < MaxRegistrations
  /\ reg' = Append(reg,
       [step |-> IF ~ValidInput(name, password) THEN "invalid"
                 ELSE IF name \in Registered THEN "conflict" ELSE "checked",
        name |-> name, password |-> password, settings |-> settings])
  /\ UNCHANGED <<settings, users, sessions, clock, restarts, faults>>

(* Every Hash has a salt of its own.                                       *)
Insert(r) ==
  users' = [n \in Registered \cup {reg[r].name} |->
              IF n = reg[r].name THEN Hash(reg[r].password, r) ELSE users[n]]

Step(r, step) == reg' = [reg EXCEPT ![r].step = step]

(* The name is UNIQUE in the table: unique_violation becomes Conflict.     *)
CreateOverwrites(r) ==
  /\ reg[r].step = "checked"
  /\ Insert(r) /\ Step(r, "created")
  /\ UNCHANGED <<settings, sessions, clock, restarts, faults>>

Create(r) ==
  /\ reg[r].step = "checked"
  /\ IF reg[r].name \in Registered
     THEN Step(r, "conflict") /\ UNCHANGED users
     ELSE Insert(r) /\ Step(r, "created")
  /\ UNCHANGED <<settings, sessions, clock, restarts, faults>>

(* A query of Register fails; the row may be there all the same.           *)
RegisterFails(r) ==
  /\ reg[r].step = "checked"
  /\ Fault
  /\ \/ UNCHANGED users
     \/ reg[r].name \notin Registered /\ Insert(r)
  /\ Step(r, "failed")
  /\ UNCHANGED <<settings, sessions, clock, restarts>>

-----------------------------------------------------------------------------
(* Sign: the issue time is truncated to the second.                        *)
SignCoarsely ==
  [exp |-> (clock - (clock % (2 * Second))) + TTL, key |-> settings.key,
   signedAt |-> clock]

Sign ==
  [exp |-> (clock - (clock % Second)) + TTL, key |-> settings.key, signedAt |-> clock]

(* Verifier.Verify and Middleware.Wrap on a verifier's clock.              *)
AcceptsForever(token, now) == token.key = PublicKey

Accepts(token, now) == token.key = PublicKey /\ now < token.exp

(* Signin: the credentials match, and the session's row is inserted.       *)
Signin(name, password) ==
  /\ Opens(name, password)
  /\ Len(sessions) < MaxSessions
  /\ sessions' = Append(sessions,
       [user |-> name, live |-> TRUE, secret |-> settings.secret, held |-> FALSE,
        vouched |-> clock, endedAt |-> Never, token |-> NoToken])
  /\ UNCHANGED <<settings, users, reg, clock, restarts, faults>>

(* Signin and Refresh end by signing an access token and setting cookies.  *)
Issue(sid) ==
  /\ sessions[sid].vouched # Never
  /\ sessions' = [sessions EXCEPT ![sid] =
       [@ EXCEPT !.token = Sign, !.held = TRUE, !.vouched = Never]]
  /\ UNCHANGED <<settings, users, reg, clock, restarts, faults>>

(* Signing fails or the answer is lost: nobody has the new refresh token.  *)
IssueFails(sid) ==
  /\ sessions[sid].vouched # Never
  /\ Fault
  /\ sessions' = [sessions EXCEPT ![sid].vouched = Never]
  /\ UNCHANGED <<settings, users, reg, clock, restarts>>

(* The manager finds the row, checks the refresh token and replaces it.    *)
RefreshWithoutRow(sid) ==
  /\ sessions[sid].held
  /\ sessions' = [sessions EXCEPT ![sid].held = FALSE, ![sid].vouched = clock]
  /\ UNCHANGED <<settings, users, reg, clock, restarts, faults>>

Refresh(sid) ==
  /\ sessions[sid].live /\ sessions[sid].held
  /\ sessions[sid].secret = settings.secret
  /\ sessions' = [sessions EXCEPT ![sid].held = FALSE, ![sid].vouched = clock]
  /\ UNCHANGED <<settings, users, reg, clock, restarts, faults>>

(* The row is deleted.  A refresh under way may overtake the sign-out      *)
(* between its check of the token and the deletion.                        *)
Signout(sid) ==
  /\ sessions[sid].live
  /\ sessions[sid].held \/ sessions[sid].vouched # Never
  /\ sessions[sid].secret = settings.secret
  /\ sessions' = [sessions EXCEPT ![sid].live = FALSE, ![sid].endedAt = clock]
  /\ UNCHANGED <<settings, users, reg, clock, restarts, faults>>

(* The service stops with its requests and starts with these settings.     *)
Restart(s) ==
  /\ restarts < MaxRestarts
  /\ restarts' = restarts + 1
  /\ settings' = s
  /\ reg' = [r \in Calls |->
       IF reg[r].step = "checked" THEN [reg[r] EXCEPT !.step = "failed"] ELSE reg[r]]
  /\ sessions' = [i \in Sids |-> [sessions[i] EXCEPT !.vouched = Never]]
  /\ UNCHANGED <<users, clock, faults>>

(* No request outlasts RequestTime.                                        *)
Tick ==
  /\ clock < MaxTime
  /\ \A i \in Sids : sessions[i].vouched # Never => clock < sessions[i].vouched + RequestTime
  /\ clock' = clock + 1
  /\ UNCHANGED <<settings, users, reg, sessions, restarts, faults>>

Next ==
  \/ \E n \in Names, p \in Passwords : Register(n, p)
  \/ \E r \in Calls : Create(r) \/ RegisterFails(r)
  \/ \E n \in Names, p \in Passwords : Signin(n, p)
  \/ \E sid \in Sids : Issue(sid) \/ IssueFails(sid) \/ Refresh(sid) \/ Signout(sid)
  \/ \E s \in Settings : Restart(s)
  \/ Tick

Spec == Init /\ [][Next]_vars

-----------------------------------------------------------------------------
RegSteps == {"invalid", "conflict", "checked", "created", "failed"}
Times == 0 .. MaxTime
Keys == {s.key : s \in Settings} \cup {None}

TypeOK ==
  /\ settings \in Settings
  /\ Registered \subseteq Names
  /\ \A n \in Registered : users[n].salt \in Calls
  /\ reg \in Seq([step : RegSteps, name : Names, password : Passwords,
                  settings : Settings])
  /\ sessions \in Seq([user : Names, live : BOOLEAN, secret : {s.secret : s \in Settings},
       held : BOOLEAN, vouched : Times \cup {Never}, endedAt : Times \cup {Never},
       token : [exp : Int, key : Keys, signedAt : Times]])
  /\ clock \in Times
  /\ restarts \in 0 .. MaxRestarts
  /\ faults \in 0 .. MaxFaults

(* Register's answers are true whatever two calls for one name interleave: *)
(* a name is created for one of them, Conflict is answered only for a name *)
(* that is taken, and an account is never there without a call that was    *)
(* valid and was not told the name belongs to somebody else.               *)
RegistrationsAreHonest ==
  /\ \A r, q \in Calls :
       reg[r].step = "created" /\ reg[q].step = "created" /\ r # q
         => reg[r].name # reg[q].name
  /\ \A r \in Calls : reg[r].step = "conflict" => reg[r].name \in Registered
  /\ \A n \in Registered :
       LET r == users[n].salt
       IN reg[r].step \in {"created", "failed"} /\ reg[r].name = n /\ n \notin InvalidNames

(* A user told that the account was created signs in with that password    *)
(* and with no other, under whatever Argon2 settings the service has been  *)
(* restarted with, unless the pepper was replaced or the settings at the   *)
(* time were beyond the limits Verify itself puts on a stored hash         *)
(* (password.go:37-40).                                                    *)
RegisteredPasswordWorks ==
  \A r \in Calls :
    /\ reg[r].step = "created"
    /\ reg[r].settings.pepper = settings.pepper
    /\ WithinLimits(reg[r].settings.params)
    => \A p \in Passwords : Opens(reg[r].name, p) <=> p = reg[r].password

VerifierTimes == {clock + d : d \in -Skew .. Skew}

(* Access ends with the session although no verifier asks the auth         *)
(* service: a token is accepted for less than its TTL and the skew after   *)
(* it was signed, and of a session that was signed out only for that and   *)
(* one request's time, even if a refresh was under way at the sign-out.    *)
AccessEndsAfterSignout ==
  \A sid \in Sids :
    LET s == sessions[sid]
    IN (\E now \in VerifierTimes : Accepts(s.token, now)) =>
         /\ clock < s.token.signedAt + TTL + Skew
         /\ s.endedAt # Never => clock < s.endedAt + RequestTime + TTL + Skew

(* A token signed with the verifiers' key is accepted for its TTL less the *)
(* second its issue time is truncated by and the skew: the call that is    *)
(* sent again after a refresh finds a valid token (lib/api.ts).            *)
FreshTokensWork ==
  \A sid \in Sids :
    LET token == sessions[sid].token
    IN /\ token.key = PublicKey
       /\ clock < token.signedAt + TTL - (Second - 1) - Skew
       => \A now \in VerifierTimes : Accepts(token, now)
=============================================================================
