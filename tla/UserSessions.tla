----------------------------- MODULE UserSessions -----------------------------
(***************************************************************************)
(* The sessions of one project user (src/server/routes/realAuth.ts,        *)
(* src/server/auth/realAuthRepository.ts): login, refresh with rotation,   *)
(* logout, the change of the password or the status, and the recovery of   *)
(* the password (src/server/routes/passwordRecovery.ts).  A step is one    *)
(* statement; the confirmation of a recovery is one transaction.  A request *)
(* whose statement fails or whose process ends is one that takes no further *)
(* step: nothing here waits for another request.                            *)
(***************************************************************************)
EXTENDS Naturals, FiniteSets

CONSTANTS
  UserRequests,   \* bound: requests in flight
  MaxSessions,    \* maximum_sessions
  SessionCount,   \* bound: sessions opened
  TokenCount,     \* bound: refresh tokens issued
  MailCount,      \* bound: recovery mails sent
  UpdateCount     \* bound: changes of the password or the status asked for

ASSUME SessionsAssumption ==
  /\ MaxSessions \in Nat \ {0} /\ SessionCount \in Nat /\ TokenCount \in Nat
  /\ MailCount \in Nat /\ UpdateCount \in Nat /\ IsFiniteSet(UserRequests)

VARIABLES
  active,      \* status='active' of the row of auth_users
  password,    \* password_hash of the row: the number of the recovery that set
               \* it, or whose password was verified to set another one
  sessions,    \* auth_sessions in the order of their creation; opened and born
               \* number the last recovery before the insertion, and the one
               \* behind the password that the login verified
  tokens,      \* auth_refresh_tokens; one family per session
  mails,       \* auth_password_reset_tokens
  asked,       \* the requests in flight
  peak,        \* history: how many logins were about to open a session together
  raced,       \* history: sessions of which one token was rotated twice
  recoveries,  \* history: completed recoveries
  overtaken,   \* history: kinds of the requests the last recovery found past their check
  updates

sessionVars == <<active, password, sessions, tokens, mails, asked, peak, raced, recoveries,
                 overtaken, updates>>

NoRequest == [stage |-> "idle", kind |-> "none", id |-> 0, row |-> TRUE, hash |-> 0, seen |-> 0]
Live == {s \in 1 .. SessionCount : sessions[s].state = "live"}
Used(f) == {n \in DOMAIN f : f[n].state # "none"}
Fresh(f) == Cardinality(Used(f)) + 1

SessionTypeOK ==
  /\ active \in BOOLEAN /\ password \in Nat
  /\ sessions \in [1 .. SessionCount ->
                    [state : {"none", "live", "revoked"}, opened : Nat, born : Nat]]
  /\ tokens \in [1 .. TokenCount -> [state : {"none", "usable", "revoked"},
                                     session : 0 .. SessionCount]]
  /\ mails \in [1 .. MailCount -> [state : {"none", "unused", "used"}, born : Nat]]
  /\ asked \in [UserRequests ->
       [stage : {"idle", "read", "write", "trim", "open", "token", "check", "rotate", "renew",
                 "reuse", "all", "others", "reset"},
        kind : {"none", "login", "password", "status", "refresh", "recovery"},
        id : Nat, row : BOOLEAN, hash : Nat, seen : Nat]]
  /\ peak \in Nat /\ raced \subseteq 1 .. SessionCount /\ recoveries \in Nat /\ updates \in Nat
  /\ overtaken \subseteq {"none", "login", "password", "status", "refresh", "recovery"}

SessionInit ==
  /\ active = TRUE /\ password = 0
  /\ sessions = [s \in 1 .. SessionCount |-> [state |-> "none", opened |-> 0, born |-> 0]]
  /\ tokens = [k \in 1 .. TokenCount |-> [state |-> "none", session |-> 0]]
  /\ mails = [m \in 1 .. MailCount |-> [state |-> "none", born |-> 0]]
  /\ asked = [r \in UserRequests |-> NoRequest]
  /\ peak = 0 /\ raced = {} /\ recoveries = 0 /\ overtaken = {} /\ updates = 0

Stage(r, stage) == asked[r].stage = stage
Proceed(r, stage) == asked' = [asked EXCEPT ![r].stage = stage]
Answered(r) == asked' = [asked EXCEPT ![r] = NoRequest]
\* UPDATE auth_sessions SET revoked_at WHERE the session is in S and live.
Revoked(S) == [s \in 1 .. SessionCount |->
                 IF s \in S \cap Live THEN [sessions[s] EXCEPT !.state = "revoked"] ELSE sessions[s]]
TokensRevoked(S) == [k \in 1 .. TokenCount |->
                       IF tokens[k].session \in S /\ tokens[k].state = "usable"
                       THEN [tokens[k] EXCEPT !.state = "revoked"] ELSE tokens[k]]

-----------------------------------------------------------------------------
(* updateUser(): read the row, then write all of it, the password with the  *)
(* status and the status with the password.                                *)

Login(r) ==
  /\ Stage(r, "idle") /\ active
  /\ asked' = [asked EXCEPT ![r] = [NoRequest EXCEPT !.stage = "read", !.kind = "login",
                                                  !.seen = password]]
  /\ UNCHANGED <<active, password, sessions, tokens, mails, peak, raced, recoveries, overtaken, updates>>

\* password/change with a live session, once the present password is verified;
\* PATCH .../status from the console.
AskUpdate(r, kind, s) ==
  /\ Stage(r, "idle") /\ updates < UpdateCount
  /\ kind = "password" => s \in Live
  /\ asked' = [asked EXCEPT ![r] = [NoRequest EXCEPT !.stage = "read", !.kind = kind, !.id = s,
                   !.seen = IF kind = "password" THEN password ELSE 0]]
  /\ updates' = updates + 1
  /\ UNCHANGED <<active, password, sessions, tokens, mails, peak, raced, recoveries, overtaken>>

ReadUser(r) ==
  /\ Stage(r, "read")
  /\ asked' = [asked EXCEPT ![r].stage = "write", ![r].row = active, ![r].hash = password]
  /\ UNCHANGED <<active, password, sessions, tokens, mails, peak, raced, recoveries, overtaken, updates>>

\* The row that was read is of no use any more.
Wrote(r, stage) == asked' = [asked EXCEPT ![r].stage = stage, ![r].row = TRUE, ![r].hash = 0]
WriteUser(r) ==
  /\ Stage(r, "write")
  /\ active' = (IF asked[r].kind = "status" THEN ~asked[r].row ELSE asked[r].row)
  /\ password' = (IF asked[r].kind = "password" THEN asked[r].seen ELSE asked[r].hash)
  /\ \/ asked[r].kind = "login" /\ Wrote(r, "trim")
     \/ asked[r].kind = "password" /\ Wrote(r, "others")
     \/ asked[r].kind = "status" /\ IF active' THEN Answered(r) ELSE Wrote(r, "all")
  /\ UNCHANGED <<sessions, tokens, mails, peak, raced, recoveries, overtaken, updates>>

-----------------------------------------------------------------------------
(* issue()                                                                 *)

\* The newest sessions revokeOldestSessions() keeps; the mutant keeps one more.
KeptTooMany == MaxSessions
Kept == MaxSessions - 1
Newest(n) == {s \in Live : Cardinality({u \in Live : u > s}) < n}
Issuing == {r \in UserRequests : Stage(r, "open")}

Trim(r) ==
  /\ Stage(r, "trim")
  /\ sessions' = Revoked(Live \ Newest(Kept))
  /\ peak' = IF Cardinality(Issuing) + 1 > peak THEN Cardinality(Issuing) + 1 ELSE peak
  /\ Proceed(r, "open")
  /\ UNCHANGED <<active, password, tokens, mails, raced, recoveries, overtaken, updates>>

OpenSession(r) ==
  /\ Stage(r, "open") /\ Fresh(sessions) <= SessionCount
  /\ sessions' = [sessions EXCEPT ![Fresh(sessions)] =
                    [state |-> "live", opened |-> recoveries, born |-> asked[r].seen]]
  /\ asked' = [asked EXCEPT ![r].stage = "token", ![r].id = Fresh(sessions)]
  /\ UNCHANGED <<active, password, tokens, mails, peak, raced, recoveries, overtaken, updates>>

NewToken(s) ==
  /\ Fresh(tokens) <= TokenCount
  /\ tokens' = [tokens EXCEPT ![Fresh(tokens)] = [state |-> "usable", session |-> s]]
FirstToken(r) ==
  /\ Stage(r, "token")
  /\ NewToken(asked[r].id)
  /\ Answered(r)
  /\ UNCHANGED <<active, password, sessions, mails, peak, raced, recoveries, overtaken, updates>>

-----------------------------------------------------------------------------
(* refresh, logout                                                         *)

\* findRefreshToken(): one that is revoked counts as used twice.
Refresh(r, k) ==
  /\ Stage(r, "idle") /\ tokens[k].state # "none"
  /\ asked' = [asked EXCEPT ![r] = [NoRequest EXCEPT !.kind = "refresh", !.id = k,
                 !.stage = IF tokens[k].state = "usable" THEN "check" ELSE "reuse"]]
  /\ UNCHANGED <<active, password, sessions, tokens, mails, peak, raced, recoveries, overtaken, updates>>

RevokeFamily(r) ==
  /\ Stage(r, "reuse")
  /\ tokens' = TokensRevoked({tokens[asked[r].id].session})
  /\ Proceed(r, "all")
  /\ UNCHANGED <<active, password, sessions, mails, peak, raced, recoveries, overtaken, updates>>

CheckSession(r) ==
  /\ Stage(r, "check")
  /\ LET s == tokens[asked[r].id].session IN
     IF s \in Live /\ active THEN Proceed(r, "rotate") /\ UNCHANGED tokens
     ELSE tokens' = TokensRevoked({s}) /\ Answered(r)
  /\ UNCHANGED <<active, password, sessions, mails, peak, raced, recoveries, overtaken, updates>>

\* The old token is revoked whether or not somebody was faster; the mutant
\* leaves it usable.
NotRotated(k) == tokens
Rotated(k) == [tokens EXCEPT ![k].state = "revoked"]
Rotate(r) ==
  /\ Stage(r, "rotate")
  /\ tokens' = Rotated(asked[r].id)
  /\ raced' = IF tokens[asked[r].id].state = "usable" THEN raced
              ELSE raced \cup {tokens[asked[r].id].session}
  /\ Proceed(r, "renew")
  /\ UNCHANGED <<active, password, sessions, mails, peak, recoveries, overtaken, updates>>

Renew(r) ==
  /\ Stage(r, "renew")
  /\ NewToken(tokens[asked[r].id].session)
  /\ Answered(r)
  /\ UNCHANGED <<active, password, sessions, mails, peak, raced, recoveries, overtaken, updates>>

Logout(s) ==
  /\ s \in Live
  /\ sessions' = Revoked({s})
  /\ UNCHANGED <<active, password, tokens, mails, asked, peak, raced, recoveries, overtaken, updates>>

LogoutAll(r) ==
  /\ Stage(r, "idle") /\ Live # {}
  /\ Proceed(r, "all")
  /\ UNCHANGED <<active, password, sessions, tokens, mails, peak, raced, recoveries, overtaken, updates>>

\* revokeUserSessions(): of logout-all, of a reused token, of a status change.
RevokeAll(r) ==
  /\ Stage(r, "all")
  /\ sessions' = Revoked(Live)
  /\ Answered(r)
  /\ UNCHANGED <<active, password, tokens, mails, peak, raced, recoveries, overtaken, updates>>

RevokeOthers(r) ==
  /\ Stage(r, "others")
  /\ sessions' = Revoked(Live \ {asked[r].id})
  /\ Answered(r)
  /\ UNCHANGED <<active, password, tokens, mails, peak, raced, recoveries, overtaken, updates>>

-----------------------------------------------------------------------------
(* passwordRecovery.ts                                                     *)

SendMail ==
  /\ Fresh(mails) <= MailCount
  /\ mails' = [mails EXCEPT ![Fresh(mails)] = [state |-> "unused", born |-> recoveries]]
  /\ UNCHANGED <<active, password, sessions, tokens, asked, peak, raced, recoveries, overtaken, updates>>

\* The token is looked up, then the new password is hashed.
Confirm(r, m) ==
  /\ Stage(r, "idle") /\ mails[m].state = "unused"
  /\ asked' = [asked EXCEPT ![r] = [NoRequest EXCEPT !.stage = "reset", !.kind = "recovery", !.id = m]]
  /\ UNCHANGED <<active, password, sessions, tokens, mails, peak, raced, recoveries, overtaken, updates>>

\* The transaction claims the mail again; the mutant uses up that one only.
UsedUpOne(r) == [mails EXCEPT ![asked[r].id].state = "used"]
UsedUp(r) == [m \in 1 .. MailCount |->
                IF mails[m].state = "unused" THEN [mails[m] EXCEPT !.state = "used"] ELSE mails[m]]
\* What a request past its check writes next rests on what it saw before.
PastCheck(q) == \/ asked[q].stage \in {"write", "trim", "open", "token", "rotate", "renew"}
                \/ Stage(q, "read") /\ asked[q].kind # "status"
Reset(r) ==
  /\ Stage(r, "reset")
  /\ IF mails[asked[r].id].state = "unused"
     THEN /\ sessions' = Revoked(Live)
          /\ tokens' = TokensRevoked(1 .. SessionCount)
          /\ mails' = UsedUp(r)
          /\ recoveries' = recoveries + 1 /\ password' = recoveries'
          /\ overtaken' = {asked[q].kind : q \in {q \in UserRequests : PastCheck(q)}}
     ELSE UNCHANGED <<password, sessions, tokens, mails, recoveries, overtaken>>
  /\ Answered(r)
  /\ UNCHANGED <<active, peak, raced, updates>>

SessionNext ==
  \/ \E r \in UserRequests :
       \/ Login(r) \/ ReadUser(r) \/ WriteUser(r) \/ Trim(r) \/ OpenSession(r) \/ FirstToken(r)
       \/ RevokeFamily(r) \/ CheckSession(r) \/ Rotate(r) \/ Renew(r) \/ LogoutAll(r)
       \/ RevokeAll(r) \/ RevokeOthers(r) \/ Reset(r)
       \/ \E k \in 1 .. TokenCount : Refresh(r, k)
       \/ \E m \in 1 .. MailCount : Confirm(r, m)
       \/ AskUpdate(r, "status", 0)
       \/ \E s \in 1 .. SessionCount : AskUpdate(r, "password", s)
  \/ \E s \in 1 .. SessionCount : Logout(s)
  \/ SendMail

SessionSpec == SessionInit /\ [][SessionNext]_sessionVars
-----------------------------------------------------------------------------
(* Properties                                                              *)

\* maximum_sessions holds up to logins that were between the revocation of the
\* oldest sessions and the insertion together: each of them adds one at most,
\* and the excess does not grow with the number of logins.
SessionsBounded ==
  peak > 0 => Cardinality(Live) + Cardinality(Issuing) <= MaxSessions - 1 + peak

\* The rotation leaves a session with one token that can be used, or with one
\* that is being made, unless two refreshes had both found the same token.
OneTokenPerSession ==
  \A s \in (1 .. SessionCount) \ raced :
    Cardinality({k \in 1 .. TokenCount : tokens[k].session = s /\ tokens[k].state = "usable"})
      + Cardinality({r \in UserRequests : \/ Stage(r, "renew") /\ tokens[asked[r].id].session = s
                                          \/ Stage(r, "token") /\ asked[r].id = s}) <= 1

\* What a recovery ends and what requests under way bring back.  Whatever was
\* under way, a live session was inserted after the last completed recovery, an
\* unused mail was sent after it, and so a mail completes one recovery at most.
\* Unless the recovery found a login or a refresh past its check, a usable token
\* belongs to such a session too.  And unless it found a login, a change of the
\* password or one of the status past its check, the password in force is the
\* recovery's or descends from it, and so is the one that every live session was
\* opened with: those three write back the password they read, or were asked for
\* with the old one.
RecoveryIsAuthoritative ==
  /\ \A s \in Live : sessions[s].opened = recoveries
  /\ \A m \in 1 .. MailCount : mails[m].state = "unused" => mails[m].born = recoveries
  /\ overtaken \cap {"login", "refresh"} = {} =>
       \A k \in 1 .. TokenCount : tokens[k].state = "usable" =>
         sessions[tokens[k].session].opened = recoveries
  /\ overtaken \cap {"login", "password", "status"} = {} =>
       password = recoveries /\ \A s \in Live : sessions[s].born = recoveries
=============================================================================
