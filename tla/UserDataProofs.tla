--------------------------- MODULE UserDataProofs ---------------------------
(* Proofs about the sessions, refresh tokens and recovery mails of one user  *)
(* (UserSessions), about uploads in parts (MultipartUpload), and about the   *)
(* rows and the bytes of an object (ObjectStorage).                          *)
EXTENDS UserSessions, MultipartUpload, ObjectStorage, FiniteSetTheorems, WellFoundedInduction,
        TLAPS

-----------------------------------------------------------------------------
(* Rows are added in order, and what refers to a row refers to one there is. *)

Filled(f) == \E n \in Nat : Used(f) = 1 .. n
RowsInOrder == Filled(sessions) /\ Filled(tokens)

TokensRefer ==
  \A k \in 1 .. TokenCount : tokens[k].state # "none" =>
    tokens[k].session \in 1 .. SessionCount /\ sessions[tokens[k].session].state # "none"

OnToken == {"check", "rotate", "renew", "reuse"}
RequestRefers(r) ==
  /\ Stage(r, "token") =>
       asked[r].id \in 1 .. SessionCount /\ sessions[asked[r].id].state # "none"
  /\ asked[r].stage \in OnToken =>
       asked[r].id \in 1 .. TokenCount /\ tokens[asked[r].id].state # "none"
  /\ Stage(r, "reset") => asked[r].id \in 1 .. MailCount
RequestsRefer == \A r \in UserRequests : RequestRefers(r)

References == SessionTypeOK /\ RowsInOrder /\ TokensRefer /\ RequestsRefer

\* The row a login, a rotation or a mail adds has not been there before.
LEMMA FreshIsUnused ==
  ASSUME NEW n \in Nat, NEW f, DOMAIN f = 1 .. n, Filled(f)
  PROVE  /\ Fresh(f) \in Nat \ {0}
         /\ Fresh(f) \notin Used(f)
         /\ Used(f) \cup {Fresh(f)} = 1 .. Fresh(f)
<1>1. PICK m \in Nat : Used(f) = 1 .. m  BY DEF Filled
<1>2. Cardinality(1 .. m) = m  BY <1>1, FS_Interval
<1>3. Fresh(f) = m + 1  BY <1>1, <1>2 DEF Fresh
<1> QED  BY <1>1, <1>3

-----------------------------------------------------------------------------
(* Types                                                                     *)

SessionRows == [state : {"none", "live", "revoked"}, opened : Nat, born : Nat]
TokenRows == [state : {"none", "usable", "revoked"}, session : 0 .. SessionCount]
MailRows == [state : {"none", "unused", "used"}, born : Nat]
Stages == {"idle", "read", "write", "trim", "open", "token", "check", "rotate", "renew",
           "reuse", "all", "others", "reset"}
Kinds == {"none", "login", "password", "status", "refresh", "recovery"}
Asks == [stage : Stages, kind : Kinds, id : Nat, row : BOOLEAN, hash : Nat, seen : Nat]

LEMMA TypesByName ==
  SessionTypeOK <=>
    /\ active \in BOOLEAN /\ password \in Nat
    /\ sessions \in [1 .. SessionCount -> SessionRows]
    /\ tokens \in [1 .. TokenCount -> TokenRows]
    /\ mails \in [1 .. MailCount -> MailRows]
    /\ asked \in [UserRequests -> Asks]
    /\ peak \in Nat /\ raced \subseteq 1 .. SessionCount /\ recoveries \in Nat /\ updates \in Nat
    /\ overtaken \subseteq Kinds
BY DEF SessionTypeOK, SessionRows, TokenRows, MailRows, Asks, Stages, Kinds

LEMMA TypesNext ==
  /\ active' \in BOOLEAN /\ password' \in Nat
  /\ sessions' \in [1 .. SessionCount -> SessionRows]
  /\ tokens' \in [1 .. TokenCount -> TokenRows]
  /\ mails' \in [1 .. MailCount -> MailRows]
  /\ asked' \in [UserRequests -> Asks]
  /\ peak' \in Nat /\ raced' \subseteq 1 .. SessionCount /\ recoveries' \in Nat /\ updates' \in Nat
  /\ overtaken' \subseteq Kinds
  => SessionTypeOK'
BY DEF SessionTypeOK, SessionRows, TokenRows, MailRows, Asks, Stages, Kinds

\* The bulk updates keep the rows' types.
LEMMA RevocationTypes ==
  ASSUME SessionTypeOK, NEW S
  PROVE  /\ Revoked(S) \in [1 .. SessionCount -> SessionRows]
         /\ TokensRevoked(S) \in [1 .. TokenCount -> TokenRows]
BY TypesByName DEF Revoked, TokensRevoked, SessionRows, TokenRows

\* A request that goes on or is answered.
LEMMA NewAsks ==
  \A stage \in Stages, kind \in Kinds, id \in Nat, seen \in Nat :
    /\ [NoRequest EXCEPT !.stage = stage, !.kind = kind, !.id = id] \in Asks
    /\ [NoRequest EXCEPT !.stage = stage, !.kind = kind, !.id = id, !.seen = seen] \in Asks
BY DEF NoRequest, Asks

LEMMA AskedTypes ==
  ASSUME SessionTypeOK, NEW r \in UserRequests
  PROVE  /\ Answered(r) => asked' \in [UserRequests -> Asks]
         /\ \A s \in Stages : Proceed(r, s) \/ Wrote(r, s) => asked' \in [UserRequests -> Asks]
<1>1. NoRequest \in Asks  BY DEF NoRequest, Asks, Stages, Kinds
<1>2. Answered(r) => asked' \in [UserRequests -> Asks]  BY <1>1, TypesByName DEF Answered
<1>3. \A s \in Stages : Proceed(r, s) => asked' \in [UserRequests -> Asks]
  BY TypesByName DEF Proceed, Asks
<1>4. ASSUME NEW s \in Stages, Wrote(r, s)  PROVE asked' \in [UserRequests -> Asks]
  <2>1. asked \in [UserRequests -> Asks] /\ asked[r] \in Asks  BY TypesByName
  <2>2. 0 \in Nat /\ TRUE \in BOOLEAN  OBVIOUS
  <2> QED  BY <2>1, <2>2, <1>4 DEF Wrote, Asks
<1> QED  BY <1>2, <1>3, <1>4

LEMMA NewTokenTypes ==
  ASSUME SessionTypeOK, NEW s \in 0 .. SessionCount, NewToken(s)
  PROVE  tokens' \in [1 .. TokenCount -> TokenRows]
<1>1. [state |-> "usable", session |-> s] \in TokenRows
  BY TypesByName DEF TokenRows
<1> QED  BY <1>1, TypesByName DEF NewToken

\* The steps of updateUser() and issue() keep the types.
LEMMA LoginTypes ==
  ASSUME References, NEW r \in UserRequests,
         \/ Login(r) \/ ReadUser(r) \/ WriteUser(r) \/ Trim(r) \/ OpenSession(r) \/ FirstToken(r)
         \/ AskUpdate(r, "status", 0) \/ \E s \in 1 .. SessionCount : AskUpdate(r, "password", s)
  PROVE  SessionTypeOK'
<1>t. /\ active \in BOOLEAN /\ password \in Nat
      /\ sessions \in [1 .. SessionCount -> SessionRows]
      /\ tokens \in [1 .. TokenCount -> TokenRows]
      /\ mails \in [1 .. MailCount -> MailRows]
      /\ asked \in [UserRequests -> Asks]
      /\ peak \in Nat /\ raced \subseteq 1 .. SessionCount /\ recoveries \in Nat /\ updates \in Nat
      /\ overtaken \subseteq Kinds
      /\ SessionTypeOK
      /\ SessionCount \in Nat /\ TokenCount \in Nat /\ MailCount \in Nat /\ IsFiniteSet(UserRequests)
  BY TypesByName, SessionsAssumption DEF References, SessionsAssumption
<1> USE TypesNext
<1>s. {"idle", "read", "write", "trim", "open", "token", "all", "others"} \subseteq Stages
  BY DEF Stages
<1>a. asked[r] \in Asks /\ asked[r].row \in BOOLEAN /\ asked[r].hash \in Nat /\ asked[r].seen \in Nat
  BY <1>t DEF Asks
<1>1. CASE Login(r)
  <2>1. [NoRequest EXCEPT !.stage = "read", !.kind = "login", !.seen = password] \in Asks
    BY <1>t DEF NoRequest, Asks, Stages, Kinds
  <2> QED  BY <2>1, <1>1, <1>t DEF Login
<1>2. ASSUME NEW kind \in {"status", "password"}, NEW s \in 0 .. SessionCount, AskUpdate(r, kind, s)
      PROVE  SessionTypeOK'
  <2>1. PICK seen \in Nat :
          asked' = [asked EXCEPT ![r] = [NoRequest EXCEPT !.stage = "read", !.kind = kind, !.id = s,
                                                          !.seen = seen]]
    BY <1>2, <1>t DEF AskUpdate
  <2>2. s \in Nat /\ "read" \in Stages /\ kind \in Kinds  BY <1>t DEF Stages, Kinds
  <2>3. asked' \in [UserRequests -> Asks]  BY <2>1, <2>2, <1>t, NewAsks
  <2>4. /\ UNCHANGED <<active, password, sessions, tokens, mails, peak, raced, recoveries, overtaken>>
        /\ updates' = updates + 1
    BY <1>2 DEF AskUpdate
  <2> QED  BY <2>3, <2>4, <1>t
<1>3. CASE ReadUser(r)
  <2>1. asked' \in [UserRequests -> Asks]  BY <1>3, <1>t, <1>s DEF ReadUser, Asks
  <2> QED  BY <2>1, <1>3, <1>t DEF ReadUser
<1>4. CASE WriteUser(r)
  <2>1. asked' \in [UserRequests -> Asks]  BY <1>4, <1>t, <1>s, AskedTypes DEF WriteUser
  <2>2. active' \in BOOLEAN /\ password' \in Nat  BY <1>4, <1>a DEF WriteUser
  <2> QED  BY <2>1, <2>2, <1>4, <1>t DEF WriteUser
<1>5. CASE Trim(r)
  <2>1. asked' \in [UserRequests -> Asks]  BY <1>5, <1>t, <1>s, AskedTypes DEF Trim
  <2>2. sessions' \in [1 .. SessionCount -> SessionRows]  BY <1>5, <1>t, RevocationTypes DEF Trim
  <2>3. IsFiniteSet(Issuing)  BY <1>t, FS_Subset DEF Issuing
  <2>4. peak' \in Nat  BY <2>3, <1>5, <1>t, FS_CardinalityType DEF Trim
  <2> QED  BY <2>1, <2>2, <2>4, <1>5, <1>t DEF Trim
<1>6. CASE OpenSession(r)
  <2>f. IsFiniteSet(1 .. SessionCount)  BY <1>t, FS_Interval
  <2>1. IsFiniteSet(Used(sessions))  BY <2>f, <1>t, FS_Subset DEF Used
  <2>2. Fresh(sessions) \in Nat  BY <2>1, FS_CardinalityType DEF Fresh
  <2>3. asked' \in [UserRequests -> Asks]  BY <1>6, <2>2, <1>t, <1>s DEF OpenSession, Asks
  <2>4. [state |-> "live", opened |-> recoveries, born |-> asked[r].seen] \in SessionRows
    BY <1>t, <1>a DEF SessionRows
  <2>5. sessions' \in [1 .. SessionCount -> SessionRows]  BY <2>4, <1>6, <1>t DEF OpenSession
  <2> QED  BY <2>3, <2>5, <1>6, <1>t DEF OpenSession
<1>7. CASE FirstToken(r)
  <2>1. asked[r].id \in 0 .. SessionCount  BY <1>7 DEF FirstToken, References, RequestsRefer, RequestRefers
  <2>2. tokens' \in [1 .. TokenCount -> TokenRows]  BY <2>1, <1>7, <1>t, NewTokenTypes DEF FirstToken
  <2>3. asked' \in [UserRequests -> Asks]  BY <1>7, <1>t, AskedTypes DEF FirstToken
  <2> QED  BY <2>2, <2>3, <1>7, <1>t DEF FirstToken
<1> QED  BY <1>1, <1>2, <1>3, <1>4, <1>5, <1>6, <1>7, <1>t

\* The steps of refresh, logout and recovery keep the types.
LEMMA RefreshTypes ==
  ASSUME References, NEW r \in UserRequests,
         \/ RevokeFamily(r) \/ CheckSession(r) \/ Rotate(r) \/ Renew(r) \/ LogoutAll(r)
         \/ RevokeAll(r) \/ RevokeOthers(r) \/ Reset(r)
         \/ \E k \in 1 .. TokenCount : Refresh(r, k)
         \/ \E m \in 1 .. MailCount : Confirm(r, m)
  PROVE  SessionTypeOK'
<1>t. /\ active \in BOOLEAN /\ password \in Nat
      /\ sessions \in [1 .. SessionCount -> SessionRows]
      /\ tokens \in [1 .. TokenCount -> TokenRows]
      /\ mails \in [1 .. MailCount -> MailRows]
      /\ asked \in [UserRequests -> Asks]
      /\ peak \in Nat /\ raced \subseteq 1 .. SessionCount /\ recoveries \in Nat /\ updates \in Nat
      /\ overtaken \subseteq Kinds
      /\ SessionTypeOK
      /\ SessionCount \in Nat /\ TokenCount \in Nat /\ MailCount \in Nat /\ IsFiniteSet(UserRequests)
  BY TypesByName, SessionsAssumption DEF References, SessionsAssumption
<1> USE TypesNext
<1>s. {"rotate", "renew", "all", "check", "reuse", "reset"} \subseteq Stages  BY DEF Stages
<1>k. asked[r].stage \in OnToken =>
        tokens[asked[r].id] \in TokenRows /\ tokens[asked[r].id].session \in 1 .. SessionCount
  BY <1>t DEF References, RequestsRefer, RequestRefers, TokensRefer
<1>1. CASE RevokeFamily(r)
  <2>1. asked' \in [UserRequests -> Asks]  BY <1>1, <1>t, <1>s, AskedTypes DEF RevokeFamily
  <2>2. tokens' \in [1 .. TokenCount -> TokenRows]  BY <1>1, <1>t, RevocationTypes DEF RevokeFamily
  <2> QED  BY <2>1, <2>2, <1>1, <1>t DEF RevokeFamily
<1>2. CASE CheckSession(r)
  <2>1. asked' \in [UserRequests -> Asks]  BY <1>2, <1>t, <1>s, AskedTypes DEF CheckSession
  <2>2. tokens' \in [1 .. TokenCount -> TokenRows]  BY <1>2, <1>t, RevocationTypes DEF CheckSession
  <2> QED  BY <2>1, <2>2, <1>2, <1>t DEF CheckSession
<1>3. CASE Rotate(r)
  <2>1. asked' \in [UserRequests -> Asks]  BY <1>3, <1>t, <1>s, AskedTypes DEF Rotate
  <2>2. tokens' \in [1 .. TokenCount -> TokenRows]  BY <1>3, <1>t DEF Rotate, Rotated, TokenRows
  <2>3. raced' \subseteq 1 .. SessionCount  BY <1>3, <1>t, <1>k DEF Rotate, Stage, OnToken
  <2> QED  BY <2>1, <2>2, <2>3, <1>3, <1>t DEF Rotate
<1>4. CASE Renew(r)
  <2>1. tokens[asked[r].id].session \in 0 .. SessionCount  BY <1>4, <1>k DEF Renew, Stage, OnToken
  <2>2. tokens' \in [1 .. TokenCount -> TokenRows]  BY <2>1, <1>4, <1>t, NewTokenTypes DEF Renew
  <2>3. asked' \in [UserRequests -> Asks]  BY <1>4, <1>t, AskedTypes DEF Renew
  <2> QED  BY <2>2, <2>3, <1>4, <1>t DEF Renew
<1>5. CASE LogoutAll(r)
  <2>1. asked' \in [UserRequests -> Asks]  BY <1>5, <1>t, <1>s, AskedTypes DEF LogoutAll
  <2> QED  BY <2>1, <1>5, <1>t DEF LogoutAll
<1>6. CASE RevokeAll(r)
  <2>1. asked' \in [UserRequests -> Asks]  BY <1>6, <1>t, AskedTypes DEF RevokeAll
  <2>2. sessions' \in [1 .. SessionCount -> SessionRows]  BY <1>6, <1>t, RevocationTypes DEF RevokeAll
  <2> QED  BY <2>1, <2>2, <1>6, <1>t DEF RevokeAll
<1>7. CASE RevokeOthers(r)
  <2>1. asked' \in [UserRequests -> Asks]  BY <1>7, <1>t, AskedTypes DEF RevokeOthers
  <2>2. sessions' \in [1 .. SessionCount -> SessionRows]  BY <1>7, <1>t, RevocationTypes DEF RevokeOthers
  <2> QED  BY <2>1, <2>2, <1>7, <1>t DEF RevokeOthers
<1>8. CASE Reset(r)
  <2>1. asked' \in [UserRequests -> Asks]  BY <1>8, <1>t, AskedTypes DEF Reset
  <2>2. UsedUp(r) \in [1 .. MailCount -> MailRows]  BY <1>t DEF UsedUp, MailRows
  <2>3. /\ sessions' \in [1 .. SessionCount -> SessionRows]
        /\ tokens' \in [1 .. TokenCount -> TokenRows]
        /\ mails' \in [1 .. MailCount -> MailRows]
        /\ recoveries' \in Nat /\ password' \in Nat
    BY <2>2, <1>8, <1>t, RevocationTypes DEF Reset
  <2>4. overtaken' \subseteq Kinds
    <3>1. \A q \in UserRequests : asked[q].kind \in Kinds  BY <1>t DEF Asks
    <3> QED  BY <3>1, <1>8, <1>t DEF Reset
  <2> QED  BY <2>1, <2>3, <2>4, <1>8, <1>t DEF Reset
<1>9. ASSUME NEW k \in 1 .. TokenCount, Refresh(r, k)  PROVE SessionTypeOK'
  <2>1. PICK stage \in {"check", "reuse"} :
          asked' = [asked EXCEPT ![r] = [NoRequest EXCEPT !.stage = stage, !.kind = "refresh", !.id = k]]
    BY <1>9 DEF Refresh
  <2>2. k \in Nat /\ stage \in Stages /\ "refresh" \in Kinds  BY <1>t DEF Stages, Kinds
  <2>3. asked' \in [UserRequests -> Asks]  BY <2>1, <2>2, <1>t, NewAsks
  <2> QED  BY <2>3, <1>9, <1>t DEF Refresh
<1>10. ASSUME NEW m \in 1 .. MailCount, Confirm(r, m)  PROVE SessionTypeOK'
  <2>1. asked' = [asked EXCEPT ![r] = [NoRequest EXCEPT !.stage = "reset", !.kind = "recovery", !.id = m]]
    BY <1>10 DEF Confirm
  <2>2. m \in Nat /\ "reset" \in Stages /\ "recovery" \in Kinds  BY <1>t DEF Stages, Kinds
  <2>3. asked' \in [UserRequests -> Asks]  BY <2>1, <2>2, <1>t, NewAsks
  <2> QED  BY <2>3, <1>10, <1>t DEF Confirm
<1> QED  BY <1>1, <1>2, <1>3, <1>4, <1>5, <1>6, <1>7, <1>8, <1>9, <1>10

LEMMA TypeStep ==
  ASSUME References, [SessionNext]_sessionVars  PROVE SessionTypeOK'
<1>t. /\ active \in BOOLEAN /\ password \in Nat
      /\ sessions \in [1 .. SessionCount -> SessionRows]
      /\ tokens \in [1 .. TokenCount -> TokenRows]
      /\ mails \in [1 .. MailCount -> MailRows]
      /\ asked \in [UserRequests -> Asks]
      /\ peak \in Nat /\ raced \subseteq 1 .. SessionCount /\ recoveries \in Nat /\ updates \in Nat
      /\ overtaken \subseteq Kinds
      /\ SessionTypeOK
      /\ SessionCount \in Nat /\ TokenCount \in Nat /\ MailCount \in Nat /\ IsFiniteSet(UserRequests)
  BY TypesByName, SessionsAssumption DEF References, SessionsAssumption
<1> USE TypesNext
<1>1. CASE UNCHANGED sessionVars  BY <1>1, <1>t DEF sessionVars
<1>2. ASSUME NEW s \in 1 .. SessionCount, Logout(s)  PROVE SessionTypeOK'
  BY <1>2, <1>t, RevocationTypes DEF Logout
<1>3. CASE SendMail
  <2>1. [state |-> "unused", born |-> recoveries] \in MailRows  BY <1>t DEF MailRows
  <2>2. mails' \in [1 .. MailCount -> MailRows]  BY <2>1, <1>3, <1>t DEF SendMail
  <2> QED  BY <2>2, <1>3, <1>t DEF SendMail
<1> QED  BY <1>1, <1>2, <1>3, LoginTypes, RefreshTypes DEF SessionNext

-----------------------------------------------------------------------------
(* What a step does to one row.                                              *)

\* A session is opened once and revoked for good.
LEMMA SessionSteps ==
  ASSUME References, [SessionNext]_sessionVars, NEW s \in 1 .. SessionCount
  PROVE  \/ sessions'[s] = sessions[s]
         \/ /\ sessions[s].state = "live"
            /\ sessions'[s] = [sessions[s] EXCEPT !.state = "revoked"]
         \/ /\ s = Fresh(sessions)
            /\ \E r \in UserRequests :
                 /\ OpenSession(r)
                 /\ sessions'[s] = [state |-> "live", opened |-> recoveries, born |-> asked[r].seen]
<1>t. sessions \in [1 .. SessionCount -> SessionRows]  BY TypesByName DEF References
<1>r. ASSUME NEW S, sessions' = Revoked(S)
      PROVE  \/ sessions'[s] = sessions[s]
             \/ /\ sessions[s].state = "live"
                /\ sessions'[s] = [sessions[s] EXCEPT !.state = "revoked"]
  BY <1>r DEF Revoked, Live
<1>1. CASE sessions' = sessions  BY <1>1
<1>2. ASSUME NEW r \in UserRequests, OpenSession(r)
      PROVE  \/ sessions'[s] = sessions[s]
             \/ /\ s = Fresh(sessions)
                /\ sessions'[s] = [state |-> "live", opened |-> recoveries, born |-> asked[r].seen]
  BY <1>2, <1>t DEF OpenSession
<1>3. ASSUME NEW r \in UserRequests, Trim(r) \/ RevokeAll(r) \/ RevokeOthers(r) \/ Reset(r)
      PROVE  sessions' = sessions \/ \E S \in SUBSET Nat : sessions' = Revoked(S)
  <2>1. Live \in SUBSET Nat  BY SessionsAssumption DEF Live, SessionsAssumption
  <2>2. \A S : Live \ S \in SUBSET Nat  BY <2>1
  <2> QED  BY <1>3, <2>1, <2>2 DEF Trim, RevokeAll, RevokeOthers, Reset
<1>4. ASSUME NEW u \in 1 .. SessionCount, Logout(u)
      PROVE  \E S \in SUBSET Nat : sessions' = Revoked(S)
  BY <1>4, SessionsAssumption DEF Logout, SessionsAssumption
<1>5. ASSUME NEW r \in UserRequests,
             \/ Login(r) \/ ReadUser(r) \/ WriteUser(r) \/ FirstToken(r)
             \/ RevokeFamily(r) \/ CheckSession(r) \/ Rotate(r) \/ Renew(r) \/ LogoutAll(r)
             \/ \E k \in 1 .. TokenCount : Refresh(r, k)
             \/ \E m \in 1 .. MailCount : Confirm(r, m)
             \/ AskUpdate(r, "status", 0)
             \/ \E u \in 1 .. SessionCount : AskUpdate(r, "password", u)
      PROVE  sessions' = sessions
  BY <1>5 DEF Login, ReadUser, WriteUser, FirstToken, RevokeFamily, CheckSession, Rotate, Renew,
     LogoutAll, Refresh, Confirm, AskUpdate
<1>6. CASE SendMail \/ UNCHANGED sessionVars  BY <1>6, <1>1 DEF SendMail, sessionVars
<1> QED  BY <1>r, <1>1, <1>2, <1>3, <1>4, <1>5, <1>6 DEF SessionNext

\* A token is issued once, for the session of a login or of the token it
\* replaces, and revoked for good.
LEMMA TokenSteps ==
  ASSUME References, [SessionNext]_sessionVars, NEW k \in 1 .. TokenCount
  PROVE  \/ tokens'[k] = tokens[k]
         \/ /\ tokens[k].state # "none"
            /\ tokens'[k] = [tokens[k] EXCEPT !.state = "revoked"]
         \/ /\ k = Fresh(tokens)
            /\ \E r \in UserRequests, s \in 1 .. SessionCount :
                 /\ \/ FirstToken(r) /\ s = asked[r].id
                    \/ Renew(r) /\ s = tokens[asked[r].id].session
                 /\ tokens'[k] = [state |-> "usable", session |-> s]
<1>t. tokens \in [1 .. TokenCount -> TokenRows]  BY TypesByName DEF References
<1>r. ASSUME NEW S, tokens' = TokensRevoked(S)
      PROVE  \/ tokens'[k] = tokens[k]
             \/ /\ tokens[k].state # "none"
                /\ tokens'[k] = [tokens[k] EXCEPT !.state = "revoked"]
  BY <1>r DEF TokensRevoked
<1>1. CASE tokens' = tokens  BY <1>1
<1>2. ASSUME NEW r \in UserRequests, FirstToken(r)
      PROVE  \/ tokens'[k] = tokens[k]
             \/ /\ k = Fresh(tokens) /\ asked[r].id \in 1 .. SessionCount
                /\ tokens'[k] = [state |-> "usable", session |-> asked[r].id]
  BY <1>2, <1>t DEF FirstToken, NewToken, References, RequestsRefer, RequestRefers
<1>3. ASSUME NEW r \in UserRequests, Renew(r)
      PROVE  \/ tokens'[k] = tokens[k]
             \/ /\ k = Fresh(tokens) /\ tokens[asked[r].id].session \in 1 .. SessionCount
                /\ tokens'[k] = [state |-> "usable", session |-> tokens[asked[r].id].session]
  <2>1. tokens[asked[r].id].session \in 1 .. SessionCount
    BY <1>3 DEF Renew, Stage, OnToken, References, RequestsRefer, RequestRefers, TokensRefer
  <2> QED  BY <2>1, <1>3, <1>t DEF Renew, NewToken
<1>4. ASSUME NEW r \in UserRequests, RevokeFamily(r) \/ CheckSession(r) \/ Reset(r)
      PROVE  tokens' = tokens \/ \E S \in SUBSET Nat : tokens' = TokensRevoked(S)
  <2>1. asked[r].stage \in OnToken => {tokens[asked[r].id].session} \in SUBSET Nat
    BY SessionsAssumption DEF SessionsAssumption, References, RequestsRefer, RequestRefers, TokensRefer
  <2>2. 1 .. SessionCount \in SUBSET Nat  BY SessionsAssumption DEF SessionsAssumption
  <2> QED  BY <1>4, <2>1, <2>2 DEF RevokeFamily, CheckSession, Reset, Stage, OnToken
<1>5. ASSUME NEW r \in UserRequests, Rotate(r)
      PROVE  \/ tokens'[k] = tokens[k]
             \/ /\ tokens[k].state # "none"
                /\ tokens'[k] = [tokens[k] EXCEPT !.state = "revoked"]
  BY <1>5, <1>t DEF Rotate, Rotated, Stage, OnToken, References, RequestsRefer, RequestRefers
<1>6. ASSUME NEW r \in UserRequests,
             \/ Login(r) \/ ReadUser(r) \/ WriteUser(r) \/ Trim(r) \/ OpenSession(r)
             \/ LogoutAll(r) \/ RevokeAll(r) \/ RevokeOthers(r)
             \/ \E j \in 1 .. TokenCount : Refresh(r, j)
             \/ \E m \in 1 .. MailCount : Confirm(r, m)
             \/ AskUpdate(r, "status", 0)
             \/ \E u \in 1 .. SessionCount : AskUpdate(r, "password", u)
      PROVE  tokens' = tokens
  BY <1>6 DEF Login, ReadUser, WriteUser, Trim, OpenSession, LogoutAll, RevokeAll, RevokeOthers,
     Refresh, Confirm, AskUpdate
<1>7. CASE SendMail \/ UNCHANGED sessionVars \/ \E u \in 1 .. SessionCount : Logout(u)
  BY <1>7, <1>1 DEF SendMail, Logout, sessionVars
<1> QED  BY <1>r, <1>1, <1>2, <1>3, <1>4, <1>5, <1>6, <1>7 DEF SessionNext

-----------------------------------------------------------------------------
(* The references hold.                                                      *)

\* A session or a token that is there stays.
LEMMA RowsStay ==
  ASSUME References, [SessionNext]_sessionVars
  PROVE  /\ \A s \in 1 .. SessionCount : sessions[s].state # "none" =>
              sessions'[s].state # "none" /\ sessions'[s].opened = sessions[s].opened
         /\ \A k \in 1 .. TokenCount : tokens[k].state # "none" =>
              tokens'[k].state # "none" /\ tokens'[k].session = tokens[k].session
<1>t. /\ sessions \in [1 .. SessionCount -> SessionRows] /\ tokens \in [1 .. TokenCount -> TokenRows]
      /\ Fresh(tokens) \notin Used(tokens) /\ Fresh(sessions) \notin Used(sessions)
  BY TypesByName, FreshIsUnused, SessionsAssumption DEF References, RowsInOrder, SessionsAssumption
<1>1. ASSUME NEW s \in 1 .. SessionCount, sessions[s].state # "none"
      PROVE  sessions'[s].state # "none" /\ sessions'[s].opened = sessions[s].opened
  <2>1. sessions[s] \in SessionRows  BY <1>t
  <2>2. /\ [sessions[s] EXCEPT !.state = "revoked"].state = "revoked"
        /\ [sessions[s] EXCEPT !.state = "revoked"].opened = sessions[s].opened
    BY <2>1 DEF SessionRows
  <2>3. s # Fresh(sessions)  BY <1>1, <1>t DEF Used
  <2> QED  BY <2>2, <2>3, <1>1, SessionSteps
<1>2. ASSUME NEW k \in 1 .. TokenCount, tokens[k].state # "none"
      PROVE  tokens'[k].state # "none" /\ tokens'[k].session = tokens[k].session
  <2>1. k # Fresh(tokens)  BY <1>2, <1>t DEF Used
  <2> QED  BY <2>1, <1>2, <1>t, TokenSteps DEF TokenRows
<1> QED  BY <1>1, <1>2

\* Rows are added behind those there are.
LEMMA OrderStep ==
  ASSUME References, [SessionNext]_sessionVars  PROVE RowsInOrder'
<1>t. /\ sessions \in [1 .. SessionCount -> SessionRows] /\ tokens \in [1 .. TokenCount -> TokenRows]
      /\ SessionCount \in Nat /\ TokenCount \in Nat
  BY TypesByName, SessionsAssumption DEF References, SessionsAssumption
<1>p. /\ sessions' \in [1 .. SessionCount -> SessionRows] /\ tokens' \in [1 .. TokenCount -> TokenRows]
  BY TypeStep DEF SessionTypeOK, SessionRows, TokenRows
<1>o. Filled(sessions) /\ Filled(tokens)  BY DEF References, RowsInOrder
<1>1. Used(sessions) \subseteq Used(sessions') /\ Used(tokens) \subseteq Used(tokens')
  BY <1>t, <1>p, RowsStay DEF Used
<1>2. Used(sessions') \subseteq Used(sessions) \cup {Fresh(sessions)}
  <2> SUFFICES ASSUME NEW s \in Used(sessions'), s # Fresh(sessions)
               PROVE  s \in Used(sessions)
    OBVIOUS
  <2>1. s \in 1 .. SessionCount /\ sessions'[s].state # "none"  BY <1>p DEF Used
  <2>2. sessions[s].state # "none"  BY <2>1, SessionSteps
  <2> QED  BY <2>1, <2>2, <1>t DEF Used
<1>3. Used(tokens') \subseteq Used(tokens) \cup {Fresh(tokens)}
  <2> SUFFICES ASSUME NEW k \in Used(tokens'), k # Fresh(tokens)
               PROVE  k \in Used(tokens)
    OBVIOUS
  <2>1. k \in 1 .. TokenCount /\ tokens'[k].state # "none"  BY <1>p DEF Used
  <2>2. tokens[k].state # "none"  BY <2>1, TokenSteps
  <2> QED  BY <2>1, <2>2, <1>t DEF Used
<1>4. ASSUME NEW S, NEW F, NEW x, S \subseteq F, F \subseteq S \cup {x}
      PROVE  F = S \/ F = S \cup {x}
  BY <1>4
<1>5. Filled(sessions')
  <2>1. Fresh(sessions) \in Nat /\ Used(sessions) \cup {Fresh(sessions)} = 1 .. Fresh(sessions)
    BY <1>t, <1>o, FreshIsUnused
  <2> QED  BY <2>1, <1>o, <1>1, <1>2, <1>4 DEF Filled
<1>6. Filled(tokens')
  <2>1. Fresh(tokens) \in Nat /\ Used(tokens) \cup {Fresh(tokens)} = 1 .. Fresh(tokens)
    BY <1>t, <1>o, FreshIsUnused
  <2> QED  BY <2>1, <1>o, <1>1, <1>3, <1>4 DEF Filled
<1>7. RowsInOrder' <=> Filled(sessions') /\ Filled(tokens')
  BY DEF RowsInOrder, Filled, Used
<1> QED  BY <1>5, <1>6, <1>7

\* Tokens belong to sessions there are.
LEMMA TokensReferStep ==
  ASSUME References, [SessionNext]_sessionVars  PROVE TokensRefer'
<1> SUFFICES ASSUME NEW k \in 1 .. TokenCount, tokens'[k].state # "none"
             PROVE  /\ tokens'[k].session \in 1 .. SessionCount
                    /\ sessions'[tokens'[k].session].state # "none"
  BY DEF TokensRefer
<1>t. tokens \in [1 .. TokenCount -> TokenRows]  BY TypesByName DEF References
<1>1. CASE tokens[k].state # "none"
  BY <1>1, RowsStay DEF References, TokensRefer
<1>2. CASE tokens[k].state = "none"
  <2>1. PICK r \in UserRequests, s \in 1 .. SessionCount :
          /\ \/ FirstToken(r) /\ s = asked[r].id
             \/ Renew(r) /\ s = tokens[asked[r].id].session
          /\ tokens'[k] = [state |-> "usable", session |-> s]
    BY <1>2, TokenSteps
  <2>2. sessions[s].state # "none"
    BY <2>1 DEF FirstToken, Renew, Stage, OnToken, References, RequestsRefer, RequestRefers, TokensRefer
  <2> QED  BY <2>1, <2>2, RowsStay
<1> QED  BY <1>1, <1>2

\* Requests hold rows there are.
LEMMA RequestsReferStep ==
  ASSUME References, [SessionNext]_sessionVars  PROVE RequestsRefer'
<1> SUFFICES ASSUME NEW q \in UserRequests  PROVE RequestRefers(q)'
  BY DEF RequestsRefer
<1>t. /\ asked \in [UserRequests -> Asks] /\ sessions \in [1 .. SessionCount -> SessionRows]
      /\ asked[q] \in Asks /\ RequestRefers(q)
  BY TypesByName DEF References, RequestsRefer
<1>p. RequestRefers(q)' <=>
        /\ asked'[q].stage = "token" =>
             asked'[q].id \in 1 .. SessionCount /\ sessions'[asked'[q].id].state # "none"
        /\ asked'[q].stage \in OnToken =>
             asked'[q].id \in 1 .. TokenCount /\ tokens'[asked'[q].id].state # "none"
        /\ asked'[q].stage = "reset" => asked'[q].id \in 1 .. MailCount
  BY DEF RequestRefers, Stage, OnToken
<1>s. ASSUME asked'[q] = asked[q]  PROVE RequestRefers(q)'
  BY <1>s, <1>p, <1>t, RowsStay DEF RequestRefers, Stage
<1>n. ASSUME asked'[q].stage \notin OnToken \cup {"token", "reset"}  PROVE RequestRefers(q)'
  BY <1>n, <1>p
<1>k. ASSUME asked[q].stage \in OnToken, asked'[q].id = asked[q].id, asked'[q].stage \in OnToken
      PROVE  RequestRefers(q)'
  <2>1. asked'[q].stage \notin {"token", "reset"}  BY <1>k DEF OnToken
  <2> QED  BY <2>1, <1>k, <1>p, <1>t, RowsStay DEF RequestRefers
<1>1. ASSUME NEW r \in UserRequests,
             \/ Login(r) \/ ReadUser(r) \/ WriteUser(r) \/ Trim(r) \/ FirstToken(r)
             \/ RevokeFamily(r) \/ Renew(r) \/ LogoutAll(r)
             \/ RevokeAll(r) \/ RevokeOthers(r) \/ Reset(r)
             \/ AskUpdate(r, "status", 0)
             \/ \E s \in 1 .. SessionCount : AskUpdate(r, "password", s)
      PROVE  RequestRefers(q)'
  <2>1. CASE q # r
    <3>1. asked'[q] = asked[q]
      BY <2>1, <1>1, <1>t DEF Login, ReadUser, WriteUser, Trim, FirstToken, RevokeFamily, Renew,
         LogoutAll, RevokeAll, RevokeOthers, Reset, AskUpdate, Proceed, Wrote, Answered
    <3> QED  BY <3>1, <1>s
  <2>2. CASE q = r
    <3>1. asked'[q].stage \in {"read", "write", "trim", "others", "all", "open", "idle"}
      <4>p. \A s : Proceed(r, s) \/ Wrote(r, s) => asked'[q].stage = s
        BY <2>2, <1>t DEF Proceed, Wrote, Asks
      <4>a. Answered(r) => asked'[q].stage = "idle"  BY <2>2, <1>t DEF Answered, NoRequest
      <4>1. CASE \/ Login(r) \/ AskUpdate(r, "status", 0)
                 \/ \E s \in 1 .. SessionCount : AskUpdate(r, "password", s)
        BY <4>1, <2>2, <1>t DEF Login, AskUpdate, NoRequest
      <4>2. CASE ReadUser(r)  BY <4>2, <2>2, <1>t DEF ReadUser, Asks
      <4>3. CASE WriteUser(r)  BY <4>3, <4>p, <4>a DEF WriteUser
      <4>4. CASE Trim(r) \/ RevokeFamily(r) \/ LogoutAll(r)
        BY <4>4, <4>p DEF Trim, RevokeFamily, LogoutAll
      <4>5. CASE FirstToken(r) \/ Renew(r) \/ RevokeAll(r) \/ RevokeOthers(r) \/ Reset(r)
        BY <4>5, <4>a DEF FirstToken, Renew, RevokeAll, RevokeOthers, Reset
      <4> QED  BY <1>1, <4>1, <4>2, <4>3, <4>4, <4>5
    <3>2. asked'[q].stage \notin OnToken \cup {"token", "reset"}  BY <3>1 DEF OnToken
    <3> QED  BY <3>2, <1>n
  <2> QED  BY <2>1, <2>2
<1>2. ASSUME NEW r \in UserRequests, OpenSession(r)  PROVE RequestRefers(q)'
  <2>1. CASE q # r  BY <2>1, <1>2, <1>s, <1>t DEF OpenSession
  <2>2. CASE q = r
    <3>1. asked'[q].stage = "token" /\ asked'[q].id = Fresh(sessions)
      BY <2>2, <1>2, <1>t DEF OpenSession, Asks
    <3>2. Fresh(sessions) \in 1 .. SessionCount
      BY <1>2, <1>t, FreshIsUnused, SessionsAssumption
         DEF OpenSession, References, RowsInOrder, SessionsAssumption
    <3>3. sessions'[Fresh(sessions)].state = "live"  BY <3>2, <1>2, <1>t DEF OpenSession
    <3> QED  BY <3>1, <3>2, <3>3, <1>p DEF OnToken
  <2> QED  BY <2>1, <2>2
<1>3. ASSUME NEW r \in UserRequests, CheckSession(r) \/ Rotate(r)  PROVE RequestRefers(q)'
  <2>1. CASE q # r
    <3>1. asked'[q] = asked[q]  BY <2>1, <1>3, <1>t DEF CheckSession, Rotate, Proceed, Answered
    <3> QED  BY <3>1, <1>s
  <2>2. CASE q = r
    <3>1. \/ asked'[q] = NoRequest
          \/ asked[q].stage \in OnToken /\ asked'[q].id = asked[q].id /\ asked'[q].stage \in OnToken
      BY <2>2, <1>3, <1>t DEF CheckSession, Rotate, Proceed, Answered, Stage, OnToken, Asks
    <3>2. NoRequest.stage \notin OnToken \cup {"token", "reset"}  BY DEF NoRequest, OnToken
    <3> QED  BY <3>1, <3>2, <1>n, <1>k
  <2> QED  BY <2>1, <2>2
<1>4. ASSUME NEW r \in UserRequests, NEW k \in 1 .. TokenCount, Refresh(r, k)
      PROVE  RequestRefers(q)'
  <2>1. CASE q # r  BY <2>1, <1>4, <1>s, <1>t DEF Refresh
  <2>2. CASE q = r
    <3>1. asked'[q].stage \in {"check", "reuse"} /\ asked'[q].id = k
      BY <2>2, <1>4, <1>t DEF Refresh, NoRequest
    <3>2. tokens'[k].state # "none"  BY <1>4, RowsStay DEF Refresh
    <3> QED  BY <3>1, <3>2, <1>p
  <2> QED  BY <2>1, <2>2
<1>5. ASSUME NEW r \in UserRequests, NEW m \in 1 .. MailCount, Confirm(r, m)
      PROVE  RequestRefers(q)'
  <2>1. CASE q # r  BY <2>1, <1>5, <1>s, <1>t DEF Confirm
  <2>2. CASE q = r
    <3>1. asked'[q].stage = "reset" /\ asked'[q].id = m
      BY <2>2, <1>5, <1>t DEF Confirm, NoRequest
    <3> QED  BY <3>1, <1>p DEF OnToken
  <2> QED  BY <2>1, <2>2
<1>6. CASE SendMail \/ UNCHANGED sessionVars \/ \E s \in 1 .. SessionCount : Logout(s)
  BY <1>6, <1>s DEF SendMail, Logout, sessionVars
<1> QED  BY <1>1, <1>2, <1>3, <1>4, <1>5, <1>6 DEF SessionNext

LEMMA ReferencesInit == SessionInit => References
<1> SUFFICES ASSUME SessionInit  PROVE References
  OBVIOUS
<1>1. SessionTypeOK  BY SessionsAssumption DEF SessionInit, SessionTypeOK, NoRequest, SessionsAssumption
<1>2. Used(sessions) = {} /\ Used(tokens) = {}  BY DEF SessionInit, Used
<1>3. RowsInOrder
  <2>1. 1 .. 0 = {}  OBVIOUS
  <2> QED  BY <2>1, <1>2 DEF RowsInOrder, Filled
<1>4. TokensRefer /\ RequestsRefer
  BY DEF SessionInit, NoRequest, TokensRefer, RequestsRefer, RequestRefers, Stage, OnToken
<1> QED  BY <1>1, <1>3, <1>4 DEF References

LEMMA ReferencesStep == References /\ [SessionNext]_sessionVars => References'
BY TypeStep, OrderStep, TokensReferStep, RequestsReferStep DEF References

LEMMA ReferencesHold == SessionSpec => []References
BY ReferencesInit, ReferencesStep, PTL DEF SessionSpec

\* The types of the rows and of the requests in flight.
THEOREM SessionTypesCorrect == SessionSpec => []SessionTypeOK
BY ReferencesHold, PTL DEF References

-----------------------------------------------------------------------------
(* What a recovery ends, and what requests under way bring back.             *)

\* What a request is asked for at the stages after its check.
KindFits(r) ==
  /\ asked[r].stage \in {"read", "write"} => asked[r].kind \in {"login", "password", "status"}
  /\ asked[r].stage \in {"trim", "open", "token"} => asked[r].kind = "login"
  /\ asked[r].stage \in {"check", "rotate", "renew"} => asked[r].kind = "refresh"

\* The passwords a request verified and read are those of the last recovery.
PasswordOfNow(r) ==
  /\ Stage(r, "read") /\ asked[r].kind # "status" => asked[r].seen = recoveries
  /\ Stage(r, "write") => /\ asked[r].hash = recoveries
                          /\ asked[r].kind # "status" => asked[r].seen = recoveries
  /\ asked[r].stage \in {"trim", "open"} => asked[r].seen = recoveries

\* The session a request issues a token for was opened after the last recovery.
TokenOfNow(r) ==
  /\ asked[r].stage \in {"rotate", "renew"} =>
       sessions[tokens[asked[r].id].session].opened = recoveries
  /\ Stage(r, "token") => sessions[asked[r].id].opened = recoveries

\* The inductive form: what the property says of the rows, of the requests too.
Authority ==
  /\ \A s \in Live : sessions[s].opened = recoveries
  /\ \A m \in 1 .. MailCount : mails[m].state = "unused" => mails[m].born = recoveries
  /\ \A r \in UserRequests : KindFits(r)
  /\ overtaken \cap {"login", "refresh"} = {} =>
       /\ \A k \in 1 .. TokenCount : tokens[k].state = "usable" =>
            sessions[tokens[k].session].opened = recoveries
       /\ \A r \in UserRequests : TokenOfNow(r)
  /\ overtaken \cap {"login", "password", "status"} = {} =>
       /\ password = recoveries
       /\ \A s \in Live : sessions[s].born = recoveries
       /\ \A r \in UserRequests : PasswordOfNow(r)

\* How a request comes to the stages those conjuncts name.
PastAsking == {"read", "write", "trim", "open", "token", "check", "rotate", "renew"}
LEMMA RequestMoves ==
  ASSUME References, [SessionNext]_sessionVars, NEW q \in UserRequests
  PROVE  \/ asked'[q] = asked[q]
         \/ asked'[q].stage \notin PastAsking
         \/ /\ asked'[q].stage = "read" /\ asked'[q].kind \in {"login", "password", "status"}
            /\ asked'[q].kind # "status" => asked'[q].seen = password
         \/ /\ Stage(q, "read") /\ asked'[q].stage = "write"
            /\ asked'[q].kind = asked[q].kind /\ asked'[q].seen = asked[q].seen
            /\ asked'[q].hash = password
         \/ /\ Stage(q, "write") /\ asked[q].kind = "login" /\ asked'[q].stage = "trim"
            /\ asked'[q].kind = asked[q].kind /\ asked'[q].seen = asked[q].seen
         \/ /\ Stage(q, "trim") /\ asked'[q].stage = "open"
            /\ asked'[q].kind = asked[q].kind /\ asked'[q].seen = asked[q].seen
         \/ /\ OpenSession(q) /\ asked'[q].stage = "token"
            /\ asked'[q].kind = asked[q].kind /\ asked'[q].id = Fresh(sessions)
         \/ asked'[q].stage = "check" /\ asked'[q].kind = "refresh"
         \/ /\ Stage(q, "check") /\ asked'[q].stage = "rotate" /\ tokens[asked[q].id].session \in Live
            /\ asked'[q].kind = asked[q].kind /\ asked'[q].id = asked[q].id
         \/ /\ Stage(q, "rotate") /\ asked'[q].stage = "renew"
            /\ asked'[q].kind = asked[q].kind /\ asked'[q].id = asked[q].id
<1>t. asked \in [UserRequests -> Asks] /\ asked[q] \in Asks  BY TypesByName DEF References
<1>p. ASSUME NEW r \in UserRequests, NEW s, Proceed(r, s) \/ Wrote(r, s)
      PROVE  \/ q # r /\ asked'[q] = asked[q]
             \/ /\ q = r /\ asked'[q].stage = s
                /\ asked'[q].kind = asked[q].kind /\ asked'[q].seen = asked[q].seen
                /\ asked'[q].id = asked[q].id
  BY <1>p, <1>t DEF Proceed, Wrote, Asks
<1>a. ASSUME NEW r \in UserRequests, Answered(r)
      PROVE  asked'[q] = asked[q] \/ asked'[q].stage \notin PastAsking
  BY <1>a, <1>t DEF Answered, NoRequest, PastAsking
<1>1. ASSUME NEW r \in UserRequests,
             \/ Login(r) \/ AskUpdate(r, "status", 0)
             \/ \E s \in 1 .. SessionCount : AskUpdate(r, "password", s)
      PROVE  \/ asked'[q] = asked[q]
             \/ /\ asked'[q].stage = "read" /\ asked'[q].kind \in {"login", "password", "status"}
                /\ asked'[q].kind # "status" => asked'[q].seen = password
  <2>1. CASE q # r  BY <2>1, <1>1, <1>t DEF Login, AskUpdate
  <2>2. CASE q = r /\ Login(r)  BY <2>2, <1>t DEF Login, NoRequest
  <2>3. ASSUME q = r, NEW kind \in {"status", "password"}, NEW s \in 0 .. SessionCount,
               AskUpdate(r, kind, s)
        PROVE  /\ asked'[q].stage = "read" /\ asked'[q].kind = kind
               /\ kind = "password" => asked'[q].seen = password
    BY <2>3, <1>t DEF AskUpdate, NoRequest
  <2>4. 0 \in 0 .. SessionCount /\ 1 .. SessionCount \subseteq 0 .. SessionCount
    BY SessionsAssumption DEF SessionsAssumption
  <2> QED  BY <2>1, <2>2, <2>3, <2>4, <1>1
<1>2. ASSUME NEW r \in UserRequests, ReadUser(r)
      PROVE  \/ asked'[q] = asked[q]
             \/ /\ Stage(q, "read") /\ asked'[q].stage = "write"
                /\ asked'[q].kind = asked[q].kind /\ asked'[q].seen = asked[q].seen
                /\ asked'[q].hash = password
  BY <1>2, <1>t DEF ReadUser, Stage, Asks
<1>3. ASSUME NEW r \in UserRequests, WriteUser(r)
      PROVE  \/ asked'[q] = asked[q]
             \/ asked'[q].stage \notin PastAsking
             \/ /\ Stage(q, "write") /\ asked[q].kind = "login" /\ asked'[q].stage = "trim"
                /\ asked'[q].kind = asked[q].kind /\ asked'[q].seen = asked[q].seen
  <2>1. Stage(r, "write")  BY <1>3 DEF WriteUser
  <2>2. \/ asked[r].kind = "login" /\ Wrote(r, "trim")
        \/ Wrote(r, "others") \/ Wrote(r, "all") \/ Answered(r)
    BY <1>3 DEF WriteUser
  <2>3. {"others", "all"} \cap PastAsking = {}  BY DEF PastAsking
  <2> QED  BY <2>1, <2>2, <2>3, <1>p, <1>a
<1>4. ASSUME NEW r \in UserRequests, Trim(r)
      PROVE  \/ asked'[q] = asked[q]
             \/ /\ Stage(q, "trim") /\ asked'[q].stage = "open"
                /\ asked'[q].kind = asked[q].kind /\ asked'[q].seen = asked[q].seen
  BY <1>4, <1>p DEF Trim
<1>5. ASSUME NEW r \in UserRequests, OpenSession(r)
      PROVE  \/ asked'[q] = asked[q]
             \/ /\ OpenSession(q) /\ asked'[q].stage = "token"
                /\ asked'[q].kind = asked[q].kind /\ asked'[q].id = Fresh(sessions)
  <2>1. CASE q # r  BY <2>1, <1>5, <1>t DEF OpenSession
  <2>2. CASE q = r
    <3>1. asked' = [asked EXCEPT ![q].stage = "token", ![q].id = Fresh(sessions)]
      BY <2>2, <1>5 DEF OpenSession
    <3> QED  BY <3>1, <2>2, <1>5, <1>t DEF Asks
  <2> QED  BY <2>1, <2>2
<1>6. ASSUME NEW r \in UserRequests, NEW k \in 1 .. TokenCount, Refresh(r, k)
      PROVE  \/ asked'[q] = asked[q] \/ asked'[q].stage \notin PastAsking
             \/ asked'[q].stage = "check" /\ asked'[q].kind = "refresh"
  BY <1>6, <1>t DEF Refresh, NoRequest, PastAsking
<1>7. ASSUME NEW r \in UserRequests, NEW m \in 1 .. MailCount, Confirm(r, m)
      PROVE  asked'[q] = asked[q] \/ asked'[q].stage \notin PastAsking
  BY <1>7, <1>t DEF Confirm, NoRequest, PastAsking
<1>8. ASSUME NEW r \in UserRequests, CheckSession(r)
      PROVE  \/ asked'[q] = asked[q] \/ asked'[q].stage \notin PastAsking
             \/ /\ Stage(q, "check") /\ asked'[q].stage = "rotate" /\ tokens[asked[q].id].session \in Live
                /\ asked'[q].kind = asked[q].kind /\ asked'[q].id = asked[q].id
  BY <1>8, <1>p, <1>a DEF CheckSession
<1>9. ASSUME NEW r \in UserRequests, Rotate(r)
      PROVE  \/ asked'[q] = asked[q]
             \/ /\ Stage(q, "rotate") /\ asked'[q].stage = "renew"
                /\ asked'[q].kind = asked[q].kind /\ asked'[q].id = asked[q].id
  BY <1>9, <1>p DEF Rotate
<1>10. ASSUME NEW r \in UserRequests,
              \/ FirstToken(r) \/ RevokeFamily(r) \/ Renew(r) \/ LogoutAll(r)
              \/ RevokeAll(r) \/ RevokeOthers(r) \/ Reset(r)
       PROVE  asked'[q] = asked[q] \/ asked'[q].stage \notin PastAsking
  <2>1. Answered(r) \/ Proceed(r, "all")
    BY <1>10 DEF FirstToken, RevokeFamily, Renew, LogoutAll, RevokeAll, RevokeOthers, Reset
  <2>2. "all" \notin PastAsking  BY DEF PastAsking
  <2> QED  BY <2>1, <2>2, <1>p, <1>a
<1>11. CASE SendMail \/ UNCHANGED sessionVars \/ \E s \in 1 .. SessionCount : Logout(s)
  BY <1>11 DEF SendMail, Logout, sessionVars
<1> QED  BY <1>1, <1>2, <1>3, <1>4, <1>5, <1>6, <1>7, <1>8, <1>9, <1>10, <1>11 DEF SessionNext

\* Every step but a recovery leaves the recoveries, sends one mail at most, and
\* writes no password but one that was verified or read.
LEMMA RecoverySteps ==
  ASSUME References, [SessionNext]_sessionVars
  PROVE  \/ /\ recoveries' = recoveries /\ overtaken' = overtaken /\ (mails' = mails \/ SendMail)
            /\ \/ password' = password
               \/ \E r \in UserRequests :
                    /\ Stage(r, "write")
                    /\ \/ password' = asked[r].hash
                       \/ asked[r].kind = "password" /\ password' = asked[r].seen
         \/ \E r \in UserRequests : Reset(r) /\ mails[asked[r].id].state = "unused"
<1>1. ASSUME NEW r \in UserRequests,
             \/ Login(r) \/ ReadUser(r) \/ Trim(r) \/ OpenSession(r) \/ FirstToken(r)
             \/ RevokeFamily(r) \/ CheckSession(r) \/ Rotate(r) \/ Renew(r) \/ LogoutAll(r)
             \/ RevokeAll(r) \/ RevokeOthers(r)
             \/ \E k \in 1 .. TokenCount : Refresh(r, k)
             \/ \E m \in 1 .. MailCount : Confirm(r, m)
             \/ AskUpdate(r, "status", 0)
             \/ \E s \in 1 .. SessionCount : AskUpdate(r, "password", s)
      PROVE  recoveries' = recoveries /\ overtaken' = overtaken /\ mails' = mails /\ password' = password
  BY <1>1 DEF Login, ReadUser, Trim, OpenSession, FirstToken, RevokeFamily,
     CheckSession, Rotate, Renew, LogoutAll, RevokeAll, RevokeOthers, Refresh, Confirm, AskUpdate
<1>2. ASSUME NEW r \in UserRequests, WriteUser(r)
      PROVE  /\ recoveries' = recoveries /\ overtaken' = overtaken /\ mails' = mails
             /\ Stage(r, "write")
             /\ \/ password' = asked[r].hash
                \/ asked[r].kind = "password" /\ password' = asked[r].seen
  BY <1>2 DEF WriteUser
<1>3. ASSUME NEW r \in UserRequests, Reset(r)
      PROVE  \/ recoveries' = recoveries /\ overtaken' = overtaken /\ mails' = mails /\ password' = password
             \/ mails[asked[r].id].state = "unused"
  BY <1>3 DEF Reset
<1>4. CASE SendMail  BY <1>4 DEF SendMail
<1>5. CASE UNCHANGED sessionVars \/ \E s \in 1 .. SessionCount : Logout(s)
  BY <1>5 DEF Logout, sessionVars
<1> QED  BY <1>1, <1>2, <1>3, <1>4, <1>5 DEF SessionNext

LEMMA KindsFitStep ==
  ASSUME References, \A r \in UserRequests : KindFits(r), [SessionNext]_sessionVars,
         NEW q \in UserRequests
  PROVE  KindFits(q)'
<1>1. KindFits(q)  OBVIOUS
<1>2. KindFits(q)' <=>
        /\ asked'[q].stage \in {"read", "write"} => asked'[q].kind \in {"login", "password", "status"}
        /\ asked'[q].stage \in {"trim", "open", "token"} => asked'[q].kind = "login"
        /\ asked'[q].stage \in {"check", "rotate", "renew"} => asked'[q].kind = "refresh"
  BY DEF KindFits
<1> QED  BY <1>1, <1>2, RequestMoves DEF KindFits, Stage, PastAsking, OpenSession

\* A completed recovery: nothing of before stays usable.
LEMMA RecoveryRevokes ==
  ASSUME References, Authority, NEW r \in UserRequests, Reset(r), mails[asked[r].id].state = "unused"
  PROVE  Authority'
<1>t. /\ sessions \in [1 .. SessionCount -> SessionRows] /\ tokens \in [1 .. TokenCount -> TokenRows]
      /\ mails \in [1 .. MailCount -> MailRows] /\ asked \in [UserRequests -> Asks]
  BY TypesByName DEF References
<1>1. \A s \in 1 .. SessionCount : sessions'[s].state # "live"
  BY <1>t DEF Reset, Revoked, Live, SessionRows
<1>2. \A k \in 1 .. TokenCount : tokens'[k].state # "usable"
  BY <1>t DEF Reset, TokensRevoked, TokenRows, References, TokensRefer
<1>3. \A m \in 1 .. MailCount : mails'[m].state # "unused"
  BY <1>t DEF Reset, UsedUp, MailRows
<1>4. /\ overtaken' = {asked[q].kind : q \in {q \in UserRequests : PastCheck(q)}}
      /\ password' = recoveries'
      /\ Answered(r)
  BY DEF Reset
<1>5. ASSUME NEW q \in UserRequests
      PROVE  KindFits(q)' /\ (asked'[q] = asked[q] \/ asked'[q].stage = "idle")
  <2>1. asked'[q] = asked[q] \/ asked'[q].stage = "idle"
    BY <1>4, <1>t DEF Answered, NoRequest
  <2>2. KindFits(q)  BY DEF Authority
  <2> QED  BY <2>1, <2>2 DEF KindFits
<1>6. ASSUME overtaken' \cap {"login", "refresh"} = {}, NEW q \in UserRequests
      PROVE  TokenOfNow(q)'
  <2>1. asked[q].stage \notin {"rotate", "renew", "token"}
    <3>1. KindFits(q)  BY DEF Authority
    <3>2. PastCheck(q) => asked[q].kind \in overtaken'  BY <1>4
    <3> QED  BY <3>1, <3>2, <1>6 DEF KindFits, PastCheck
  <2> QED  BY <2>1, <1>5 DEF TokenOfNow, Stage
<1>7. ASSUME overtaken' \cap {"login", "password", "status"} = {}, NEW q \in UserRequests
      PROVE  PasswordOfNow(q)'
  <2>1. ~ (Stage(q, "read") /\ asked[q].kind # "status") /\ asked[q].stage \notin {"write", "trim", "open"}
    <3>1. KindFits(q)  BY DEF Authority
    <3>2. PastCheck(q) => asked[q].kind \in overtaken'  BY <1>4
    <3> QED  BY <3>1, <3>2, <1>7 DEF KindFits, PastCheck, Stage
  <2> QED  BY <2>1, <1>5 DEF PasswordOfNow, Stage
<1> QED  BY <1>1, <1>2, <1>3, <1>4, <1>5, <1>6, <1>7 DEF Authority, Live

\* Between recoveries, where none of the requests the conjunct names is overtaken.
LEMMA TokensOfNowStep ==
  ASSUME References, [SessionNext]_sessionVars, recoveries' = recoveries,
         \A s \in Live : sessions[s].opened = recoveries,
         \A k \in 1 .. TokenCount : tokens[k].state = "usable" =>
           sessions[tokens[k].session].opened = recoveries,
         \A r \in UserRequests : TokenOfNow(r)
  PROVE  /\ \A k \in 1 .. TokenCount : tokens'[k].state = "usable" =>
              sessions'[tokens'[k].session].opened = recoveries'
         /\ \A r \in UserRequests : TokenOfNow(r)'
<1>1. ASSUME NEW k \in 1 .. TokenCount, tokens'[k].state = "usable"
      PROVE  sessions'[tokens'[k].session].opened = recoveries
  <2>1. CASE tokens'[k] = tokens[k]
    <3>1. /\ tokens[k].session \in 1 .. SessionCount /\ sessions[tokens[k].session].state # "none"
          /\ sessions[tokens[k].session].opened = recoveries
      BY <2>1, <1>1 DEF References, TokensRefer
    <3> QED  BY <3>1, <2>1, RowsStay
  <2>2. CASE tokens'[k] = [tokens[k] EXCEPT !.state = "revoked"]
    <3>1. tokens[k] \in TokenRows  BY TypesByName DEF References
    <3>2. tokens'[k].state = "revoked"  BY <3>1, <2>2 DEF TokenRows
    <3> QED  BY <3>2, <1>1
  <2>3. ASSUME NEW r \in UserRequests, NEW s \in 1 .. SessionCount,
               \/ FirstToken(r) /\ s = asked[r].id
               \/ Renew(r) /\ s = tokens[asked[r].id].session,
               tokens'[k] = [state |-> "usable", session |-> s]
        PROVE  sessions'[tokens'[k].session].opened = recoveries
    <3>1. sessions[s].opened = recoveries /\ sessions[s].state # "none"
      BY <2>3 DEF FirstToken, Renew, TokenOfNow, Stage, OnToken, References, TokensRefer,
         RequestsRefer, RequestRefers
    <3>2. tokens'[k].session = s  BY <2>3
    <3> QED  BY <3>1, <3>2, RowsStay
  <2> QED  BY <2>1, <2>2, <2>3, TokenSteps
<1>2. ASSUME NEW q \in UserRequests  PROVE TokenOfNow(q)'
  <2>p. TokenOfNow(q)' <=>
          /\ asked'[q].stage \in {"rotate", "renew"} =>
               sessions'[tokens'[asked'[q].id].session].opened = recoveries'
          /\ asked'[q].stage = "token" => sessions'[asked'[q].id].opened = recoveries'
    BY DEF TokenOfNow, Stage
  <2>i. TokenOfNow(q) /\ RequestRefers(q)  BY DEF References, RequestsRefer
  <2>k. ASSUME asked[q].stage \in OnToken, asked'[q].id = asked[q].id,
               sessions[tokens[asked[q].id].session].opened = recoveries
        PROVE  sessions'[tokens'[asked'[q].id].session].opened = recoveries'
    <3>1. asked[q].id \in 1 .. TokenCount /\ tokens[asked[q].id].state # "none"
      BY <2>k, <2>i DEF RequestRefers
    <3>2. /\ tokens[asked[q].id].session \in 1 .. SessionCount
          /\ sessions[tokens[asked[q].id].session].state # "none"
      BY <3>1 DEF References, TokensRefer
    <3>3. tokens'[asked[q].id].session = tokens[asked[q].id].session  BY <3>1, RowsStay
    <3> QED  BY <3>2, <3>3, <2>k, RowsStay
  <2>1. CASE asked'[q] = asked[q]
    <3>1. asked[q].stage \in {"rotate", "renew"} =>
            sessions'[tokens'[asked'[q].id].session].opened = recoveries'
      BY <2>1, <2>i, <2>k DEF TokenOfNow, OnToken
    <3>2. Stage(q, "token") => sessions'[asked[q].id].opened = recoveries'
      BY <2>i, RowsStay DEF TokenOfNow, RequestRefers
    <3> QED  BY <3>1, <3>2, <2>1, <2>p DEF Stage
  <2>2. CASE OpenSession(q) /\ asked'[q].stage = "token" /\ asked'[q].id = Fresh(sessions)
    <3>1. Fresh(sessions) \in 1 .. SessionCount
      BY <2>2, TypesByName, FreshIsUnused, SessionsAssumption
         DEF OpenSession, References, RowsInOrder, SessionsAssumption
    <3>2. sessions'[Fresh(sessions)].opened = recoveries
      BY <3>1, <2>2, TypesByName DEF OpenSession, References
    <3> QED  BY <3>2, <2>2, <2>p
  <2>3. CASE /\ Stage(q, "check") /\ asked'[q].stage = "rotate" /\ tokens[asked[q].id].session \in Live
             /\ asked'[q].id = asked[q].id
    BY <2>3, <2>k, <2>p DEF Stage, OnToken
  <2>4. CASE Stage(q, "rotate") /\ asked'[q].stage = "renew" /\ asked'[q].id = asked[q].id
    BY <2>4, <2>k, <2>i, <2>p DEF Stage, OnToken, TokenOfNow
  <2>5. CASE asked'[q].stage \notin {"token", "rotate", "renew"}  BY <2>5, <2>p
  <2> QED  BY <2>1, <2>2, <2>3, <2>4, <2>5, RequestMoves DEF PastAsking
<1> QED  BY <1>1, <1>2

LEMMA PasswordsOfNowStep ==
  ASSUME References, [SessionNext]_sessionVars, recoveries' = recoveries, password = recoveries,
         NEW q \in UserRequests, PasswordOfNow(q)
  PROVE  PasswordOfNow(q)'
<1>p. PasswordOfNow(q)' <=>
        /\ asked'[q].stage = "read" /\ asked'[q].kind # "status" => asked'[q].seen = recoveries'
        /\ asked'[q].stage = "write" => /\ asked'[q].hash = recoveries'
                                        /\ asked'[q].kind # "status" => asked'[q].seen = recoveries'
        /\ asked'[q].stage \in {"trim", "open"} => asked'[q].seen = recoveries'
  BY DEF PasswordOfNow, Stage
<1>1. CASE asked'[q] = asked[q]  BY <1>1, <1>p DEF PasswordOfNow, Stage
<1>2. CASE asked'[q].stage \notin {"read", "write", "trim", "open"}  BY <1>2, <1>p
<1>3. CASE /\ asked'[q].stage = "read"
           /\ asked'[q].kind # "status" => asked'[q].seen = password
  BY <1>3, <1>p
<1>4. CASE /\ Stage(q, "read") /\ asked'[q].stage = "write"
           /\ asked'[q].kind = asked[q].kind /\ asked'[q].seen = asked[q].seen
           /\ asked'[q].hash = password
  BY <1>4, <1>p DEF PasswordOfNow, Stage
<1>5. CASE /\ Stage(q, "write") /\ asked[q].kind = "login" /\ asked'[q].stage = "trim"
           /\ asked'[q].seen = asked[q].seen
  BY <1>5, <1>p DEF PasswordOfNow, Stage
<1>6. CASE Stage(q, "trim") /\ asked'[q].stage = "open" /\ asked'[q].seen = asked[q].seen
  BY <1>6, <1>p DEF PasswordOfNow, Stage
<1> QED  BY <1>1, <1>2, <1>3, <1>4, <1>5, <1>6, RequestMoves DEF PastAsking

LEMMA RecoveryStep ==
  ASSUME References, Authority, [SessionNext]_sessionVars
  PROVE  Authority'
<1>1. CASE \E r \in UserRequests : Reset(r) /\ mails[asked[r].id].state = "unused"
  BY <1>1, RecoveryRevokes
<1>2. CASE /\ recoveries' = recoveries /\ overtaken' = overtaken /\ (mails' = mails \/ SendMail)
           /\ \/ password' = password
              \/ \E r \in UserRequests :
                   /\ Stage(r, "write")
                   /\ \/ password' = asked[r].hash
                      \/ asked[r].kind = "password" /\ password' = asked[r].seen
  <2>t. /\ sessions \in [1 .. SessionCount -> SessionRows] /\ mails \in [1 .. MailCount -> MailRows]
    BY TypesByName DEF References
  <2>l. ASSUME NEW s \in 1 .. SessionCount, sessions'[s].state = "live"
        PROVE  \/ s \in Live /\ sessions'[s] = sessions[s]
               \/ \E r \in UserRequests :
                    /\ Stage(r, "open")
                    /\ sessions'[s].opened = recoveries /\ sessions'[s].born = asked[r].seen
    <3>1. CASE sessions'[s] = sessions[s]  BY <3>1, <2>l DEF Live
    <3>2. CASE sessions'[s] = [sessions[s] EXCEPT !.state = "revoked"]
      <4>1. sessions'[s].state = "revoked"  BY <3>2, <2>t DEF SessionRows
      <4> QED  BY <4>1, <2>l
    <3>3. ASSUME NEW r \in UserRequests, OpenSession(r),
                 sessions'[s] = [state |-> "live", opened |-> recoveries, born |-> asked[r].seen]
          PROVE  /\ Stage(r, "open")
                 /\ sessions'[s].opened = recoveries /\ sessions'[s].born = asked[r].seen
      BY <3>3 DEF OpenSession
    <3> QED  BY <3>1, <3>2, <3>3, SessionSteps
  <2>1. \A s \in Live' : sessions'[s].opened = recoveries
    BY <2>l DEF Authority, Live
  <2>3. ASSUME NEW m \in 1 .. MailCount, mails'[m].state = "unused"
        PROVE  mails'[m].born = recoveries
    <3>1. mails[m].state = "unused" => mails[m].born = recoveries  BY DEF Authority
    <3>2. CASE mails' = mails  BY <3>1, <3>2, <2>3
    <3>3. CASE SendMail
      <4>1. \/ mails'[m] = mails[m]
            \/ mails'[m] = [state |-> "unused", born |-> recoveries]
        BY <3>3, <2>t DEF SendMail
      <4> QED  BY <4>1, <3>1, <2>3
    <3> QED  BY <3>2, <3>3, <1>2
  <2>4. \A r \in UserRequests : KindFits(r)'  BY KindsFitStep DEF Authority
  <2>5. ASSUME overtaken \cap {"login", "refresh"} = {}
        PROVE  /\ \A k \in 1 .. TokenCount : tokens'[k].state = "usable" =>
                    sessions'[tokens'[k].session].opened = recoveries'
               /\ \A r \in UserRequests : TokenOfNow(r)'
    BY <2>5, <1>2, TokensOfNowStep DEF Authority
  <2>6. ASSUME overtaken \cap {"login", "password", "status"} = {}
        PROVE  /\ password' = recoveries
               /\ \A s \in Live' : sessions'[s].born = recoveries
               /\ \A r \in UserRequests : PasswordOfNow(r)'
    <3>1. /\ password = recoveries /\ \A s \in Live : sessions[s].born = recoveries
          /\ \A r \in UserRequests : PasswordOfNow(r)
      BY <2>6 DEF Authority
    <3>2. password' = recoveries  BY <3>1, <1>2 DEF PasswordOfNow, Stage
    <3>3. \A s \in Live' : sessions'[s].born = recoveries
      BY <3>1, <2>l DEF PasswordOfNow, Stage, Live
    <3>4. \A r \in UserRequests : PasswordOfNow(r)'  BY <3>1, <1>2, PasswordsOfNowStep
    <3> QED  BY <3>2, <3>3, <3>4
  <2> QED  BY <2>1, <2>3, <2>4, <2>5, <2>6, <1>2 DEF Authority
<1> QED  BY <1>1, <1>2, RecoverySteps

\* After any number of recoveries, logins, refreshes and changes at once, live
\* sessions and unused mails are newer than the last completed recovery; and the
\* tokens, the password in force and the passwords the sessions were opened with
\* are of that recovery, unless it found a request past its check that could
\* bring back an older one.
THEOREM RecoveryStaysAuthoritative == SessionSpec => []RecoveryIsAuthoritative
<1>1. SessionInit => Authority
  BY DEF SessionInit, Authority, Live, KindFits, TokenOfNow, PasswordOfNow, Stage, NoRequest
<1>2. References /\ Authority /\ [SessionNext]_sessionVars => Authority'
  BY RecoveryStep
<1>3. Authority => RecoveryIsAuthoritative  BY DEF Authority, RecoveryIsAuthoritative
<1> QED  BY <1>1, <1>2, <1>3, ReferencesHold, PTL DEF SessionSpec

-----------------------------------------------------------------------------
(* The limit of sessions.                                                    *)

\* Of a finite set of numbers, n are the newest n at most: to each of them
\* belongs another count of newer ones.
LEMMA NewestFew ==
  ASSUME NEW L \in SUBSET Nat, IsFiniteSet(L), NEW n \in Nat
  PROVE  LET N == {s \in L : Cardinality({u \in L : u > s}) < n}
         IN  IsFiniteSet(N) /\ Cardinality(N) <= n
<1> DEFINE Newer(s) == {u \in L : u > s}
           N == {s \in L : Cardinality(Newer(s)) < n}
           f == [s \in N |-> Cardinality(Newer(s))]
<1>1. ASSUME NEW s \in L
      PROVE  IsFiniteSet(Newer(s)) /\ Cardinality(Newer(s)) \in Nat
  BY FS_Subset, FS_CardinalityType
<1>2. IsFiniteSet(N)  BY FS_Subset
<1>3. IsFiniteSet(0 .. n - 1) /\ Cardinality(0 .. n - 1) = n  BY FS_Interval
<1>4. f \in [N -> 0 .. n - 1]
  <2> SUFFICES ASSUME NEW s \in N  PROVE Cardinality(Newer(s)) \in 0 .. n - 1
    OBVIOUS
  <2> QED  BY <1>1
<1>5. ASSUME NEW s \in N, NEW t \in N, s < t  PROVE Cardinality(Newer(t)) # Cardinality(Newer(s))
  <2>0. s \in Nat /\ t \in Nat /\ t \in L /\ L \subseteq Nat  OBVIOUS
  <2>1. Newer(t) \in SUBSET Newer(s) /\ t \in Newer(s) /\ t \notin Newer(t)
    <3>1. ASSUME NEW u \in L, u > t  PROVE u > s
      BY <3>1, <2>0, <1>5
    <3>2. t > s /\ ~ t > t  BY <2>0, <1>5
    <3> QED  BY <3>1, <3>2, <2>0
  <2>2. IsFiniteSet(Newer(s))  BY <1>1
  <2> HIDE DEF Newer
  <2> QED  BY <2>1, <2>2, FS_Subset
<1>6. \A s, t \in N : s # t => f[s] # f[t]
  <2> SUFFICES ASSUME NEW s \in N, NEW t \in N, s # t
               PROVE  Cardinality(Newer(s)) # Cardinality(Newer(t))
    OBVIOUS
  <2>1. s < t \/ t < s  OBVIOUS
  <2> QED  BY <2>1, <1>5
<1>7. Cardinality(N) \in Nat  BY <1>2, FS_CardinalityType
<1>8. ~ Cardinality(0 .. n - 1) < Cardinality(N)
  <2> SUFFICES ASSUME Cardinality(0 .. n - 1) < Cardinality(N)  PROVE FALSE
    OBVIOUS
  <2> HIDE DEF N, f
  <2> QED  BY <1>2, <1>3, <1>4, <1>6, FS_PigeonHole
<1> QED  BY <1>2, <1>3, <1>7, <1>8

LEMMA CountsAreNaturals ==
  /\ IsFiniteSet(Live) /\ Cardinality(Live) \in Nat
  /\ IsFiniteSet(Issuing) /\ Cardinality(Issuing) \in Nat
<1>1. IsFiniteSet(1 .. SessionCount)  BY SessionsAssumption, FS_Interval DEF SessionsAssumption
<1>2. Live \in SUBSET (1 .. SessionCount) /\ Issuing \in SUBSET UserRequests  BY DEF Live, Issuing
<1> QED  BY <1>1, <1>2, SessionsAssumption, FS_Subset, FS_CardinalityType DEF SessionsAssumption

\* revokeOldestSessions() makes room for one session more.
LEMMA TrimMakesRoom ==
  ASSUME References, NEW r \in UserRequests, Trim(r)
  PROVE  Cardinality(Live') <= MaxSessions - 1
<1>m. MaxSessions - 1 \in Nat /\ SessionCount \in Nat
  BY SessionsAssumption DEF SessionsAssumption
<1>1. PICK N : N = Newest(Kept)  OBVIOUS
<1>2. IsFiniteSet(N) /\ Cardinality(N) <= MaxSessions - 1
  <2>1. Live \in SUBSET Nat  BY <1>m DEF Live
  <2> QED  BY <2>1, <1>1, <1>m, CountsAreNaturals, NewestFew DEF Newest, Kept
<1>3. Live' \subseteq N
  <2>t. sessions \in [1 .. SessionCount -> SessionRows]  BY TypesByName DEF References
  <2>1. sessions' = Revoked(Live \ N)  BY <1>1 DEF Trim
  <2> SUFFICES ASSUME NEW s \in 1 .. SessionCount, sessions'[s].state = "live"
               PROVE  s \in N
    BY DEF Live
  <2>2. [sessions[s] EXCEPT !.state = "revoked"].state = "revoked"  BY <2>t DEF SessionRows
  <2> QED  BY <2>1, <2>2 DEF Revoked, Live
<1>4. PICK M \in SUBSET N : M = Live'  BY <1>3
<1>5. IsFiniteSet(M) /\ Cardinality(M) \in Nat /\ Cardinality(M) <= Cardinality(N)
  BY <1>2, FS_Subset, FS_CardinalityType
<1>6. Cardinality(N) \in Nat  BY <1>2, FS_CardinalityType
<1> QED  BY <1>2, <1>4, <1>5, <1>6, <1>m

\* How a request comes to the steps before the rows it adds.
LEMMA RequestSteps ==
  ASSUME References, [SessionNext]_sessionVars, NEW q \in UserRequests
  PROVE  \/ asked'[q] = asked[q]
         \/ asked'[q].stage \notin {"open", "token", "renew"}
         \/ Trim(q) /\ asked'[q].stage = "open"
         \/ OpenSession(q) /\ asked'[q].stage = "token" /\ asked'[q].id = Fresh(sessions)
         \/ Rotate(q) /\ asked'[q].stage = "renew" /\ asked'[q].id = asked[q].id
<1>t. asked \in [UserRequests -> Asks] /\ asked[q] \in Asks  BY TypesByName DEF References
<1>p. ASSUME NEW r \in UserRequests, NEW s, Proceed(r, s) \/ Wrote(r, s)
      PROVE  IF q = r THEN asked'[q].stage = s /\ asked'[q].id = asked[q].id
             ELSE asked'[q] = asked[q]
  BY <1>p, <1>t DEF Proceed, Wrote, Asks
<1>a. ASSUME NEW r \in UserRequests, Answered(r)
      PROVE  IF q = r THEN asked'[q].stage = "idle" ELSE asked'[q] = asked[q]
  BY <1>a, <1>t DEF Answered, NoRequest
<1>1. ASSUME NEW r \in UserRequests,
             \/ Login(r) \/ ReadUser(r)
             \/ \E k \in 1 .. TokenCount : Refresh(r, k)
             \/ \E m \in 1 .. MailCount : Confirm(r, m)
             \/ AskUpdate(r, "status", 0)
             \/ \E s \in 1 .. SessionCount : AskUpdate(r, "password", s)
      PROVE  \/ asked'[q] = asked[q]
             \/ asked'[q].stage \in {"read", "write", "check", "reuse", "reset"}
  <2>1. CASE q # r  BY <2>1, <1>1, <1>t DEF Login, ReadUser, Refresh, Confirm, AskUpdate
  <2>2. CASE q = r
    <3>1. CASE Login(r) \/ \E k \in 1 .. TokenCount : Refresh(r, k)
      BY <3>1, <2>2, <1>t DEF Login, Refresh, NoRequest
    <3>2. CASE ReadUser(r)  BY <3>2, <2>2, <1>t DEF ReadUser, Asks
    <3>3. CASE \/ \E m \in 1 .. MailCount : Confirm(r, m)
               \/ AskUpdate(r, "status", 0)
               \/ \E s \in 1 .. SessionCount : AskUpdate(r, "password", s)
      BY <3>3, <2>2, <1>t DEF Confirm, AskUpdate, NoRequest
    <3> QED  BY <3>1, <3>2, <3>3, <1>1
  <2> QED  BY <2>1, <2>2
<1>2. ASSUME NEW r \in UserRequests,
             \/ WriteUser(r) \/ FirstToken(r) \/ RevokeFamily(r) \/ CheckSession(r) \/ Renew(r)
             \/ LogoutAll(r) \/ RevokeAll(r) \/ RevokeOthers(r) \/ Reset(r)
      PROVE  \/ asked'[q] = asked[q]
             \/ asked'[q].stage \in {"trim", "others", "all", "idle", "rotate"}
  <2>1. \/ Answered(r)
        \/ \E s \in {"trim", "others", "all", "rotate"} : Proceed(r, s) \/ Wrote(r, s)
    BY <1>2 DEF WriteUser, FirstToken, RevokeFamily, CheckSession, Renew, LogoutAll, RevokeAll,
       RevokeOthers, Reset
  <2> QED  BY <2>1, <1>p, <1>a
<1>3. ASSUME NEW r \in UserRequests, Trim(r)
      PROVE  \/ asked'[q] = asked[q]
             \/ Trim(q) /\ asked'[q].stage = "open"
  BY <1>3, <1>p DEF Trim
<1>4. ASSUME NEW r \in UserRequests, Rotate(r)
      PROVE  \/ asked'[q] = asked[q]
             \/ Rotate(q) /\ asked'[q].stage = "renew" /\ asked'[q].id = asked[q].id
  BY <1>4, <1>p DEF Rotate
<1>5. ASSUME NEW r \in UserRequests, OpenSession(r)
      PROVE  \/ asked'[q] = asked[q]
             \/ OpenSession(q) /\ asked'[q].stage = "token" /\ asked'[q].id = Fresh(sessions)
  BY <1>5, <1>t DEF OpenSession, Asks
<1>6. CASE SendMail \/ UNCHANGED sessionVars \/ \E s \in 1 .. SessionCount : Logout(s)
  BY <1>6 DEF SendMail, Logout, sessionVars
<1> QED  BY <1>1, <1>2, <1>3, <1>4, <1>5, <1>6 DEF SessionNext

\* A login that reaches or leaves the insertion of its session.
LEMMA IssuingSteps ==
  ASSUME References, [SessionNext]_sessionVars
  PROVE  \/ \E r \in UserRequests : Trim(r) /\ r \notin Issuing /\ Issuing' = Issuing \cup {r}
         \/ \E r \in UserRequests : OpenSession(r) /\ r \in Issuing /\ Issuing' = Issuing \ {r}
         \/ /\ \A r \in UserRequests : ~ Trim(r) /\ ~ OpenSession(r)
            /\ Issuing' \subseteq Issuing /\ peak' = peak
<1>t. asked \in [UserRequests -> Asks]  BY TypesByName DEF References
<1>1. ASSUME NEW r \in UserRequests, Trim(r)
      PROVE  r \notin Issuing /\ Issuing' = Issuing \cup {r}
  <2>1. \A q \in UserRequests : asked'[q].stage = IF q = r THEN "open" ELSE asked[q].stage
    BY <1>1, <1>t DEF Trim, Proceed, Asks
  <2>2. asked[r].stage = "trim"  BY <1>1 DEF Trim, Stage
  <2> QED  BY <2>1, <2>2 DEF Issuing, Stage
<1>2. ASSUME NEW r \in UserRequests, OpenSession(r)
      PROVE  r \in Issuing /\ Issuing' = Issuing \ {r}
  <2>1. \A q \in UserRequests : asked'[q].stage = IF q = r THEN "token" ELSE asked[q].stage
    BY <1>2, <1>t DEF OpenSession, Asks
  <2>2. asked[r].stage = "open"  BY <1>2 DEF OpenSession, Stage
  <2> QED  BY <2>1, <2>2 DEF Issuing, Stage
<1>3. ASSUME \A r \in UserRequests : ~ Trim(r) /\ ~ OpenSession(r)
      PROVE  Issuing' \subseteq Issuing /\ peak' = peak
  <2>1. Issuing' \subseteq Issuing  BY <1>3, RequestSteps DEF Issuing, Stage, Rotate
  <2>2. peak' = peak
    BY <1>3 DEF SessionNext, Login, ReadUser, WriteUser, FirstToken, RevokeFamily, CheckSession,
       Rotate, Renew, LogoutAll, RevokeAll, RevokeOthers, Reset, Refresh, Confirm, AskUpdate,
       Logout, SendMail, sessionVars
  <2> QED  BY <2>1, <2>2
<1> QED  BY <1>1, <1>2, <1>3

LEMMA BoundStep ==
  ASSUME References, SessionsBounded, [SessionNext]_sessionVars  PROVE SessionsBounded'
<1>t. /\ sessions \in [1 .. SessionCount -> SessionRows] /\ peak \in Nat
      /\ MaxSessions - 1 \in Nat
  BY TypesByName, SessionsAssumption DEF References, SessionsAssumption
<1>p. peak' \in Nat  BY TypeStep DEF SessionTypeOK
<1>c. /\ IsFiniteSet(Live) /\ Cardinality(Live) \in Nat
      /\ IsFiniteSet(Issuing) /\ Cardinality(Issuing) \in Nat
  BY CountsAreNaturals
<1>d. Cardinality(Live') \in Nat /\ Cardinality(Issuing') \in Nat
  <2>1. IsFiniteSet(1 .. SessionCount)  BY SessionsAssumption, FS_Interval DEF SessionsAssumption
  <2>2. Live' \subseteq 1 .. SessionCount /\ Issuing' \subseteq UserRequests  BY DEF Live, Issuing
  <2>3. PICK L \in SUBSET (1 .. SessionCount), I \in SUBSET UserRequests : L = Live' /\ I = Issuing'
    BY <2>2
  <2> QED
    BY <2>1, <2>3, SessionsAssumption, FS_Subset, FS_CardinalityType DEF SessionsAssumption
<1>b. peak > 0 => Cardinality(Live) + Cardinality(Issuing) <= MaxSessions - 1 + peak
  BY DEF SessionsBounded
<1>g. SessionsBounded' <=>
        (peak' > 0 => Cardinality(Live') + Cardinality(Issuing') <= MaxSessions - 1 + peak')
  BY DEF SessionsBounded
<1>1. ASSUME NEW r \in UserRequests, Trim(r), r \notin Issuing, Issuing' = Issuing \cup {r}
      PROVE  SessionsBounded'
  <2>1. Cardinality(Issuing') = Cardinality(Issuing) + 1  BY <1>1, <1>c, FS_AddElement
  <2>2. peak' >= Cardinality(Issuing) + 1  BY <1>1, <1>c, <1>t DEF Trim
  <2>3. Cardinality(Live') <= MaxSessions - 1  BY <1>1, TrimMakesRoom
  <2> QED  BY <2>1, <2>2, <2>3, <1>c, <1>d, <1>t, <1>p, <1>g
<1>2. ASSUME NEW r \in UserRequests, OpenSession(r), r \in Issuing, Issuing' = Issuing \ {r}
      PROVE  SessionsBounded'
  <2>1. Cardinality(Issuing') = Cardinality(Issuing) - 1  BY <1>2, <1>c, FS_RemoveElement
  <2>2. Live' \subseteq Live \cup {Fresh(sessions)}  BY <1>2, <1>t DEF OpenSession, Live
  <2>3. Cardinality(Live') <= Cardinality(Live) + 1
    <3>1. PICK L : L = Live \cup {Fresh(sessions)}  OBVIOUS
    <3>2. PICK M \in SUBSET L : M = Live'  BY <3>1, <2>2
    <3>3. IsFiniteSet(L) /\ (Cardinality(L) = Cardinality(Live) \/ Cardinality(L) = Cardinality(Live) + 1)
      BY <3>1, <1>c, FS_AddElement
    <3>4. Cardinality(M) <= Cardinality(L)  BY <3>2, <3>3, FS_Subset
    <3> QED  BY <3>2, <3>3, <3>4, <1>c, <1>d
  <2>4. peak' = peak  BY <1>2 DEF OpenSession
  <2> QED  BY <2>1, <2>3, <2>4, <1>b, <1>c, <1>d, <1>t, <1>g
<1>3. ASSUME \A r \in UserRequests : ~ OpenSession(r), Issuing' \subseteq Issuing, peak' = peak
      PROVE  SessionsBounded'
  <2>1. Live' \subseteq Live
    <3> SUFFICES ASSUME NEW s \in 1 .. SessionCount, sessions'[s].state = "live"
                 PROVE  sessions[s].state = "live"
      BY DEF Live
    <3> QED  BY <1>3, SessionSteps
  <2>2. Cardinality(Live') <= Cardinality(Live)
    <3>1. PICK M \in SUBSET Live : M = Live'  BY <2>1
    <3> QED  BY <3>1, <1>c, FS_Subset
  <2>3. Cardinality(Issuing') <= Cardinality(Issuing)
    <3>1. PICK M \in SUBSET Issuing : M = Issuing'  BY <1>3
    <3> QED  BY <3>1, <1>c, FS_Subset
  <2> QED  BY <2>2, <2>3, <1>3, <1>b, <1>c, <1>d, <1>t, <1>g
<1> QED  BY <1>1, <1>2, <1>3, IssuingSteps

\* The limit of sessions is exceeded by no more than the logins that were
\* about to open a session together, whatever else goes on.
THEOREM SessionsStayBounded == SessionSpec => []SessionsBounded
<1>1. SessionInit => SessionsBounded  BY DEF SessionInit, SessionsBounded
<1>2. References /\ SessionsBounded /\ [SessionNext]_sessionVars => SessionsBounded'
  BY BoundStep
<1> QED  BY <1>1, <1>2, ReferencesHold, PTL DEF SessionSpec

-----------------------------------------------------------------------------
(* One token for a session.                                                  *)

\* A token that can be used, and a request that is about to make one.
Bears(k, s) == tokens[k].session = s /\ tokens[k].state = "usable"
Makes(r, s) == \/ Stage(r, "renew") /\ tokens[asked[r].id].session = s
               \/ Stage(r, "token") /\ asked[r].id = s

\* There is one of them at most.
Alone(s) ==
  /\ \A k, l \in 1 .. TokenCount : Bears(k, s) /\ Bears(l, s) => k = l
  /\ \A q, r \in UserRequests : Makes(q, s) /\ Makes(r, s) => q = r
  /\ \A k \in 1 .. TokenCount, r \in UserRequests : ~ (Bears(k, s) /\ Makes(r, s))
OneBearer == \A s \in (1 .. SessionCount) \ raced : Alone(s)

\* Who makes a token after a step: one that made it before and has not moved,
\* or one that has opened the session or rotated its token by the step.
LEMMA MakersNext ==
  ASSUME References, [SessionNext]_sessionVars, NEW q \in UserRequests,
         NEW s \in 1 .. SessionCount, Makes(q, s)'
  PROVE  \/ Makes(q, s) /\ asked'[q] = asked[q]
         \/ OpenSession(q) /\ s = Fresh(sessions)
         \/ Rotate(q) /\ s = tokens[asked[q].id].session
<1>1. \/ asked'[q].stage = "renew" /\ tokens'[asked'[q].id].session = s
      \/ asked'[q].stage = "token" /\ asked'[q].id = s
  BY DEF Makes, Stage
<1>2. asked[q].stage \in OnToken => tokens'[asked[q].id].session = tokens[asked[q].id].session
  BY RowsStay DEF References, RequestsRefer, RequestRefers
<1>3. CASE asked'[q] = asked[q]
  BY <1>1, <1>2, <1>3 DEF Makes, Stage, OnToken
<1>4. CASE OpenSession(q) /\ asked'[q].stage = "token" /\ asked'[q].id = Fresh(sessions)
  BY <1>1, <1>4
<1>5. CASE Rotate(q) /\ asked'[q].stage = "renew" /\ asked'[q].id = asked[q].id
  BY <1>1, <1>2, <1>5 DEF Rotate, Stage, OnToken
<1>6. CASE Trim(q) /\ asked'[q].stage = "open"  BY <1>1, <1>6
<1>7. CASE asked'[q].stage \notin {"open", "token", "renew"}  BY <1>1, <1>7
<1> QED  BY <1>3, <1>4, <1>5, <1>6, <1>7, RequestSteps

\* What can be used after a step could be before, or is new.
LEMMA BearersNext ==
  ASSUME References, [SessionNext]_sessionVars, NEW k \in 1 .. TokenCount,
         NEW s \in 1 .. SessionCount, Bears(k, s)'
  PROVE  \/ Bears(k, s)
         \/ /\ k = Fresh(tokens)
            /\ \E r \in UserRequests : \/ FirstToken(r) /\ s = asked[r].id
                                       \/ Renew(r) /\ s = tokens[asked[r].id].session
<1>t. tokens \in [1 .. TokenCount -> TokenRows]  BY TypesByName DEF References
<1>1. tokens'[k].session = s /\ tokens'[k].state = "usable"  BY DEF Bears
<1>2. CASE tokens'[k] = tokens[k]  BY <1>1, <1>2 DEF Bears
<1>3. CASE tokens'[k] = [tokens[k] EXCEPT !.state = "revoked"]  BY <1>1, <1>3, <1>t DEF TokenRows
<1>4. ASSUME k = Fresh(tokens), NEW r \in UserRequests, NEW u \in 1 .. SessionCount,
             \/ FirstToken(r) /\ u = asked[r].id
             \/ Renew(r) /\ u = tokens[asked[r].id].session,
             tokens'[k] = [state |-> "usable", session |-> u]
      PROVE  \E q \in UserRequests : \/ FirstToken(q) /\ s = asked[q].id
                                     \/ Renew(q) /\ s = tokens[asked[q].id].session
  <2>1. u = s  BY <1>1, <1>4
  <2> QED  BY <2>1, <1>4
<1> QED  BY <1>2, <1>3, <1>4, TokenSteps

\* Fewer of them are one at most.
LEMMA AloneStays ==
  ASSUME NEW s, Alone(s),
         \A k \in 1 .. TokenCount : Bears(k, s)' => Bears(k, s),
         \A q \in UserRequests : Makes(q, s)' => Makes(q, s)
  PROVE  Alone(s)'
BY DEF Alone

\* A session that has just been opened has no token yet.
LEMMA AloneAfterOpen ==
  ASSUME References, [SessionNext]_sessionVars, NEW r \in UserRequests, OpenSession(r),
         NEW s \in 1 .. SessionCount, Alone(s)
  PROVE  Alone(s)'
<1>1. \A k \in 1 .. TokenCount : Bears(k, s)' <=> Bears(k, s)  BY DEF OpenSession, Bears
<1>2. \A q \in UserRequests : Makes(q, s)' => Makes(q, s) \/ (q = r /\ s = Fresh(sessions))
  <2> SUFFICES ASSUME NEW q \in UserRequests, Makes(q, s)', ~ Makes(q, s)
               PROVE  q = r /\ s = Fresh(sessions)
    OBVIOUS
  <2>1. asked'[r].stage = "token"
    BY TypesByName DEF OpenSession, References, Asks
  <2>2. ~ Rotate(q)
    <3>1. ASSUME Rotate(q)  PROVE FALSE
      <4>1. sessions' = sessions  BY <3>1 DEF Rotate
      <4>2. Fresh(sessions) \in 1 .. SessionCount /\ sessions[Fresh(sessions)].state = "none"
        BY TypesByName, FreshIsUnused, SessionsAssumption
           DEF OpenSession, References, RowsInOrder, Used, SessionsAssumption
      <4> QED  BY <4>1, <4>2, TypesByName DEF OpenSession, References
    <3> QED  BY <3>1
  <2>3. OpenSession(q) /\ s = Fresh(sessions)  BY <2>2, MakersNext
  <2>4. q = r
    <3>1. asked[q].stage = "open" /\ asked[r].stage = "open"  BY <2>3 DEF OpenSession, Stage
    <3>2. asked'[q].stage = "token"  BY <2>3, TypesByName DEF OpenSession, References, Asks
    <3> QED  BY <3>1, <3>2, TypesByName DEF OpenSession, References, Asks
  <2> QED  BY <2>3, <2>4
<1>3. CASE s # Fresh(sessions)  BY <1>1, <1>2, <1>3, AloneStays
<1>4. CASE s = Fresh(sessions)
  <2>1. sessions[s].state = "none"
    BY <1>4, TypesByName, FreshIsUnused, SessionsAssumption
       DEF References, RowsInOrder, Used, SessionsAssumption
  <2>2. \A k \in 1 .. TokenCount : ~ Bears(k, s)  BY <2>1 DEF Bears, References, TokensRefer
  <2>3. \A q \in UserRequests : ~ Makes(q, s)
    BY <2>1 DEF Makes, Stage, OnToken, References, TokensRefer, RequestsRefer, RequestRefers
  <2> QED  BY <2>2, <2>3, <1>1, <1>2 DEF Alone
<1> QED  BY <1>3, <1>4

\* The maker's token takes the place of its maker.
LEMMA AloneAfterIssue ==
  ASSUME References, [SessionNext]_sessionVars, NEW r \in UserRequests, NEW u \in 1 .. SessionCount,
         \/ FirstToken(r) /\ u = asked[r].id
         \/ Renew(r) /\ u = tokens[asked[r].id].session,
         NEW s \in 1 .. SessionCount, Alone(s)
  PROVE  Alone(s)'
<1>t. asked \in [UserRequests -> Asks]  BY TypesByName DEF References
<1>1. Makes(r, u)  BY DEF Makes, FirstToken, Renew
<1>2. asked' = [asked EXCEPT ![r] = NoRequest]  BY DEF FirstToken, Renew, Answered
<1>3. \A q \in UserRequests : Makes(q, s)' => Makes(q, s) /\ q # r
  <2> SUFFICES ASSUME NEW q \in UserRequests, Makes(q, s)'  PROVE Makes(q, s) /\ q # r
    OBVIOUS
  <2>1. q # r  BY <1>2, <1>t DEF Makes, Stage, NoRequest
  <2>2. asked'[q] = asked[q]  BY <2>1, <1>2, <1>t
  <2>3. asked'[q].stage \in {"renew", "token"}  BY DEF Makes, Stage
  <2> QED  BY <2>1, <2>2, <2>3, MakersNext DEF OpenSession, Rotate, Stage
<1>4. \A k \in 1 .. TokenCount : Bears(k, s)' => Bears(k, s) \/ (k = Fresh(tokens) /\ s = u)
  <2> SUFFICES ASSUME NEW k \in 1 .. TokenCount, Bears(k, s)', ~ Bears(k, s)
               PROVE  k = Fresh(tokens) /\ s = u
    OBVIOUS
  <2>1. PICK q \in UserRequests : \/ FirstToken(q) /\ s = asked[q].id
                                  \/ Renew(q) /\ s = tokens[asked[q].id].session
    BY BearersNext
  <2>2. asked[q].stage \in {"renew", "token"} /\ asked'[q].stage = "idle"
    BY <2>1, <1>t DEF FirstToken, Renew, Answered, NoRequest, Stage
  <2>3. q = r  BY <2>2, <1>2, <1>t
  <2>4. s = u  BY <2>1, <2>3 DEF FirstToken, Renew, Stage
  <2>5. k = Fresh(tokens)  BY BearersNext
  <2> QED  BY <2>4, <2>5
<1>5. CASE s # u  BY <1>3, <1>4, <1>5, AloneStays
<1>6. CASE s = u
  <2>1. \A k \in 1 .. TokenCount : ~ Bears(k, s)  BY <1>1, <1>6 DEF Alone
  <2>2. \A q \in UserRequests : Makes(q, s) => q = r  BY <1>1, <1>6 DEF Alone
  <2> QED  BY <2>1, <2>2, <1>3, <1>4 DEF Alone
<1> QED  BY <1>5, <1>6

\* The request that rotates a token that could be used takes its place.
LEMMA AloneAfterRotate ==
  ASSUME References, [SessionNext]_sessionVars, NEW r \in UserRequests, Rotate(r),
         NEW s \in (1 .. SessionCount) \ raced', Alone(s)
  PROVE  Alone(s)'
<1>t. asked \in [UserRequests -> Asks] /\ tokens \in [1 .. TokenCount -> TokenRows]
  BY TypesByName DEF References
<1>k. PICK k \in 1 .. TokenCount : k = asked[r].id
  BY DEF Rotate, Stage, OnToken, References, RequestsRefer, RequestRefers
<1>1. tokens' = [tokens EXCEPT ![k].state = "revoked"]  BY <1>k DEF Rotate, Rotated
<1>2. \A j \in 1 .. TokenCount : Bears(j, s)' => Bears(j, s) /\ j # k
  BY <1>1, <1>t DEF Bears, TokenRows
<1>3. \A q \in UserRequests : Makes(q, s)' => Makes(q, s) \/ (q = r /\ s = tokens[k].session)
  <2> SUFFICES ASSUME NEW q \in UserRequests, Makes(q, s)', ~ Makes(q, s)
               PROVE  q = r /\ s = tokens[k].session
    OBVIOUS
  <2>1. asked'[r].stage = "renew" /\ \A p \in UserRequests \ {r} : asked'[p] = asked[p]
    BY <1>t DEF Rotate, Proceed, Asks
  <2>2. CASE OpenSession(q)
    BY <2>1, <2>2, <1>t DEF OpenSession, Rotate, Stage, Asks
  <2>3. CASE Rotate(q) /\ s = tokens[asked[q].id].session
    <3>1. asked[q].stage = "rotate" /\ asked'[q].stage = "renew"
      BY <2>3, <1>t DEF Rotate, Proceed, Stage, Asks
    <3>2. q = r  BY <3>1, <2>1
    <3> QED  BY <3>2, <2>3, <1>k
  <2> QED  BY <2>2, <2>3, MakersNext
<1>4. CASE s # tokens[k].session  BY <1>2, <1>3, <1>4, AloneStays
<1>5. CASE s = tokens[k].session
  <2>1. Bears(k, s)  BY <1>5, <1>k DEF Rotate, Bears
  <2>2. \A j \in 1 .. TokenCount : Bears(j, s) => j = k  BY <2>1 DEF Alone
  <2>3. \A q \in UserRequests : ~ Makes(q, s)  BY <2>1 DEF Alone
  <2> QED  BY <2>2, <2>3, <1>2, <1>3 DEF Alone
<1> QED  BY <1>4, <1>5

LEMMA OneBearerStep ==
  ASSUME References, OneBearer, [SessionNext]_sessionVars  PROVE OneBearer'
<1>r. raced \subseteq raced'
  BY DEF SessionNext, Login, ReadUser, WriteUser, Trim, OpenSession, FirstToken, RevokeFamily,
     CheckSession, Rotate, Renew, LogoutAll, RevokeAll, RevokeOthers, Reset, Refresh, Confirm,
     AskUpdate, Logout, SendMail, sessionVars
<1> SUFFICES ASSUME NEW s \in (1 .. SessionCount) \ raced'  PROVE Alone(s)'
  BY DEF OneBearer
<1>s. s \in 1 .. SessionCount /\ Alone(s)  BY <1>r DEF OneBearer
<1>1. CASE \E r \in UserRequests : OpenSession(r)  BY <1>1, <1>s, AloneAfterOpen
<1>2. CASE \E r \in UserRequests : Rotate(r)  BY <1>2, <1>s, AloneAfterRotate
<1>3. ASSUME NEW r \in UserRequests, FirstToken(r)  PROVE Alone(s)'
  <2>1. asked[r].id \in 1 .. SessionCount
    BY <1>3 DEF FirstToken, References, RequestsRefer, RequestRefers
  <2> QED  BY <2>1, <1>3, <1>s, AloneAfterIssue
<1>4. ASSUME NEW r \in UserRequests, Renew(r)  PROVE Alone(s)'
  <2>1. tokens[asked[r].id].session \in 1 .. SessionCount
    BY <1>4 DEF Renew, Stage, OnToken, References, TokensRefer, RequestsRefer, RequestRefers
  <2> QED  BY <2>1, <1>4, <1>s, AloneAfterIssue
<1>5. CASE \A r \in UserRequests : ~ OpenSession(r) /\ ~ Rotate(r) /\ ~ FirstToken(r) /\ ~ Renew(r)
  <2>1. \A k \in 1 .. TokenCount : Bears(k, s)' => Bears(k, s)  BY <1>5, <1>s, BearersNext
  <2>2. \A q \in UserRequests : Makes(q, s)' => Makes(q, s)  BY <1>5, <1>s, MakersNext
  <2> QED  BY <2>1, <2>2, <1>s, AloneStays
<1> QED  BY <1>1, <1>2, <1>3, <1>4, <1>5

\* A set whose elements are all the same one.
LEMMA OneAtMost ==
  ASSUME NEW S, IsFiniteSet(S), \A x, y \in S : x = y
  PROVE  Cardinality(S) = IF S = {} THEN 0 ELSE 1
<1>1. CASE S = {}  BY <1>1, FS_EmptySet
<1>2. CASE S # {}
  <2>1. PICK x \in S : S = {x}  BY <1>2
  <2> QED  BY <2>1, <1>2, FS_Singleton
<1> QED  BY <1>1, <1>2

LEMMA OneBearerCounts == ASSUME OneBearer  PROVE OneTokenPerSession
<1> SUFFICES ASSUME NEW s \in (1 .. SessionCount) \ raced
             PROVE  Cardinality({k \in 1 .. TokenCount : Bears(k, s)})
                      + Cardinality({r \in UserRequests : Makes(r, s)}) <= 1
  BY DEF OneTokenPerSession, Bears, Makes
<1> DEFINE K == {k \in 1 .. TokenCount : Bears(k, s)}
           R == {r \in UserRequests : Makes(r, s)}
<1>a. Alone(s)  BY DEF OneBearer
<1>1. IsFiniteSet(K) /\ IsFiniteSet(R)
  <2>1. IsFiniteSet(1 .. TokenCount) /\ IsFiniteSet(UserRequests)
    BY SessionsAssumption, FS_Interval DEF SessionsAssumption
  <2> QED  BY <2>1, FS_Subset
<1>2. /\ \A x, y \in K : x = y
      /\ \A x, y \in R : x = y
      /\ K = {} \/ R = {}
  BY <1>a DEF Alone
<1> HIDE DEF K, R
<1>3. /\ Cardinality(K) = (IF K = {} THEN 0 ELSE 1)
      /\ Cardinality(R) = (IF R = {} THEN 0 ELSE 1)
  BY <1>1, <1>2, OneAtMost
<1>4. Cardinality(K) + Cardinality(R) <= 1  BY <1>2, <1>3
<1> QED  BY <1>4 DEF K, R

\* Rotation keeps one token, or one request that is making it, for each
\* session of which no token was rotated twice.
THEOREM OneTokenForEachSession == SessionSpec => []OneTokenPerSession
<1>1. SessionInit => OneBearer
  BY DEF SessionInit, OneBearer, Alone, Bears, Makes, Stage, NoRequest
<1>2. References /\ OneBearer /\ [SessionNext]_sessionVars => OneBearer'
  BY OneBearerStep
<1>3. OneBearer => OneTokenPerSession  BY OneBearerCounts
<1> QED  BY <1>1, <1>2, <1>3, ReferencesHold, PTL DEF SessionSpec

-----------------------------------------------------------------------------
(* MultipartUpload                                                          *)

UploadRows == [status : {"pending", "completed", "aborted"}, expired : BOOLEAN, parts : PartLists]
PartStages == {"idle", "store", "list", "fetch", "publish", "delete", "complete", "remove", "abort"}
PartRecords == [stage : PartStages, part : 0 .. PartCount + 1, bytes : 0 .. PutCount,
                seen : PartLists, whole : PartLists]
AbortRecords == [answered : BOOLEAN, during : SUBSET PartCalls]
Assembled == [whole : PartLists, fit : {"exact", "cut", "padded"}, told : PartLists, after : BOOLEAN]

LEMMA MultipartTyped ==
  MultipartTypeOK <=>
    /\ multipart \in UploadRows /\ partBytes \in PartLists /\ answered \in PartLists
    /\ partCall \in [PartCalls -> PartRecords]
    /\ assembled \subseteq Assembled
    /\ doubtful \subseteq Parts \X (1 .. PutCount)
    /\ sideBySide \in BOOLEAN /\ aborts \in AbortRecords
    /\ puts \in Nat /\ multipartFaults \in Nat
BY DEF MultipartTypeOK, UploadRows, PartStages, PartRecords, AbortRecords, Assembled

\* Every list that is not empty has a first part.
LEMMA FirstPart ==
  ASSUME NEW S \in SUBSET Parts, S # {}
  PROVE  \E n \in S : \A m \in S : n <= m
<1> DEFINE Rel == OpToRel(<, Nat)
<1>1. S \subseteq Nat  BY MultipartAssumption DEF MultipartAssumption, Parts
<1>2. PICK n \in S : \A m \in S : <<m, n>> \notin Rel
  BY <1>1, NatLessThanWellFounded, WFMin
<1>3. \A m \in S : <<m, n>> \in Rel <=> m < n
  BY <1>1 DEF OpToRel
<1> HIDE DEF Rel
<1>4. \A m \in S : ~(m < n)  BY <1>2, <1>3, Zenon
<1>5. \A m \in S : m \in Nat /\ n \in Nat  BY <1>1
<1> QED  BY <1>4, <1>5

LEMMA NextPart ==
  ASSUME NEW r \in PartCalls, partCall[r].seen \in PartLists, NEW n \in 0 .. PartCount + 1
  PROVE  \/ NextListed(r, n) = 0 /\ \A m \in Listed(partCall[r].seen) : m <= n
         \/ /\ NextListed(r, n) \in Listed(partCall[r].seen) /\ NextListed(r, n) > n
            /\ \A m \in Listed(partCall[r].seen) : m > n => NextListed(r, n) <= m
<1> DEFINE later == {m \in Listed(partCall[r].seen) : m > n}
<1>1. later \subseteq Parts /\ Listed(partCall[r].seen) \subseteq Parts  BY DEF Listed
<1>2. Parts \subseteq Nat /\ n \in Nat  BY MultipartAssumption DEF MultipartAssumption, Parts
<1>3. CASE later = {}
  <2>1. NextListed(r, n) = 0  BY <1>3 DEF NextListed
  <2>2. \A m \in Listed(partCall[r].seen) : ~(m > n)  BY <1>3
  <2>3. \A m \in Listed(partCall[r].seen) : m \in Nat  BY <1>1, <1>2
  <2>4. \A m \in Listed(partCall[r].seen) : m <= n  BY <1>2, <2>2, <2>3
  <2> QED  BY <2>1, <2>4
<1>4. CASE later # {}
  <2>1. \E m \in later : \A k \in later : m <= k  BY <1>1, <1>4, FirstPart
  <2>2. NextListed(r, n) = CHOOSE m \in later : \A k \in later : m <= k
    BY <1>4 DEF NextListed
  <2>3. NextListed(r, n) \in later /\ \A k \in later : NextListed(r, n) <= k
    BY <2>1, <2>2
  <2> QED  BY <2>3
<1> QED  BY <1>3, <1>4

\* A request that sends a part has one, a completion fetches a listed part.
RequestShape ==
  \A r \in PartCalls :
    /\ PartUnderWay(r) => partCall[r].part \in Parts /\ partCall[r].bytes \in 1 .. PutCount
    /\ PartAt(r, "fetch") => partCall[r].part \in Listed(partCall[r].seen)

\* After an abort was answered only those it met may complete the upload.
AbortsHold ==
  /\ aborts.answered => multipart.status # "pending"
  /\ aborts.answered => \A r \in PartCalls :
       partCall[r].stage \in {"fetch", "publish"} => r \in aborts.during
  /\ AbortIsFinal

\* Bytes the client was told of, or those of a repetition that failed.
Told(n, v) == v = answered[n] \/ (answered[n] # 0 /\ <<n, v>> \in doubtful)

\* While no part was sent next to another request.
ListIsAnswered ==
  /\ multipart.parts = answered
  /\ \A r, q \in PartCalls : PartUnderWay(r) /\ q # r => PartAt(q, "idle")
  /\ \A r \in PartCalls :
       partCall[r].stage \in {"store", "list", "fetch", "publish"} => partCall[r].seen = answered
BytesAreTold ==
  /\ \A r \in PartCalls : PartAt(r, "list") => partBytes[partCall[r].part] = partCall[r].bytes
  /\ \A n \in Parts :
       \/ partBytes[n] = 0 \/ answered[n] = 0 \/ Told(n, partBytes[n])
       \/ \E r \in PartCalls : PartAt(r, "list") /\ partCall[r].part = n
FetchedIsTold ==
  /\ \A r \in PartCalls : PartAt(r, "fetch") => \A n \in Parts :
       Told(n, partCall[r].whole[n]) \/ (n \in Listed(partCall[r].seen) /\ n >= partCall[r].part)
  /\ \A r \in PartCalls : PartAt(r, "publish") => \A n \in Parts : Told(n, partCall[r].whole[n])
Orderly == ListIsAnswered /\ BytesAreTold /\ FetchedIsTold

UploadInv ==
  /\ MultipartTypeOK /\ RequestShape /\ AbortsHold /\ CompletedHoldsParts
  /\ ~sideBySide => Orderly

LEMMA NoPartCallTyped ==
  /\ NoPartCall \in PartRecords /\ NoParts \in PartLists
  /\ NoPartCall.stage = "idle" /\ NoPartCall.whole = NoParts
<1>1. NoParts \in PartLists  BY MultipartAssumption DEF MultipartAssumption, NoParts, PartLists
<1> QED  BY <1>1, MultipartAssumption DEF MultipartAssumption, NoPartCall, PartRecords, PartStages

LEMMA UploadInvInit == MultipartInit => UploadInv
<1> SUFFICES ASSUME MultipartInit  PROVE UploadInv
  OBVIOUS
<1>1. /\ \A r \in PartCalls : partCall[r] = NoPartCall /\ partCall[r].stage = "idle"
      /\ \A r \in PartCalls : PartAt(r, "idle") /\ ~PartUnderWay(r) /\ ~PartAt(r, "fetch")
           /\ ~PartAt(r, "list") /\ ~PartAt(r, "publish")
  BY NoPartCallTyped DEF MultipartInit, PartAt, PartUnderWay
<1>2. MultipartTypeOK
  BY NoPartCallTyped, MultipartTyped, MultipartAssumption
     DEF MultipartInit, UploadRows, AbortRecords, MultipartAssumption
<1>3. RequestShape /\ AbortsHold /\ CompletedHoldsParts
  BY <1>1 DEF RequestShape, AbortsHold, AbortIsFinal, CompletedHoldsParts, MultipartInit
<1>4. multipart.parts = answered /\ \A n \in Parts : partBytes[n] = 0
  BY DEF MultipartInit, NoParts
<1>5. Orderly
  BY <1>1, <1>4 DEF Orderly, ListIsAnswered, BytesAreTold, FetchedIsTold
<1> QED  BY <1>2, <1>3, <1>5 DEF UploadInv

LEMMA OnePartCallMoves ==
  ASSUME MultipartTypeOK, NEW r \in PartCalls, NEW h \in PartRecords,
         partCall' = [partCall EXCEPT ![r] = h]
  PROVE  /\ partCall' \in [PartCalls -> PartRecords]
         /\ partCall'[r] = h /\ \A q \in PartCalls \ {r} : partCall'[q] = partCall[q]
         /\ \A s : PartAt(r, s)' <=> h.stage = s
         /\ \A s : \A q \in PartCalls \ {r} : PartAt(q, s)' <=> PartAt(q, s)
         /\ PartUnderWay(r)' <=> h.stage \in {"store", "list"}
         /\ \A q \in PartCalls \ {r} : PartUnderWay(q)' <=> PartUnderWay(q)
<1>1. /\ partCall' \in [PartCalls -> PartRecords]
      /\ partCall'[r] = h /\ \A q \in PartCalls \ {r} : partCall'[q] = partCall[q]
  BY MultipartTyped
<1> QED  BY <1>1 DEF PartAt, PartUnderWay

\* A step of one request that tells the client of no part.
LEMMA UploadStepKeeps ==
  ASSUME UploadInv, NEW r \in PartCalls, NEW h \in PartRecords,
         partCall' = [partCall EXCEPT ![r] = h],
         multipart' \in UploadRows, multipart'.parts = multipart.parts,
         partBytes' \in PartLists, answered' = answered,
         assembled' \subseteq Assembled,
         doubtful \subseteq doubtful', doubtful' \subseteq Parts \X (1 .. PutCount),
         sideBySide' \in BOOLEAN, sideBySide => sideBySide', aborts' \in AbortRecords,
         puts' \in Nat, multipartFaults' \in Nat,
         AbortIsFinal', CompletedHoldsParts',
         h.stage \in {"store", "list"} => h.part \in Parts /\ h.bytes \in 1 .. PutCount,
         h.stage = "fetch" => h.part \in Listed(h.seen),
         aborts'.answered => multipart'.status # "pending",
         aborts'.answered /\ h.stage \in {"fetch", "publish"} => r \in aborts'.during,
         aborts'.answered => \A q \in PartCalls \ {r} :
           partCall[q].stage \in {"fetch", "publish"} => q \in aborts'.during,
         ~sideBySide' /\ h.stage \in {"store", "list"} => \A q \in PartCalls \ {r} : PartAt(q, "idle"),
         ~sideBySide' /\ h.stage # "idle" => \A q \in PartCalls \ {r} : ~PartUnderWay(q),
         ~sideBySide' /\ h.stage \in {"store", "list", "fetch", "publish"} => h.seen = answered,
         ~sideBySide' => BytesAreTold',
         ~sideBySide' /\ h.stage = "fetch" => \A n \in Parts :
           Told(n, h.whole[n]) \/ (n \in Listed(h.seen) /\ n >= h.part),
         ~sideBySide' /\ h.stage = "publish" => \A n \in Parts : Told(n, h.whole[n])
  PROVE  UploadInv'
<1>0. MultipartTypeOK  BY DEF UploadInv
<1>1. /\ partCall' \in [PartCalls -> PartRecords]
      /\ partCall'[r] = h /\ \A q \in PartCalls \ {r} : partCall'[q] = partCall[q]
      /\ \A s : PartAt(r, s)' <=> h.stage = s
      /\ \A s : \A q \in PartCalls \ {r} : PartAt(q, s)' <=> PartAt(q, s)
      /\ PartUnderWay(r)' <=> h.stage \in {"store", "list"}
      /\ \A q \in PartCalls \ {r} : PartUnderWay(q)' <=> PartUnderWay(q)
  BY <1>0, OnePartCallMoves
<1>2. MultipartTypeOK'
  BY <1>0, <1>1, MultipartTyped
     DEF MultipartTypeOK, UploadRows, PartStages, PartRecords, AbortRecords, Assembled
<1>3. RequestShape'
  BY <1>1 DEF UploadInv, RequestShape
<1>4. AbortsHold'
  BY <1>1 DEF AbortsHold
<1>5. ASSUME ~sideBySide'  PROVE Orderly'
  <2>1. ListIsAnswered /\ FetchedIsTold  BY <1>5 DEF UploadInv, Orderly
  <2>2. ListIsAnswered'
    <3>1. ASSUME NEW p \in PartCalls, NEW q \in PartCalls, PartUnderWay(p)', q # p
          PROVE  PartAt(q, "idle")'
      BY <1>1, <1>5, <2>1, <3>1 DEF ListIsAnswered
    <3>2. ASSUME NEW q \in PartCalls, partCall'[q].stage \in {"store", "list", "fetch", "publish"}
          PROVE  partCall'[q].seen = answered'
      BY <1>1, <1>5, <2>1, <3>2 DEF ListIsAnswered
    <3>3. multipart'.parts = answered'  BY <2>1 DEF ListIsAnswered
    <3> QED  BY <3>1, <3>2, <3>3 DEF ListIsAnswered
  <2>3. FetchedIsTold'
    <3>1. \A n, v : Told(n, v) => Told(n, v)'  BY DEF Told
    <3>2. ASSUME NEW q \in PartCalls, PartAt(q, "fetch")', NEW n \in Parts
          PROVE  (Told(n, partCall[q].whole[n]) \/ (n \in Listed(partCall[q].seen) /\ n >= partCall[q].part))'
      <4>1. CASE q = r
        <5>1. Told(n, h.whole[n]) \/ (n \in Listed(h.seen) /\ n >= h.part)
          BY <1>1, <1>5, <3>2, <4>1
        <5>2. Told(n, h.whole[n]) => Told(n, h.whole[n])'  BY <3>1
        <5>3. partCall'[q] = h  BY <1>1, <4>1
        <5> QED  BY <5>1, <5>2, <5>3 DEF Told, Listed
      <4>2. CASE q # r
        <5>1. Told(n, partCall[q].whole[n]) \/ (n \in Listed(partCall[q].seen) /\ n >= partCall[q].part)
          BY <1>1, <2>1, <3>2, <4>2 DEF FetchedIsTold
        <5>2. partCall'[q] = partCall[q]  BY <1>1, <4>2
        <5> QED  BY <5>1, <5>2 DEF Told, Listed
      <4> QED  BY <4>1, <4>2
    <3>3. ASSUME NEW q \in PartCalls, PartAt(q, "publish")', NEW n \in Parts
          PROVE  Told(n, partCall[q].whole[n])'
      <4>1. CASE q = r
        <5>1. Told(n, h.whole[n])  BY <1>1, <1>5, <3>3, <4>1
        <5>2. partCall'[q] = h  BY <1>1, <4>1
        <5> QED  BY <5>1, <5>2 DEF Told
      <4>2. CASE q # r
        <5>1. Told(n, partCall[q].whole[n])  BY <1>1, <2>1, <3>3, <4>2 DEF FetchedIsTold
        <5>2. partCall'[q] = partCall[q]  BY <1>1, <4>2
        <5> QED  BY <5>1, <5>2 DEF Told
      <4> QED  BY <4>1, <4>2
    <3> QED  BY <3>2, <3>3 DEF FetchedIsTold
  <2> QED  BY <1>5, <2>2, <2>3 DEF Orderly
<1> QED  BY <1>2, <1>3, <1>4, <1>5 DEF UploadInv

LEMMA KnownOfUploads ==
  ASSUME UploadInv
  PROVE  /\ MultipartTypeOK
         /\ multipart \in UploadRows /\ partBytes \in PartLists /\ answered \in PartLists
         /\ partCall \in [PartCalls -> PartRecords]
         /\ assembled \subseteq Assembled
         /\ doubtful \subseteq Parts \X (1 .. PutCount)
         /\ sideBySide \in BOOLEAN /\ aborts \in AbortRecords
         /\ puts \in Nat /\ multipartFaults \in Nat
         /\ AbortIsFinal /\ CompletedHoldsParts
         /\ aborts.answered => multipart.status # "pending"
         /\ aborts.answered => \A r \in PartCalls :
              partCall[r].stage \in {"fetch", "publish"} => r \in aborts.during
BY MultipartTyped DEF UploadInv, AbortsHold

LEMMA AssembledStay ==
  ASSUME UploadInv, assembled' = assembled, doubtful \subseteq doubtful', sideBySide => sideBySide'
  PROVE  AbortIsFinal' /\ CompletedHoldsParts'
BY KnownOfUploads DEF AbortIsFinal, CompletedHoldsParts

\* A request ends: those an abort met are fewer by it.
LEMMA PartEnds ==
  ASSUME UploadInv, NEW r \in PartCalls, PartEnd(r)
  PROVE  /\ partCall' = [partCall EXCEPT ![r] = NoPartCall]
         /\ aborts' \in AbortRecords /\ aborts'.answered = aborts.answered
         /\ aborts'.during = aborts.during \ {r}
BY KnownOfUploads DEF PartEnd, AbortRecords

\* A step of one request that leaves the row, the bytes and the results alone.
LEMMA QuietUpload ==
  ASSUME UploadInv, NEW r \in PartCalls, NEW h \in PartRecords,
         partCall' = [partCall EXCEPT ![r] = h],
         UNCHANGED <<multipart, partBytes, assembled, answered, doubtful>>,
         sideBySide' \in BOOLEAN, sideBySide => sideBySide',
         puts' \in Nat, multipartFaults' \in Nat,
         aborts' \in AbortRecords, aborts'.answered = aborts.answered,
         aborts.during \ {r} \subseteq aborts'.during,
         partCall[r].stage # "list", h.stage # "list",
         h.stage = "store" => h.part \in Parts /\ h.bytes \in 1 .. PutCount,
         h.stage = "fetch" => h.part \in Listed(h.seen),
         aborts.answered /\ h.stage \in {"fetch", "publish"} => r \in aborts'.during,
         ~sideBySide' /\ h.stage = "store" => \A q \in PartCalls \ {r} : PartAt(q, "idle"),
         ~sideBySide' /\ h.stage # "idle" => \A q \in PartCalls \ {r} : ~PartUnderWay(q),
         ~sideBySide' /\ h.stage \in {"store", "fetch", "publish"} => h.seen = answered,
         ~sideBySide' /\ h.stage = "fetch" => \A n \in Parts :
           Told(n, h.whole[n]) \/ (n \in Listed(h.seen) /\ n >= h.part),
         ~sideBySide' /\ h.stage = "publish" => \A n \in Parts : Told(n, h.whole[n])
  PROVE  UploadInv'
<1>1. AbortIsFinal' /\ CompletedHoldsParts'  BY AssembledStay
<1>2. \A q \in PartCalls \ {r} : partCall'[q] = partCall[q]
  BY OnePartCallMoves, KnownOfUploads
<1>3. \A q \in PartCalls : (PartAt(q, "list")' <=> PartAt(q, "list"))
        /\ (PartAt(q, "list") => partCall'[q] = partCall[q])
  BY OnePartCallMoves, KnownOfUploads DEF PartAt
<1>4. ASSUME ~sideBySide'  PROVE BytesAreTold'
  <2>1. BytesAreTold  BY <1>4 DEF UploadInv, Orderly
  <2>2. \A n, v : Told(n, v)' <=> Told(n, v)  BY DEF Told
  <2>3. \A q \in PartCalls : PartAt(q, "list")' => partBytes'[partCall'[q].part] = partCall'[q].bytes
    BY <1>3, <2>1 DEF BytesAreTold
  <2>4. ASSUME NEW n \in Parts
        PROVE  (\/ partBytes[n] = 0 \/ answered[n] = 0 \/ Told(n, partBytes[n])
                \/ \E q \in PartCalls : PartAt(q, "list") /\ partCall[q].part = n)'
    <3>1. CASE \E q \in PartCalls : PartAt(q, "list") /\ partCall[q].part = n  BY <1>3, <3>1
    <3>2. CASE partBytes[n] = 0 \/ answered[n] = 0 \/ Told(n, partBytes[n])
      BY <3>2 DEF Told
    <3> QED  BY <2>1, <3>1, <3>2 DEF BytesAreTold
  <2> QED  BY <2>3, <2>4 DEF BytesAreTold
<1>5. /\ multipart' \in UploadRows /\ multipart'.parts = multipart.parts
      /\ partBytes' \in PartLists /\ answered' = answered
      /\ assembled' \subseteq Assembled
      /\ doubtful \subseteq doubtful' /\ doubtful' \subseteq Parts \X (1 .. PutCount)
      /\ aborts'.answered => multipart'.status # "pending"
  BY KnownOfUploads
<1>6. aborts'.answered => \A q \in PartCalls \ {r} :
           partCall[q].stage \in {"fetch", "publish"} => q \in aborts'.during
  BY KnownOfUploads
<1>7. aborts'.answered /\ h.stage \in {"fetch", "publish"} => r \in aborts'.during  OBVIOUS
<1> QED  BY <1>1, <1>4, <1>5, <1>6, <1>7, UploadStepKeeps

LEMMA PartReadKeeps ==
  ASSUME UploadInv, NEW r \in PartCalls, NEW n \in Parts, PartRead(r, n)
  PROVE  UploadInv'
<1> DEFINE g == [NoPartCall EXCEPT !.stage = "store", !.part = n, !.bytes = puts + 1, !.seen = multipart.parts]
<1>1. /\ PartAt(r, "idle") /\ Usable /\ puts < PutCount /\ puts' = puts + 1
      /\ partCall' = [partCall EXCEPT ![r] = g]
      /\ sideBySide' = (sideBySide \/ UnderWay # {})
      /\ UNCHANGED <<multipart, partBytes, assembled, answered, doubtful, aborts, multipartFaults>>
  BY DEF PartRead
<1>2. /\ puts + 1 \in 1 .. PutCount /\ puts + 1 \in 0 .. PutCount /\ puts' \in Nat /\ n \in 0 .. PartCount + 1
  BY <1>1, KnownOfUploads, MultipartAssumption DEF MultipartAssumption, Parts
<1>3. multipart.parts \in PartLists  BY KnownOfUploads DEF UploadRows
<1>4. /\ g \in PartRecords /\ g.stage = "store" /\ g.part = n /\ g.bytes = puts + 1
      /\ g.seen = multipart.parts
  <2>1. NoPartCall \in PartRecords  BY NoPartCallTyped
  <2> QED  BY <1>2, <1>3, <2>1 DEF PartRecords, PartStages
<1> HIDE DEF g
<1>5. ~sideBySide' => (\A q \in PartCalls : PartAt(q, "idle")) /\ multipart.parts = answered
  BY <1>1 DEF UploadInv, Orderly, ListIsAnswered, UnderWay
<1>6. ~sideBySide' => \A q \in PartCalls : ~PartUnderWay(q)
  BY <1>5 DEF PartAt, PartUnderWay
<1>7. partCall[r].stage # "list"  BY <1>1 DEF PartAt
<1>8. /\ sideBySide' \in BOOLEAN /\ (sideBySide => sideBySide') /\ aborts' \in AbortRecords
      /\ multipartFaults' \in Nat
  BY <1>1, KnownOfUploads
<1> QED  BY <1>1, <1>2, <1>4, <1>5, <1>6, <1>7, <1>8, QuietUpload

LEMMA CompleteReadKeeps ==
  ASSUME UploadInv, NEW r \in PartCalls, CompleteRead(r)
  PROVE  UploadInv'
<1> DEFINE g == [NoPartCall EXCEPT !.stage = "fetch", !.part = 1, !.seen = multipart.parts]
<1>1. /\ PartAt(r, "idle") /\ Usable /\ Contiguous /\ puts' = puts
      /\ partCall' = [partCall EXCEPT ![r] = g]
      /\ sideBySide' = (sideBySide \/ \E q \in UnderWay : PartUnderWay(q))
      /\ UNCHANGED <<multipart, partBytes, assembled, answered, doubtful, aborts, multipartFaults>>
  BY DEF CompleteRead
<1>2. 1 \in 0 .. PartCount + 1  BY MultipartAssumption DEF MultipartAssumption
<1>3. multipart.parts \in PartLists  BY KnownOfUploads DEF UploadRows
<1>4. /\ g \in PartRecords /\ g.stage = "fetch" /\ g.part = 1 /\ g.whole = NoParts
      /\ g.seen = multipart.parts
  <2>1. NoPartCall \in PartRecords /\ NoPartCall.whole = NoParts  BY NoPartCallTyped
  <2> QED  BY <1>2, <1>3, <2>1 DEF PartRecords, PartStages
<1> HIDE DEF g
<1>5. ~sideBySide' => (\A q \in PartCalls : ~PartUnderWay(q)) /\ multipart.parts = answered
  BY <1>1 DEF UploadInv, Orderly, ListIsAnswered, UnderWay, PartUnderWay, PartAt
<1>6. ~aborts.answered  BY <1>1, KnownOfUploads DEF Usable
<1>7. partCall[r].stage # "list"  BY <1>1 DEF PartAt
<1>8. /\ sideBySide' \in BOOLEAN /\ (sideBySide => sideBySide') /\ aborts' \in AbortRecords
      /\ multipartFaults' \in Nat /\ puts' \in Nat
  BY <1>1, KnownOfUploads
<1>9. 1 \in Listed(multipart.parts) /\ \A n \in Listed(multipart.parts) : n >= 1
  <2>1. PICK k \in Parts : Listed(multipart.parts) = 1 .. k  BY <1>1 DEF Contiguous
  <2>2. k \in Nat /\ k >= 1  BY MultipartAssumption DEF MultipartAssumption, Parts
  <2> QED  BY <2>1, <2>2
<1>10. ~sideBySide' => \A n \in Parts :
           Told(n, g.whole[n]) \/ (n \in Listed(g.seen) /\ n >= g.part)
  <2> SUFFICES ASSUME ~sideBySide', NEW n \in Parts, n \notin Listed(multipart.parts)
               PROVE  Told(n, NoParts[n])
    BY <1>4, <1>9
  <2>1. answered[n] = 0  BY <1>5 DEF Listed
  <2>2. NoParts[n] = 0  BY DEF NoParts
  <2> QED  BY <2>1, <2>2 DEF Told
<1> QED  BY <1>1, <1>4, <1>5, <1>6, <1>7, <1>8, <1>9, <1>10, QuietUpload

LEMMA AbortReadKeeps ==
  ASSUME UploadInv, NEW r \in PartCalls, AbortRead(r)
  PROVE  UploadInv'
<1> DEFINE first == IF Listed(multipart.parts) = {} THEN 0
                ELSE CHOOSE n \in Listed(multipart.parts) : \A m \in Listed(multipart.parts) : n <= m
           s == IF Listed(multipart.parts) = {} THEN "abort" ELSE "remove"
           g == [NoPartCall EXCEPT !.seen = multipart.parts, !.stage = s, !.part = first]
<1>1. /\ PartAt(r, "idle") /\ puts' = puts
      /\ partCall' = [partCall EXCEPT ![r] = g]
      /\ sideBySide' = (sideBySide \/ \E q \in UnderWay : PartUnderWay(q))
      /\ UNCHANGED <<multipart, partBytes, assembled, answered, doubtful, aborts, multipartFaults>>
  BY DEF AbortRead
<1>2. first \in 0 .. PartCount + 1
  <2>1. Listed(multipart.parts) \subseteq Parts  BY DEF Listed
  <2>2. Parts \subseteq 0 .. PartCount + 1 /\ 0 \in 0 .. PartCount + 1
    BY MultipartAssumption DEF MultipartAssumption, Parts
  <2>3. CASE Listed(multipart.parts) # {}
    <3>1. \E n \in Listed(multipart.parts) : \A m \in Listed(multipart.parts) : n <= m
      BY <2>1, <2>3, FirstPart
    <3>2. (CHOOSE n \in Listed(multipart.parts) : \A m \in Listed(multipart.parts) : n <= m) \in Listed(multipart.parts)
      BY <3>1
    <3> QED  BY <2>1, <2>2, <2>3, <3>2
  <2> QED  BY <2>2, <2>3
<1>3. multipart.parts \in PartLists  BY KnownOfUploads DEF UploadRows
<1>4. s \in {"abort", "remove"}  OBVIOUS
<1> HIDE DEF first, s
<1>5. g \in PartRecords /\ g.stage = s
  <2>1. NoPartCall \in PartRecords  BY NoPartCallTyped
  <2> QED  BY <1>2, <1>3, <1>4, <2>1 DEF PartRecords, PartStages
<1> HIDE DEF g
<1>6. ~sideBySide' => \A q \in PartCalls : ~PartUnderWay(q)
  BY <1>1 DEF UnderWay, PartUnderWay, PartAt
<1>7. partCall[r].stage # "list"  BY <1>1 DEF PartAt
<1>8. /\ sideBySide' \in BOOLEAN /\ (sideBySide => sideBySide') /\ aborts' \in AbortRecords
      /\ multipartFaults' \in Nat /\ puts' \in Nat
  BY <1>1, KnownOfUploads
<1>9. g.stage \notin {"list", "store", "fetch", "publish"}  BY <1>4, <1>5
<1> QED  BY <1>1, <1>5, <1>6, <1>7, <1>8, <1>9, QuietUpload

LEMMA CompleteFetchKeeps ==
  ASSUME UploadInv, NEW r \in PartCalls, CompleteFetch(r)
  PROVE  UploadInv'
<1>1. /\ partCall[r].stage = "fetch" /\ partCall[r] \in PartRecords
      /\ puts' \in Nat /\ multipartFaults' \in Nat /\ sideBySide' = sideBySide /\ sideBySide' \in BOOLEAN
      /\ UNCHANGED <<multipart, partBytes, assembled, answered, doubtful>>
  BY KnownOfUploads DEF CompleteFetch, PartAt
<1>2. PICK n \in Parts : n = partCall[r].part /\ n \in Listed(partCall[r].seen)
  BY <1>1 DEF UploadInv, RequestShape, PartAt, Listed
<1>3. CASE partBytes[n] = 0
  <2>1. PartEnd(r)  BY <1>2, <1>3 DEF CompleteFetch
  <2>2. /\ partCall' = [partCall EXCEPT ![r] = NoPartCall]
        /\ aborts' \in AbortRecords /\ aborts'.answered = aborts.answered
        /\ aborts'.during = aborts.during \ {r}
    BY <2>1, PartEnds
  <2>3. NoPartCall \in PartRecords /\ NoPartCall.stage = "idle"  BY NoPartCallTyped
  <2> QED  BY <1>1, <2>2, <2>3, QuietUpload
<1>4. CASE partBytes[n] # 0
  <2> DEFINE next == NextListed(r, n)
             g == [partCall[r] EXCEPT !.whole[n] = partBytes[n], !.part = next,
                     !.stage = IF next = 0 THEN "publish" ELSE "fetch"]
  <2>1. partCall' = [partCall EXCEPT ![r] = g] /\ aborts' = aborts
    BY <1>2, <1>4, KnownOfUploads DEF CompleteFetch
  <2>2. /\ partCall[r].seen \in PartLists /\ partCall[r].whole \in PartLists
        /\ n \in 0 .. PartCount + 1
    BY <1>1, <1>2, MultipartAssumption DEF PartRecords, MultipartAssumption, Parts
  <2>3. \/ next = 0 /\ \A m \in Listed(partCall[r].seen) : m <= n
        \/ /\ next \in Listed(partCall[r].seen) /\ next > n
           /\ \A m \in Listed(partCall[r].seen) : m > n => next <= m
    BY <2>2, NextPart
  <2>4. next \in 0 .. PartCount + 1 /\ (next # 0 => next \in Listed(partCall[r].seen))
    BY <2>3, MultipartAssumption DEF MultipartAssumption, Listed, Parts
  <2> HIDE DEF next
  <2>5. /\ g \in PartRecords /\ g.seen = partCall[r].seen /\ g.part = next
        /\ g.stage = IF next = 0 THEN "publish" ELSE "fetch"
        /\ g.whole = [partCall[r].whole EXCEPT ![n] = partBytes[n]]
    <3>1. [partCall[r].whole EXCEPT ![n] = partBytes[n]] \in PartLists
      BY <2>2, KnownOfUploads DEF PartLists
    <3> QED  BY <1>1, <2>4, <3>1 DEF PartRecords, PartStages
  <2> HIDE DEF g
  <2>6. ASSUME ~sideBySide'
        PROVE  /\ g.seen = answered /\ \A q \in PartCalls \ {r} : ~PartUnderWay(q)
               /\ g.stage = "fetch" => \A m \in Parts :
                    Told(m, g.whole[m]) \/ (m \in Listed(g.seen) /\ m >= g.part)
               /\ g.stage = "publish" => \A m \in Parts : Told(m, g.whole[m])
    <3>1. ListIsAnswered /\ BytesAreTold /\ FetchedIsTold  BY <1>1, <2>6 DEF UploadInv, Orderly
    <3>2. partCall[r].seen = answered  BY <1>1, <3>1 DEF ListIsAnswered
    <3>3. \A q \in PartCalls : ~PartUnderWay(q)
      BY <1>1, <3>1 DEF ListIsAnswered, PartAt, PartUnderWay
    <3>4. Told(n, partBytes[n])
      <4>1. answered[n] # 0  BY <1>2, <3>2 DEF Listed
      <4>2. \A q \in PartCalls : ~PartAt(q, "list")  BY <3>3 DEF PartAt, PartUnderWay
      <4> QED  BY <1>4, <3>1, <4>1, <4>2 DEF BytesAreTold
    <3>5. \A m \in Parts : Told(m, partCall[r].whole[m]) \/ (m \in Listed(partCall[r].seen) /\ m >= n)
      BY <1>1, <1>2, <3>1 DEF FetchedIsTold, PartAt
    <3>6. \A m \in Parts : g.whole[m] = IF m = n THEN partBytes[n] ELSE partCall[r].whole[m]
      BY <2>2, <2>5 DEF PartLists
    <3>7. \A m \in Parts : Told(m, g.whole[m]) \/ (m \in Listed(partCall[r].seen) /\ m > n)
      <4> SUFFICES ASSUME NEW m \in Parts, m # n, ~Told(m, partCall[r].whole[m])
                   PROVE  m \in Listed(partCall[r].seen) /\ m > n
        BY <3>4, <3>6
      <4>1. m \in Listed(partCall[r].seen) /\ m >= n  BY <3>5
      <4> QED  BY <4>1, MultipartAssumption DEF MultipartAssumption, Parts
    <3>8. Parts \subseteq Nat  BY MultipartAssumption DEF MultipartAssumption, Parts
    <3>9. CASE next = 0
      <4>1. \A m \in Listed(partCall[r].seen) : ~(m > n)
        BY <2>3, <3>8, <3>9, <1>2 DEF Listed
      <4> QED  BY <2>5, <3>2, <3>3, <3>7, <3>9, <4>1
    <3>10. CASE next # 0
      <4>1. \A m \in Listed(partCall[r].seen) : m > n => m >= next
        BY <2>3, <3>8, <3>10, <1>2 DEF Listed
      <4> QED  BY <2>5, <3>2, <3>3, <3>7, <3>10, <4>1
    <3> QED  BY <3>9, <3>10
  <2>7. g.stage \in {"fetch", "publish"} /\ (g.stage = "fetch" => g.part \in Listed(g.seen))
    BY <2>4, <2>5
  <2>8. aborts.answered => r \in aborts.during  BY <1>1, KnownOfUploads
  <2>9. aborts' \in AbortRecords  BY <2>1, KnownOfUploads
  <2> QED  BY <1>1, <2>1, <2>5, <2>6, <2>7, <2>8, <2>9, QuietUpload
<1> QED  BY <1>3, <1>4

LEMMA PartMoves ==
  ASSUME UploadInv, NEW r \in PartCalls, NEW s \in PartStages, PartGo(r, s)
  PROVE  \E h \in PartRecords :
           /\ partCall' = [partCall EXCEPT ![r] = h] /\ h.stage = s
           /\ h.part = partCall[r].part /\ h.bytes = partCall[r].bytes
           /\ h.seen = partCall[r].seen /\ h.whole = partCall[r].whole
<1> DEFINE g == [partCall[r] EXCEPT !.stage = s]
<1>1. partCall[r] \in PartRecords  BY KnownOfUploads
<1>2. /\ g \in PartRecords /\ g.stage = s
      /\ g.part = partCall[r].part /\ g.bytes = partCall[r].bytes
      /\ g.seen = partCall[r].seen /\ g.whole = partCall[r].whole
  BY <1>1 DEF PartRecords
<1>3. partCall' = [partCall EXCEPT ![r] = g]  BY KnownOfUploads DEF PartGo
<1> QED  BY <1>2, <1>3

LEMMA PartStoreKeeps ==
  ASSUME UploadInv, NEW r \in PartCalls, PartStore(r)
  PROVE  UploadInv'
<1>1. /\ PartAt(r, "store") /\ partCall[r].stage = "store" /\ PartUnderWay(r)
      /\ partBytes' = [partBytes EXCEPT ![partCall[r].part] = partCall[r].bytes]
      /\ PartGo(r, "list")
      /\ UNCHANGED <<multipart, assembled, answered, doubtful, sideBySide, aborts, puts, multipartFaults>>
  BY DEF PartStore, PartAt, PartUnderWay
<1>2. PICK n \in Parts : n = partCall[r].part /\ partCall[r].bytes \in 1 .. PutCount
  BY <1>1 DEF UploadInv, RequestShape
<1>3. PICK h \in PartRecords :
        /\ partCall' = [partCall EXCEPT ![r] = h] /\ h.stage = "list"
        /\ h.part = n /\ h.bytes = partCall[r].bytes /\ h.seen = partCall[r].seen
  BY <1>1, <1>2, PartMoves DEF PartStages
<1>4. /\ partBytes' \in PartLists /\ partBytes'[n] = h.bytes
      /\ \A m \in Parts \ {n} : partBytes'[m] = partBytes[m]
  <2>1. partCall[r].bytes \in 0 .. PutCount
    BY <1>2, MultipartAssumption DEF MultipartAssumption
  <2> QED  BY <1>1, <1>2, <1>3, <2>1, KnownOfUploads DEF PartLists
<1>5. ASSUME ~sideBySide'
      PROVE  /\ h.seen = answered /\ \A q \in PartCalls \ {r} : PartAt(q, "idle")
             /\ BytesAreTold'
  <2>1. ListIsAnswered /\ BytesAreTold  BY <1>1, <1>5 DEF UploadInv, Orderly
  <2>2. h.seen = answered /\ \A q \in PartCalls \ {r} : PartAt(q, "idle")
    BY <1>1, <1>3, <2>1 DEF ListIsAnswered
  <2>3. /\ \A q \in PartCalls \ {r} : ~PartAt(q, "list") /\ ~PartAt(q, "list")'
        /\ PartAt(r, "list")' /\ partCall'[r] = h /\ ~PartAt(r, "list")
    BY <1>1, <1>3, <2>2, OnePartCallMoves, KnownOfUploads DEF PartAt
  <2>4. \A q \in PartCalls : PartAt(q, "list")' => partBytes'[partCall'[q].part] = partCall'[q].bytes
    BY <1>3, <1>4, <2>3
  <2>5. ASSUME NEW m \in Parts
        PROVE  (\/ partBytes[m] = 0 \/ answered[m] = 0 \/ Told(m, partBytes[m])
                \/ \E q \in PartCalls : PartAt(q, "list") /\ partCall[q].part = m)'
    <3>1. CASE m = n  BY <1>3, <2>3, <3>1
    <3>2. CASE m # n
      <4>1. partBytes[m] = 0 \/ answered[m] = 0 \/ Told(m, partBytes[m])
        BY <2>1, <2>3 DEF BytesAreTold
      <4>2. partBytes'[m] = partBytes[m]  BY <1>4, <3>2
      <4> QED  BY <1>1, <4>1, <4>2 DEF Told
    <3> QED  BY <3>1, <3>2
  <2> QED  BY <2>2, <2>4, <2>5 DEF BytesAreTold
<1>6. AbortIsFinal' /\ CompletedHoldsParts'  BY <1>1, AssembledStay
<1>7. /\ multipart' \in UploadRows /\ multipart'.parts = multipart.parts /\ answered' = answered
      /\ assembled' \subseteq Assembled
      /\ doubtful \subseteq doubtful' /\ doubtful' \subseteq Parts \X (1 .. PutCount)
      /\ sideBySide' \in BOOLEAN /\ (sideBySide => sideBySide') /\ aborts' \in AbortRecords
      /\ puts' \in Nat /\ multipartFaults' \in Nat
      /\ aborts'.answered => multipart'.status # "pending"
      /\ aborts'.answered => \A q \in PartCalls \ {r} :
           partCall[q].stage \in {"fetch", "publish"} => q \in aborts'.during
  BY <1>1, KnownOfUploads
<1>8. ~sideBySide' => \A q \in PartCalls \ {r} : ~PartUnderWay(q)
  BY <1>5 DEF PartAt, PartUnderWay
<1>9. h.part \in Parts /\ h.bytes \in 1 .. PutCount /\ h.stage = "list"  BY <1>2, <1>3
<1> QED  BY <1>3, <1>4, <1>5, <1>6, <1>7, <1>8, <1>9, UploadStepKeeps

\* The row lists the part and the client is told: everything else is at rest.
LEMMA PartListKeeps ==
  ASSUME UploadInv, NEW r \in PartCalls, PartList(r)
  PROVE  UploadInv'
<1>1. /\ PartAt(r, "list") /\ partCall[r].stage = "list" /\ PartUnderWay(r)
      /\ multipart' = [multipart EXCEPT !.parts = WithPart(r)]
      /\ answered' = [answered EXCEPT ![partCall[r].part] = partCall[r].bytes]
      /\ PartEnd(r)
      /\ UNCHANGED <<partBytes, assembled, doubtful, sideBySide, puts, multipartFaults>>
  BY DEF PartList, PartAt, PartUnderWay
<1>2. PICK n \in Parts : n = partCall[r].part /\ partCall[r].bytes \in 1 .. PutCount
  BY <1>1 DEF UploadInv, RequestShape
<1>3. /\ partCall' = [partCall EXCEPT ![r] = NoPartCall]
      /\ aborts' \in AbortRecords /\ aborts'.answered = aborts.answered
      /\ aborts'.during = aborts.during \ {r}
  BY <1>1, PartEnds
<1>4. /\ partCall' \in [PartCalls -> PartRecords] /\ partCall'[r] = NoPartCall
      /\ \A q \in PartCalls \ {r} : partCall'[q] = partCall[q]
  BY <1>3, NoPartCallTyped, OnePartCallMoves, KnownOfUploads
<1>5. partCall[r].bytes \in 0 .. PutCount /\ partCall[r].bytes # 0
  BY <1>2, MultipartAssumption DEF MultipartAssumption
<1>6. /\ answered' \in PartLists /\ answered'[n] = partCall[r].bytes
      /\ \A m \in Parts \ {n} : answered'[m] = answered[m]
  BY <1>1, <1>2, <1>5, KnownOfUploads DEF PartLists
<1>7. /\ multipart' \in UploadRows /\ multipart'.status = multipart.status
      /\ multipart'.parts = WithPart(r)
  <2>1. WithPart(r) \in PartLists
    BY <1>2, <1>5, KnownOfUploads DEF WithPart, PartLists, PartRecords
  <2> QED  BY <1>1, <2>1, KnownOfUploads DEF UploadRows
<1>8. MultipartTypeOK'
  BY <1>1, <1>3, <1>4, <1>6, <1>7, KnownOfUploads
     DEF MultipartTypeOK, UploadRows, PartRecords, PartStages, AbortRecords
<1>9. /\ ~PartUnderWay(r)' /\ ~PartAt(r, "fetch")' /\ ~PartAt(r, "publish")' /\ ~PartAt(r, "list")'
      /\ PartAt(r, "idle")'
      /\ \A q \in PartCalls \ {r} : PartUnderWay(q)' <=> PartUnderWay(q)
      /\ \A q \in PartCalls \ {r} : PartAt(q, "fetch")' <=> PartAt(q, "fetch")
  BY <1>4, NoPartCallTyped DEF PartUnderWay, PartAt
<1>10. RequestShape'
  BY <1>4, <1>9 DEF UploadInv, RequestShape
<1>11. AbortsHold'
  <2>1. AbortIsFinal' /\ CompletedHoldsParts'  BY <1>1, AssembledStay
  <2>2. \A q \in PartCalls : partCall'[q].stage \in {"fetch", "publish"} => q # r /\ partCall'[q] = partCall[q]
    BY <1>4, NoPartCallTyped
  <2> QED  BY <1>3, <1>7, <2>1, <2>2, KnownOfUploads DEF AbortsHold
<1>12. CompletedHoldsParts'  BY <1>1, AssembledStay
<1>13. ASSUME ~sideBySide'  PROVE Orderly'
  <2>1. ListIsAnswered /\ BytesAreTold  BY <1>1, <1>13 DEF UploadInv, Orderly
  <2>2. \A q \in PartCalls : partCall'[q].stage = "idle"
    BY <1>1, <1>4, <2>1, NoPartCallTyped DEF ListIsAnswered, PartAt
  <2>3. \A q \in PartCalls : PartAt(q, "idle")' /\ ~PartUnderWay(q)' /\ ~PartAt(q, "list")'
          /\ ~PartAt(q, "fetch")' /\ ~PartAt(q, "publish")'
    BY <2>2 DEF PartAt, PartUnderWay
  <2>4. multipart'.parts = answered'
    <3>1. partCall[r].seen = answered  BY <1>1, <2>1 DEF ListIsAnswered
    <3> QED  BY <1>1, <1>7, <3>1 DEF WithPart
  <2>5. ListIsAnswered'  BY <2>2, <2>3, <2>4 DEF ListIsAnswered
  <2>6. FetchedIsTold'  BY <2>3 DEF FetchedIsTold
  <2>7. ASSUME NEW m \in Parts
        PROVE  (partBytes[m] = 0 \/ answered[m] = 0 \/ Told(m, partBytes[m]))'
    <3>1. CASE m = n
      <4>1. partBytes[n] = partCall[r].bytes  BY <1>1, <1>2, <2>1 DEF BytesAreTold
      <4>2. partBytes'[m] = answered'[m]  BY <1>1, <1>6, <3>1, <4>1
      <4> QED  BY <4>2 DEF Told
    <3>2. CASE m # n
      <4>1. \A q \in PartCalls : PartAt(q, "list") => q = r
        BY <1>1, <2>1 DEF ListIsAnswered, PartAt
      <4>2. partBytes[m] = 0 \/ answered[m] = 0 \/ Told(m, partBytes[m])
        BY <1>2, <2>1, <3>2, <4>1 DEF BytesAreTold
      <4>3. partBytes'[m] = partBytes[m] /\ answered'[m] = answered[m] /\ doubtful' = doubtful
        BY <1>1, <1>6, <3>2
      <4> QED  BY <4>2, <4>3 DEF Told
    <3> QED  BY <3>1, <3>2
  <2>8. BytesAreTold'  BY <2>3, <2>7 DEF BytesAreTold
  <2> QED  BY <2>5, <2>6, <2>8 DEF Orderly
<1> QED  BY <1>8, <1>10, <1>11, <1>12, <1>13 DEF UploadInv

\* Steps of a request that sends no part: nobody sends one, and the object
\* store is left alone or loses parts.
LEMMA OtherStepKeeps ==
  ASSUME UploadInv, NEW r \in PartCalls, NEW h \in PartRecords,
         partCall[r].stage \notin {"idle", "store", "list"},
         partCall' = [partCall EXCEPT ![r] = h],
         h.stage \in {"idle", "delete", "complete", "remove", "abort"},
         multipart' \in UploadRows, multipart'.parts = multipart.parts,
         partBytes' \in PartLists,
         \A n \in Parts : partBytes'[n] = partBytes[n] \/ partBytes'[n] = 0,
         UNCHANGED <<answered, doubtful, sideBySide>>,
         assembled' \subseteq Assembled,
         AbortIsFinal', CompletedHoldsParts',
         aborts' \in AbortRecords, puts' \in Nat, multipartFaults' \in Nat,
         aborts'.answered => multipart'.status # "pending",
         aborts'.answered => \A q \in PartCalls \ {r} :
           partCall[q].stage \in {"fetch", "publish"} => q \in aborts'.during
  PROVE  UploadInv'
<1>1. ASSUME ~sideBySide'
      PROVE  (\A q \in PartCalls : ~PartUnderWay(q)) /\ BytesAreTold'
  <2>1. ListIsAnswered /\ BytesAreTold  BY <1>1 DEF UploadInv, Orderly
  <2>2. \A q \in PartCalls : ~PartUnderWay(q)
    BY <2>1 DEF ListIsAnswered, PartAt, PartUnderWay
  <2>3. \A q \in PartCalls : ~PartAt(q, "list")  BY <2>2 DEF PartAt, PartUnderWay
  <2>4. \A q \in PartCalls : ~PartAt(q, "list")'
    BY <2>3, OnePartCallMoves, KnownOfUploads
  <2>5. \A n \in Parts : partBytes[n] = 0 \/ answered[n] = 0 \/ Told(n, partBytes[n])
    BY <2>1, <2>3 DEF BytesAreTold
  <2>6. \A n \in Parts : (partBytes[n] = 0 \/ answered[n] = 0 \/ Told(n, partBytes[n]))'
    BY <2>5 DEF Told
  <2> QED  BY <2>2, <2>4, <2>6 DEF BytesAreTold
<1>2. /\ h.stage \notin {"store", "list"} /\ h.stage # "fetch" /\ h.stage # "publish"
      /\ h.stage \notin {"fetch", "publish"} /\ h.stage \notin {"store", "list", "fetch", "publish"}
  OBVIOUS
<1>3. /\ sideBySide' \in BOOLEAN /\ (sideBySide => sideBySide') /\ answered' = answered
      /\ doubtful \subseteq doubtful' /\ doubtful' \subseteq Parts \X (1 .. PutCount)
  BY KnownOfUploads
<1> QED  BY <1>1, <1>2, <1>3, UploadStepKeeps

\* Parts of the same lengths add up to the same.
LEMMA SameSizes ==
  ASSUME NEW parts, NEW others, \A n \in Parts : Size(parts[n]) = Size(others[n])
  PROVE  Total(parts) = Total(others)
<1>1. [n \in Parts |-> Size(parts[n])] = [n \in Parts |-> Size(others[n])]  OBVIOUS
<1> QED  BY <1>1 DEF Total

LEMMA CompletePublishKeeps ==
  ASSUME UploadInv, NEW r \in PartCalls, CompletePublish(r)
  PROVE  UploadInv'
<1> DEFINE g == [partCall[r] EXCEPT !.stage = "delete", !.part = 1]
           o == [whole |-> partCall[r].whole, told |-> answered,
                 fit |-> Fit(Total(partCall[r].whole), Total(partCall[r].seen)),
                 after |-> aborts.answered /\ r \notin aborts.during]
<1>1. /\ PartAt(r, "publish") /\ partCall[r].stage = "publish" /\ partCall[r] \in PartRecords
      /\ assembled' = assembled \cup {o}
      /\ partCall' = [partCall EXCEPT ![r].stage = "delete", ![r].part = 1]
      /\ UNCHANGED <<multipart, partBytes, answered, doubtful, sideBySide, aborts, puts, multipartFaults>>
  BY KnownOfUploads DEF CompletePublish, PartAt
<1>2. g \in PartRecords /\ g.stage = "delete"
  <2>1. 1 \in 0 .. PartCount + 1  BY MultipartAssumption DEF MultipartAssumption
  <2> QED  BY <1>1, <2>1 DEF PartRecords, PartStages
<1>3. partCall' = [partCall EXCEPT ![r] = g]  BY <1>1, KnownOfUploads
<1>4. o \in Assembled
  BY <1>1, KnownOfUploads DEF PartRecords, Fit, Assembled
<1>5. ~o.after  BY <1>1, KnownOfUploads
<1>6. ~sideBySide => \A n \in Parts :
        o.whole[n] = o.told[n] \/ (o.told[n] # 0 /\ <<n, o.whole[n]>> \in doubtful)
  BY <1>1 DEF UploadInv, Orderly, FetchedIsTold, Told
<1>11. ASSUME ~sideBySide
       PROVE  \/ o.fit = "exact"
              \/ \E n \in Parts : <<n, o.whole[n]>> \in doubtful /\ Size(o.whole[n]) # Size(o.told[n])
  <2>1. CASE \E n \in Parts : Size(o.whole[n]) # Size(o.told[n])
    BY <1>6, <1>11, <2>1
  <2>2. CASE \A n \in Parts : Size(o.whole[n]) = Size(o.told[n])
    <3>1. partCall[r].seen = o.told
      BY <1>1, <1>11 DEF UploadInv, Orderly, ListIsAnswered
    <3>2. Total(o.whole) = Total(o.told)  BY <2>2, SameSizes
    <3>3. o.fit = Fit(Total(o.whole), Total(partCall[r].seen))  OBVIOUS
    <3> QED  BY <3>1, <3>2, <3>3 DEF Fit
  <2> QED  BY <2>1, <2>2
<1> HIDE DEF g, o
<1>7. AbortIsFinal'  BY <1>1, <1>5, KnownOfUploads DEF AbortIsFinal
<1>8. CompletedHoldsParts'
  <2> SUFFICES ASSUME ~sideBySide, NEW p \in assembled'
               PROVE  /\ \A n \in Parts :
                           p.whole[n] = p.told[n] \/ (p.told[n] # 0 /\ <<n, p.whole[n]>> \in doubtful)
                      /\ \/ p.fit = "exact"
                         \/ \E n \in Parts :
                              <<n, p.whole[n]>> \in doubtful /\ Size(p.whole[n]) # Size(p.told[n])
    BY <1>1 DEF CompletedHoldsParts
  <2>1. CASE p = o  BY <1>6, <1>11, <2>1
  <2>2. CASE p \in assembled  BY <2>2, KnownOfUploads DEF CompletedHoldsParts
  <2> QED  BY <1>1, <2>1, <2>2
<1>9. /\ assembled' \subseteq Assembled
      /\ multipart' \in UploadRows /\ multipart'.parts = multipart.parts /\ partBytes' \in PartLists
      /\ aborts' \in AbortRecords /\ puts' \in Nat /\ multipartFaults' \in Nat
      /\ aborts'.answered => multipart'.status # "pending"
      /\ aborts'.answered => \A q \in PartCalls \ {r} :
           partCall[q].stage \in {"fetch", "publish"} => q \in aborts'.during
      /\ \A n \in Parts : partBytes'[n] = partBytes[n]
  BY <1>1, <1>4, KnownOfUploads
<1>10. partCall[r].stage \notin {"idle", "store", "list"}  BY <1>1
<1> QED  BY <1>1, <1>2, <1>3, <1>7, <1>8, <1>9, <1>10, OtherStepKeeps

LEMMA DeletePartKeeps ==
  ASSUME UploadInv, NEW r \in PartCalls,
         DeletePart(r, "delete", "complete") \/ DeletePart(r, "remove", "abort")
  PROVE  UploadInv'
<1>1. PICK stage \in {"delete", "remove"}, last \in {"complete", "abort"} : DeletePart(r, stage, last)
  OBVIOUS
<1>2. /\ partCall[r].stage = stage /\ partCall[r] \in PartRecords
      /\ partBytes' = IF partCall[r].part = 0 THEN partBytes ELSE [partBytes EXCEPT ![partCall[r].part] = 0]
      /\ UNCHANGED <<multipart, assembled, answered, doubtful, sideBySide, aborts, puts, multipartFaults>>
  BY <1>1, KnownOfUploads DEF DeletePart, PartAt
<1>3. partBytes' \in PartLists /\ \A n \in Parts : partBytes'[n] = partBytes[n] \/ partBytes'[n] = 0
  <2>1. 0 \in 0 .. PutCount  BY MultipartAssumption DEF MultipartAssumption
  <2> QED  BY <1>2, <2>1, KnownOfUploads DEF PartLists
<1> DEFINE n == NextListed(r, partCall[r].part)
           g == [partCall[r] EXCEPT !.part = n, !.stage = IF n = 0 THEN last ELSE stage]
<1>4. n \in 0 .. PartCount + 1
  <2>1. partCall[r].seen \in PartLists /\ partCall[r].part \in 0 .. PartCount + 1
    BY <1>2 DEF PartRecords
  <2>2. n = 0 \/ n \in Listed(partCall[r].seen)  BY <2>1, NextPart
  <2> QED  BY <2>2, MultipartAssumption DEF MultipartAssumption, Listed, Parts
<1>5. partCall' = [partCall EXCEPT ![r] = g]
  BY <1>1, KnownOfUploads DEF DeletePart
<1> HIDE DEF n
<1>6. g \in PartRecords /\ g.stage \in {"delete", "complete", "remove", "abort"}
  BY <1>2, <1>4 DEF PartRecords, PartStages
<1> HIDE DEF g
<1>7. AbortIsFinal' /\ CompletedHoldsParts'  BY <1>2, AssembledStay
<1>8. /\ assembled' \subseteq Assembled
      /\ multipart' \in UploadRows /\ multipart'.parts = multipart.parts
      /\ aborts' \in AbortRecords /\ puts' \in Nat /\ multipartFaults' \in Nat
      /\ aborts'.answered => multipart'.status # "pending"
      /\ aborts'.answered => \A q \in PartCalls \ {r} :
           partCall[q].stage \in {"fetch", "publish"} => q \in aborts'.during
  BY <1>2, KnownOfUploads
<1>9. partCall[r].stage \notin {"idle", "store", "list"}  BY <1>2
<1> QED  BY <1>2, <1>3, <1>5, <1>6, <1>7, <1>8, <1>9, OtherStepKeeps

\* The row says what was done; nobody can complete an upload that is aborted.
LEMMA MarksKeep ==
  ASSUME UploadInv, NEW r \in PartCalls, CompleteMark(r) \/ AbortMark(r)
  PROVE  UploadInv'
<1>1. /\ partCall[r].stage \in {"complete", "abort"} /\ partCall' = [partCall EXCEPT ![r] = NoPartCall]
      /\ UNCHANGED <<partBytes, assembled, answered, doubtful, sideBySide, puts, multipartFaults>>
      /\ multipart' \in UploadRows /\ multipart'.parts = multipart.parts /\ multipart'.status # "pending"
  BY KnownOfUploads DEF CompleteMark, AbortMark, Aborted, PartAt, PartEnd, UploadRows
<1>2. /\ aborts' \in AbortRecords
      /\ aborts'.answered => \A q \in PartCalls \ {r} :
           partCall[q].stage \in {"fetch", "publish"} => q \in aborts'.during
  <2>1. CASE CompleteMark(r)  BY <2>1, PartEnds, KnownOfUploads DEF CompleteMark
  <2>2. CASE AbortMark(r)
    <3>1. aborts' = [answered |-> TRUE, during |-> UnderWay \ {r}]  BY <2>2 DEF AbortMark
    <3>2. UnderWay \subseteq PartCalls  BY DEF UnderWay
    <3>3. \A q \in PartCalls : partCall[q].stage \in {"fetch", "publish"} => q \in UnderWay
      BY DEF UnderWay, PartAt
    <3> QED  BY <3>1, <3>2, <3>3 DEF AbortRecords
  <2> QED  BY <2>1, <2>2
<1>3. AbortIsFinal' /\ CompletedHoldsParts'  BY <1>1, AssembledStay
<1>4. /\ assembled' \subseteq Assembled
      /\ puts' \in Nat /\ multipartFaults' \in Nat /\ partBytes' \in PartLists
      /\ \A n \in Parts : partBytes'[n] = partBytes[n]
  BY <1>1, KnownOfUploads
<1>5. partCall[r].stage \notin {"idle", "store", "list"}  BY <1>1
<1>6. NoPartCall \in PartRecords /\ NoPartCall.stage = "idle"  BY NoPartCallTyped
<1> QED  BY <1>1, <1>2, <1>3, <1>4, <1>5, <1>6, OtherStepKeeps

LEMMA UploadExpiresKeeps ==
  ASSUME UploadInv, UploadExpires \/ UNCHANGED multipartVars
  PROVE  UploadInv'
<1>1. /\ multipart' \in UploadRows /\ multipart'.parts = multipart.parts /\ multipart'.status = multipart.status
      /\ UNCHANGED <<partBytes, partCall, assembled, answered, doubtful, sideBySide, aborts, puts, multipartFaults>>
  BY KnownOfUploads DEF UploadExpires, multipartVars, UploadRows
<1>2. MultipartTypeOK'
  BY <1>1, KnownOfUploads DEF MultipartTypeOK, UploadRows, PartRecords, PartStages, AbortRecords
<1>3. RequestShape' /\ AbortsHold' /\ CompletedHoldsParts'
  BY <1>1 DEF UploadInv, RequestShape, AbortsHold, AbortIsFinal, CompletedHoldsParts, PartUnderWay, PartAt
<1>4. ASSUME ~sideBySide'  PROVE Orderly'
  <2>1. Orderly  BY <1>1, <1>4 DEF UploadInv
  <2> QED
    BY <1>1, <2>1 DEF Orderly, ListIsAnswered, BytesAreTold, FetchedIsTold, Told, PartUnderWay, PartAt
<1> QED  BY <1>2, <1>3, <1>4 DEF UploadInv

\* The bytes of a part that was stored and not listed are doubtful.
LEMMA MultipartFailsKeeps ==
  ASSUME UploadInv, NEW r \in PartCalls, MultipartFails(r)
  PROVE  UploadInv'
<1>1. /\ partCall[r].stage # "idle" /\ PartEnd(r) /\ multipartFaults' \in Nat
      /\ doubtful' = IF PartAt(r, "list") THEN doubtful \cup {<<partCall[r].part, partCall[r].bytes>>}
                     ELSE doubtful
      /\ UNCHANGED <<multipart, partBytes, assembled, answered, sideBySide, puts>>
  BY KnownOfUploads DEF MultipartFails, PartAt
<1>2. /\ partCall' = [partCall EXCEPT ![r] = NoPartCall]
      /\ aborts' \in AbortRecords /\ aborts'.answered = aborts.answered
      /\ aborts'.during = aborts.during \ {r}
  BY <1>1, PartEnds
<1>3. NoPartCall \in PartRecords /\ NoPartCall.stage = "idle"  BY NoPartCallTyped
<1>4. /\ doubtful \subseteq doubtful' /\ doubtful' \subseteq Parts \X (1 .. PutCount)
  BY <1>1, KnownOfUploads DEF UploadInv, RequestShape, PartUnderWay, PartAt
<1>5. AbortIsFinal' /\ CompletedHoldsParts'  BY <1>1, <1>4, AssembledStay
<1>6. /\ assembled' \subseteq Assembled
      /\ multipart' \in UploadRows /\ multipart'.parts = multipart.parts /\ partBytes' \in PartLists
      /\ puts' \in Nat /\ answered' = answered /\ sideBySide' \in BOOLEAN
      /\ (sideBySide => sideBySide')
      /\ aborts'.answered => multipart'.status # "pending"
      /\ aborts'.answered => \A q \in PartCalls \ {r} :
           partCall[q].stage \in {"fetch", "publish"} => q \in aborts'.during
  BY <1>1, <1>2, KnownOfUploads
<1>7. ASSUME ~sideBySide'  PROVE BytesAreTold'
  <2>1. ListIsAnswered /\ BytesAreTold  BY <1>1, <1>7 DEF UploadInv, Orderly
  <2>2. \A q \in PartCalls : ~PartAt(q, "list")'
    <3>1. \A q \in PartCalls \ {r} : ~PartAt(q, "list")
      BY <1>1, <2>1 DEF ListIsAnswered, PartAt, PartUnderWay
    <3> QED  BY <1>2, <1>3, <3>1, OnePartCallMoves, KnownOfUploads
  <2>3. ASSUME NEW n \in Parts
        PROVE  (partBytes[n] = 0 \/ answered[n] = 0 \/ Told(n, partBytes[n]))'
    <3>1. CASE PartAt(r, "list") /\ partCall[r].part = n
      <4>1. partBytes[n] = partCall[r].bytes  BY <2>1, <3>1 DEF BytesAreTold
      <4>2. <<n, partBytes[n]>> \in doubtful'  BY <1>1, <3>1, <4>1
      <4> QED  BY <1>1, <4>2 DEF Told
    <3>2. CASE ~(PartAt(r, "list") /\ partCall[r].part = n)
      <4>1. \A q \in PartCalls \ {r} : ~PartAt(q, "list")
        BY <1>1, <2>1 DEF ListIsAnswered, PartAt, PartUnderWay
      <4>2. partBytes[n] = 0 \/ answered[n] = 0 \/ Told(n, partBytes[n])
        BY <2>1, <3>2, <4>1 DEF BytesAreTold
      <4> QED  BY <1>1, <1>4, <4>2 DEF Told
    <3> QED  BY <3>1, <3>2
  <2> QED  BY <2>2, <2>3 DEF BytesAreTold
<1>8. /\ NoPartCall.stage \notin {"store", "list"} /\ NoPartCall.stage # "fetch"
      /\ NoPartCall.stage \notin {"fetch", "publish"} /\ NoPartCall.stage # "publish"
      /\ NoPartCall.stage \notin {"store", "list", "fetch", "publish"}
  BY <1>3
<1> QED  BY <1>1, <1>2, <1>3, <1>4, <1>5, <1>6, <1>7, <1>8, UploadStepKeeps

LEMMA UploadInvStep == UploadInv /\ [MultipartNext]_multipartVars => UploadInv'
<1> SUFFICES ASSUME UploadInv, [MultipartNext]_multipartVars  PROVE UploadInv'
  OBVIOUS
<1>1. CASE UploadExpires \/ UNCHANGED multipartVars  BY <1>1, UploadExpiresKeeps
<1>2. ASSUME NEW r \in PartCalls, PartStore(r) \/ PartList(r) \/ MultipartFails(r)  PROVE UploadInv'
  BY <1>2, PartStoreKeeps, PartListKeeps, MultipartFailsKeeps
<1>3. ASSUME NEW r \in PartCalls,
             CompleteRead(r) \/ CompleteFetch(r) \/ CompletePublish(r) \/ CompleteMark(r)
      PROVE  UploadInv'
  BY <1>3, CompleteReadKeeps, CompleteFetchKeeps, CompletePublishKeeps, MarksKeep
<1>4. ASSUME NEW r \in PartCalls,
             \/ DeletePart(r, "delete", "complete") \/ DeletePart(r, "remove", "abort")
             \/ AbortRead(r) \/ AbortMark(r)
      PROVE  UploadInv'
  BY <1>4, DeletePartKeeps, AbortReadKeeps, MarksKeep
<1>5. ASSUME NEW r \in PartCalls, NEW n \in Parts, PartRead(r, n)  PROVE UploadInv'
  BY <1>5, PartReadKeeps
<1> QED  BY <1>1, <1>2, <1>3, <1>4, <1>5 DEF MultipartNext

\* The row, the parts, the requests and what they assembled are typed.
THEOREM MultipartTypesCorrect == MultipartSpec => []MultipartTypeOK
<1>1. UploadInv => MultipartTypeOK  BY DEF UploadInv
<1> QED  BY <1>1, UploadInvInit, UploadInvStep, PTL DEF MultipartSpec

\* While parts are not sent next to another request, a completion assembles
\* the bytes the client was told of or those of a repetition that failed, in
\* full unless such a repetition has another length.
THEOREM CompletionsHoldParts == MultipartSpec => []CompletedHoldsParts
<1>1. UploadInv => CompletedHoldsParts  BY DEF UploadInv
<1> QED  BY <1>1, UploadInvInit, UploadInvStep, PTL DEF MultipartSpec

\* A request that comes after an answered abort assembles no object.
THEOREM AbortsStayFinal == MultipartSpec => []AbortIsFinal
<1>1. UploadInv => AbortIsFinal  BY DEF UploadInv, AbortsHold
<1> QED  BY <1>1, UploadInvInit, UploadInvStep, PTL DEF MultipartSpec

-----------------------------------------------------------------------------
(* Objects: rows and the numbers they carry.                                 *)

StorageStages == {"idle", "version", "put", "row", "softdelete", "bytes", "droprow",
                  "export", "broken", "old", "commit", "clean"}
CallRecords == [stage : StorageStages, found : ObjectRows, id : 0 .. ObjectCount,
                content : 0 .. UploadCount, from : Backups, old : SUBSET Keys]

\* Rows carry ids and versions that have been handed out: k objects, n uploads.
Made(o, k, n) ==
  o # NoObject =>
    o.state # "none" /\ o.id \in 1 .. k /\ o.version \in 1 .. n /\ o.content \in 1 .. n
MadeVersions(vs, k, n) == \A v \in vs : v.state = "live" /\ Made(v, k, n)
MadeBackup(b, k, n) == Made(b.object, k, n) /\ MadeVersions(b.versions, k, n)

\* What an upload that replaces an object, or makes one, still has to write.
Updates(c) == c.stage \in {"put", "row"} /\ c.id = 0
Creates(c) == c.stage \in {"put", "row"} /\ c.id # 0

CallShape(c, k, n) ==
  /\ Made(c.found, k, n) /\ MadeBackup(c.from, k, n)
  /\ c.stage = "version" => c.id = 0
  /\ c.stage = "version" \/ Updates(c) => c.found.state = "live" /\ c.found.version < n
  /\ c.stage \in {"bytes", "droprow", "softdelete"} => c.found.state = "live"
  /\ c.stage \in {"version", "put", "row"} => c.content \in 1 .. n /\ c.id \in 0 .. k

RowsMade ==
  /\ uploads \in 0 .. UploadCount /\ objects \in 0 .. ObjectCount
  /\ Made(object, objects, uploads) /\ MadeVersions(versions, objects, uploads)
  /\ \A b \in saved : MadeBackup(b, objects, uploads)
  /\ \A r \in StorageCalls : CallShape(storageCall[r], objects, uploads)

\* The versions of a path are those of its row, if there are any.
VersionsBelong ==
  /\ \A v \in versions : object.state # "none" /\ v.id = object.id
  /\ ~versioned =>
       /\ versions = {}
       /\ \A b \in saved : b.versions = {}
       /\ \A r \in StorageCalls :
            storageCall[r].from.versions = {} /\ storageCall[r].stage # "version"

ObjectsTyped == StorageTypeOK /\ RowsMade /\ VersionsBelong

LEMMA StorageByName ==
  StorageTypeOK <=>
    /\ versioned \in BOOLEAN /\ object \in ObjectRows /\ versions \subseteq ObjectRows
    /\ bytes \in [Keys -> 0 .. UploadCount]
    /\ saved \subseteq Backups
    /\ storageCall \in [StorageCalls -> CallRecords]
    /\ kept \subseteq Contents
BY DEF StorageTypeOK, CallRecords, StorageStages

LEMMA StorageByNameNext ==
  /\ versioned' \in BOOLEAN /\ object' \in ObjectRows /\ versions' \subseteq ObjectRows
  /\ bytes' \in [Keys -> 0 .. UploadCount]
  /\ saved' \subseteq Backups
  /\ storageCall' \in [StorageCalls -> CallRecords]
  /\ kept' \subseteq Contents
  => StorageTypeOK'
BY DEF StorageTypeOK, CallRecords, StorageStages

LEMMA NothingIsTyped ==
  /\ NoObject \in ObjectRows /\ NoBackup \in Backups /\ NoCall \in CallRecords
  /\ \A k, n : Made(NoObject, k, n) /\ MadeBackup(NoBackup, k, n) /\ CallShape(NoCall, k, n)
  /\ NoCall.stage = "idle" /\ NoBackup.versions = {} /\ NoCall.from = NoBackup
<1>0. ObjectCount \in Nat /\ UploadCount \in Nat  BY StorageAssumption
<1>1. NoObject \in ObjectRows  BY <1>0 DEF NoObject, ObjectRows
<1>2. [k \in Keys |-> 0] \in [Keys -> 0 .. UploadCount]  BY <1>0
<1>3. NoBackup \in Backups  BY <1>1, <1>2 DEF NoBackup, Backups
<1>4. NoCall \in CallRecords  BY <1>0, <1>1, <1>3 DEF NoCall, CallRecords, StorageStages
<1>5. NoCall.stage = "idle" /\ NoCall.found = NoObject /\ NoCall.from = NoBackup  BY DEF NoCall
<1>6. NoBackup.object = NoObject /\ NoBackup.versions = {}  BY DEF NoBackup
<1>7. ASSUME NEW k, NEW n PROVE Made(NoObject, k, n) /\ MadeBackup(NoBackup, k, n)
  BY <1>6 DEF Made, MadeBackup, MadeVersions
<1>8. ASSUME NEW k, NEW n PROVE CallShape(NoCall, k, n)
  BY <1>5, <1>7 DEF CallShape, Updates
<1> QED  BY <1>1, <1>3, <1>4, <1>5, <1>6, <1>7, <1>8

\* More objects and more uploads take nothing back.
LEMMA MadeStays ==
  ASSUME NEW k \in Nat, NEW n \in Nat, NEW k2 \in Nat, NEW n2 \in Nat, k <= k2, n <= n2
  PROVE  /\ \A o : Made(o, k, n) => Made(o, k2, n2)
         /\ \A vs : MadeVersions(vs, k, n) => MadeVersions(vs, k2, n2)
         /\ \A b : MadeBackup(b, k, n) => MadeBackup(b, k2, n2)
         /\ \A c \in CallRecords : CallShape(c, k, n) => CallShape(c, k2, n2)
<1>1. ASSUME NEW o, Made(o, k, n) PROVE Made(o, k2, n2)
  <2>1. CASE o = NoObject  BY <2>1 DEF Made
  <2>2. CASE o # NoObject
    <3>1. o.state # "none" /\ o.id \in 1 .. k /\ o.version \in 1 .. n /\ o.content \in 1 .. n
      BY <1>1, <2>2 DEF Made
    <3> QED  BY <3>1 DEF Made
  <2> QED  BY <2>1, <2>2
<1>2. ASSUME NEW vs, MadeVersions(vs, k, n) PROVE MadeVersions(vs, k2, n2)
  BY <1>1, <1>2 DEF MadeVersions
<1>3. ASSUME NEW b, MadeBackup(b, k, n) PROVE MadeBackup(b, k2, n2)
  BY <1>1, <1>2, <1>3 DEF MadeBackup
<1>4. ASSUME NEW c \in CallRecords, CallShape(c, k, n) PROVE CallShape(c, k2, n2)
  <2>1. Made(c.found, k2, n2) /\ MadeBackup(c.from, k2, n2)  BY <1>1, <1>3, <1>4 DEF CallShape
  <2>2. c.found \in ObjectRows  BY DEF CallRecords
  <2>3. c.found.version \in Nat  BY <2>2, StorageAssumption DEF ObjectRows
  <2>4. c.stage = "version" \/ Updates(c) => c.found.state = "live" /\ c.found.version < n2
    BY <1>4, <2>3 DEF CallShape
  <2>5. c.stage \in {"version", "put", "row"} => c.content \in 1 .. n2 /\ c.id \in 0 .. k2
    BY <1>4 DEF CallShape
  <2> QED  BY <1>4, <2>1, <2>4, <2>5 DEF CallShape
<1> QED  BY <1>1, <1>2, <1>3, <1>4

LEMMA KeyIsMade ==
  ASSUME NEW k \in 0 .. ObjectCount, NEW n \in 0 .. UploadCount, NEW o,
         Made(o, k, n), o.state # "none"
  PROVE  KeyOf(o) \in Keys
<1>1. o # NoObject  BY DEF NoObject
<1>2. o.id \in 1 .. k /\ o.version \in 1 .. n  BY <1>1 DEF Made
<1>3. o.id \in 1 .. ObjectCount /\ o.version \in 1 .. UploadCount + 1
  BY <1>2, StorageAssumption
<1> QED  BY <1>3 DEF KeyOf, Keys

LEMMA ItemKeys ==
  ASSUME ObjectsTyped, NEW i \in Items(object, versions)
  PROVE  KeyOf(i) \in Keys
<1>1. Made(i, objects, uploads) /\ i.state # "none"
  BY DEF Items, ObjectsTyped, RowsMade, MadeVersions
<1>2. objects \in 0 .. ObjectCount /\ uploads \in 0 .. UploadCount
  BY DEF ObjectsTyped, RowsMade
<1> QED  BY <1>1, <1>2, KeyIsMade

\* A request at another stage; the others are where they were.
LEMMA CallMoves ==
  ASSUME NEW f \in [StorageCalls -> CallRecords], NEW r \in StorageCalls, NEW d,
         NEW g, g = [f EXCEPT ![r] = d]
  PROVE  /\ g[r] = d
         /\ \A q \in StorageCalls : q # r => g[q] = f[q]
         /\ d \in CallRecords => g \in [StorageCalls -> CallRecords]
OBVIOUS

\* The others keep their shape, whatever one request does next.
LEMMA CallsStayMade ==
  ASSUME ObjectsTyped, NEW r \in StorageCalls, NEW d \in CallRecords,
         storageCall' = [storageCall EXCEPT ![r] = d],
         objects' \in objects .. ObjectCount, uploads' \in uploads .. UploadCount,
         CallShape(d, objects', uploads')
  PROVE  /\ storageCall' \in [StorageCalls -> CallRecords]
         /\ \A q \in StorageCalls : CallShape(storageCall'[q], objects', uploads')
         /\ Made(object, objects', uploads') /\ MadeVersions(versions, objects', uploads')
         /\ \A b \in saved : MadeBackup(b, objects', uploads')
         /\ objects' \in 0 .. ObjectCount /\ uploads' \in 0 .. UploadCount
<1>0. ObjectCount \in Nat /\ UploadCount \in Nat  BY StorageAssumption
<1>1. storageCall \in [StorageCalls -> CallRecords]  BY StorageByName DEF ObjectsTyped
<1>2. uploads \in 0 .. UploadCount /\ objects \in 0 .. ObjectCount  BY DEF ObjectsTyped, RowsMade
<1>3. /\ objects \in Nat /\ uploads \in Nat /\ objects' \in Nat /\ uploads' \in Nat
      /\ objects <= objects' /\ uploads <= uploads'
  BY <1>0, <1>2
<1>4. /\ storageCall'[r] = d
      /\ \A q \in StorageCalls : q # r => storageCall'[q] = storageCall[q]
      /\ storageCall' \in [StorageCalls -> CallRecords]
  BY <1>1, CallMoves
<1>5. /\ \A o : Made(o, objects, uploads) => Made(o, objects', uploads')
      /\ \A vs : MadeVersions(vs, objects, uploads) => MadeVersions(vs, objects', uploads')
      /\ \A b : MadeBackup(b, objects, uploads) => MadeBackup(b, objects', uploads')
      /\ \A c \in CallRecords : CallShape(c, objects, uploads) => CallShape(c, objects', uploads')
  BY <1>3, MadeStays
<1>6. ASSUME NEW q \in StorageCalls PROVE CallShape(storageCall'[q], objects', uploads')
  <2>1. storageCall[q] \in CallRecords  BY <1>1
  <2>2. CallShape(storageCall[q], objects, uploads)  BY DEF ObjectsTyped, RowsMade
  <2>3. CallShape(storageCall[q], objects', uploads')  BY <1>5, <2>1, <2>2
  <2> QED  BY <1>4, <2>3
<1>7. /\ Made(object, objects, uploads) /\ MadeVersions(versions, objects, uploads)
      /\ \A b \in saved : MadeBackup(b, objects, uploads)
  BY DEF ObjectsTyped, RowsMade
<1> QED  BY <1>0, <1>2, <1>3, <1>4, <1>5, <1>6, <1>7

LEMMA ObjectsStayTyped ==
  ASSUME ObjectsTyped, NEW r \in StorageCalls, NEW d \in CallRecords,
         storageCall' = [storageCall EXCEPT ![r] = d],
         objects' \in objects .. ObjectCount, uploads' \in uploads .. UploadCount,
         CallShape(d, objects', uploads'),
         versioned' = versioned,
         object' \in ObjectRows, versions' \subseteq ObjectRows,
         bytes' \in [Keys -> 0 .. UploadCount], saved' \subseteq Backups, kept' \subseteq Contents,
         Made(object', objects', uploads'), MadeVersions(versions', objects', uploads'),
         \A b \in saved' : MadeBackup(b, objects', uploads'),
         \A v \in versions' : object'.state # "none" /\ v.id = object'.id,
         ~versioned => versions' = {} /\ \A b \in saved' : b.versions = {},
         ~versioned => d.from.versions = {} /\ d.stage # "version"
  PROVE  ObjectsTyped'
<1>1. /\ storageCall' \in [StorageCalls -> CallRecords]
      /\ \A q \in StorageCalls : CallShape(storageCall'[q], objects', uploads')
      /\ objects' \in 0 .. ObjectCount /\ uploads' \in 0 .. UploadCount
  BY CallsStayMade
<1>2. versioned' \in BOOLEAN  BY StorageByName DEF ObjectsTyped
<1>3. StorageTypeOK'  BY <1>1, <1>2, StorageByNameNext
<1>4. RowsMade'  BY <1>1 DEF RowsMade
<1>5. storageCall \in [StorageCalls -> CallRecords]  BY StorageByName DEF ObjectsTyped
<1>6. /\ storageCall'[r] = d
      /\ \A q \in StorageCalls : q # r => storageCall'[q] = storageCall[q]
  BY <1>5, CallMoves
<1>7. VersionsBelong'  BY <1>6 DEF VersionsBelong, ObjectsTyped
<1> QED  BY <1>3, <1>4, <1>7 DEF ObjectsTyped

\* A step that leaves the rows alone.
LEMMA QuietStaysTyped ==
  ASSUME ObjectsTyped, NEW r \in StorageCalls, NEW d \in CallRecords,
         storageCall' = [storageCall EXCEPT ![r] = d],
         objects' \in objects .. ObjectCount, uploads' \in uploads .. UploadCount,
         CallShape(d, objects', uploads'),
         UNCHANGED <<versioned, object, versions, saved, kept>>,
         bytes' \in [Keys -> 0 .. UploadCount],
         ~versioned => d.from.versions = {} /\ d.stage # "version"
  PROVE  ObjectsTyped'
<1>1. /\ Made(object, objects', uploads') /\ MadeVersions(versions, objects', uploads')
      /\ \A b \in saved : MadeBackup(b, objects', uploads')
  BY CallsStayMade
<1>2. /\ object' \in ObjectRows /\ versions' \subseteq ObjectRows /\ saved' \subseteq Backups
      /\ kept' \subseteq Contents /\ versioned' = versioned
  BY StorageByName DEF ObjectsTyped
<1>3. /\ Made(object', objects', uploads') /\ MadeVersions(versions', objects', uploads')
      /\ \A b \in saved' : MadeBackup(b, objects', uploads')
  BY <1>1
<1>4. /\ \A v \in versions' : object'.state # "none" /\ v.id = object'.id
      /\ ~versioned => versions' = {} /\ \A b \in saved' : b.versions = {}
  BY DEF ObjectsTyped, VersionsBelong
<1>5. object' \in ObjectRows  BY <1>2
<1>6. versions' \subseteq ObjectRows  BY <1>2
<1>7. saved' \subseteq Backups  BY <1>2
<1>8. kept' \subseteq Contents  BY <1>2
<1>9. versioned' = versioned  BY <1>2
<1>10. Made(object', objects', uploads')  BY <1>3
<1>11. MadeVersions(versions', objects', uploads')  BY <1>3
<1>12. \A b \in saved' : MadeBackup(b, objects', uploads')  BY <1>3
<1>13. \A v \in versions' : object'.state # "none" /\ v.id = object'.id  BY <1>4
<1>14. ~versioned => versions' = {} /\ \A b \in saved' : b.versions = {}  BY <1>4
<1> QED  BY <1>5, <1>6, <1>7, <1>8, <1>9, <1>10, <1>11, <1>12, <1>13, <1>14, ObjectsStayTyped

LEMMA ObjectNumbers ==
  ASSUME ObjectsTyped
  PROVE  /\ ObjectCount \in Nat /\ UploadCount \in Nat
         /\ objects \in Nat /\ uploads \in Nat /\ objects <= ObjectCount /\ uploads <= UploadCount
         /\ objects \in objects .. ObjectCount /\ uploads \in uploads .. UploadCount
BY StorageAssumption DEF ObjectsTyped, RowsMade

LEMMA CallNow ==
  ASSUME ObjectsTyped, NEW r \in StorageCalls
  PROVE  /\ storageCall[r] \in CallRecords /\ CallShape(storageCall[r], objects, uploads)
         /\ storageCall[r].found \in ObjectRows /\ storageCall[r].from \in Backups
         /\ ~versioned => storageCall[r].from.versions = {} /\ storageCall[r].stage # "version"
<1>1. storageCall[r] \in CallRecords  BY StorageByName DEF ObjectsTyped
<1>2. CallShape(storageCall[r], objects, uploads)  BY DEF ObjectsTyped, RowsMade
<1>3. ~versioned => storageCall[r].from.versions = {} /\ storageCall[r].stage # "version"
  BY DEF ObjectsTyped, VersionsBelong
<1> QED  BY <1>1, <1>2, <1>3 DEF CallRecords

LEMMA Goes ==
  ASSUME ObjectsTyped, NEW r \in StorageCalls, NEW s \in {"put", "row", "droprow", "clean"},
         StorageGo(r, s),
         s \in {"put", "row"} => storageCall[r].stage \in {"version", "put"},
         s = "droprow" => storageCall[r].stage = "bytes"
  PROVE  \E d \in CallRecords :
           /\ storageCall' = [storageCall EXCEPT ![r] = d]
           /\ d.stage = s /\ d.found = storageCall[r].found /\ d.id = storageCall[r].id
           /\ d.content = storageCall[r].content /\ d.from = storageCall[r].from
           /\ d.old = storageCall[r].old
           /\ CallShape(d, objects, uploads)
           /\ ~versioned => d.from.versions = {} /\ d.stage # "version"
<1>1. storageCall \in [StorageCalls -> CallRecords]  BY StorageByName DEF ObjectsTyped
<1>2. s \in StorageStages  BY DEF StorageStages
<1>3. storageCall' = [storageCall EXCEPT ![r].stage = s]  BY DEF StorageGo
<1> DEFINE d == [storageCall[r] EXCEPT !.stage = s]
<1>8. storageCall[r] \in CallRecords  BY <1>1
<1>9. d \in CallRecords  BY <1>2, <1>8 DEF CallRecords
<1>7. /\ storageCall' = [storageCall EXCEPT ![r] = d]
      /\ d.stage = s /\ d.found = storageCall[r].found /\ d.id = storageCall[r].id
      /\ d.content = storageCall[r].content
      /\ d.from = storageCall[r].from /\ d.old = storageCall[r].old
  BY <1>3, <1>8 DEF CallRecords
<1> HIDE DEF d
<1>4. CallShape(storageCall[r], objects, uploads)  BY CallNow
<1>5. CallShape(d, objects, uploads)  BY <1>7, <1>4 DEF CallShape, Updates
<1>6. ~versioned => d.from.versions = {} /\ d.stage # "version"  BY <1>7, CallNow
<1> QED  BY <1>5, <1>6, <1>7, <1>9

LEMMA Ends ==
  ASSUME NEW r \in StorageCalls, StorageEnd(r)
  PROVE  /\ NoCall \in CallRecords /\ storageCall' = [storageCall EXCEPT ![r] = NoCall]
         /\ CallShape(NoCall, objects, uploads)
         /\ ~versioned => NoCall.from.versions = {} /\ NoCall.stage # "version"
<1>1. NoCall.stage # "version"  BY DEF NoCall
<1> QED  BY <1>1, NothingIsTyped DEF StorageEnd

LEMMA UploadFindTyped ==
  ASSUME ObjectsTyped, NEW r \in StorageCalls, UploadFind(r)
  PROVE  ObjectsTyped'
<1> USE ObjectNumbers
<1> DEFINE d == IF object.state = "live"
       THEN [NoCall EXCEPT !.stage = IF versioned THEN "version" ELSE "put",
                           !.found = object, !.content = uploads + 1]
       ELSE [NoCall EXCEPT !.stage = "put", !.id = objects + 1, !.content = uploads + 1]
<1>1. storageCall' = [storageCall EXCEPT ![r] = d]  BY DEF UploadFind
<1>2. object \in ObjectRows /\ Made(object, objects, uploads) /\ bytes \in [Keys -> 0 .. UploadCount]
  BY StorageByName DEF ObjectsTyped, RowsMade
<1>3. uploads' = uploads + 1 /\ uploads < UploadCount /\ uploads' \in uploads .. UploadCount
  BY DEF UploadFind
<1>4. objects' \in objects .. ObjectCount /\ (object.state # "live" => objects' = objects + 1)
  BY DEF UploadFind
<1>5. objects' \in Nat /\ objects <= objects'  BY <1>4
<1>6. UNCHANGED <<versioned, object, versions, saved, kept>> /\ bytes' = bytes  BY DEF UploadFind
<1>7. d \in CallRecords /\ CallShape(d, objects', uploads')
      /\ (~versioned => d.from.versions = {} /\ d.stage # "version")
  <2>1. CASE object.state = "live"
    <3>0. d = [NoCall EXCEPT !.stage = IF versioned THEN "version" ELSE "put",
                             !.found = object, !.content = uploads + 1]
      BY <2>1
    <3>1. d \in CallRecords /\ d.stage \in {"version", "put"} /\ d.found = object /\ d.id = 0
          /\ d.content = uploads + 1 /\ d.from = NoBackup
          /\ (~versioned => d.stage # "version")
      <4> HIDE DEF d
      <4>1. NoCall \in CallRecords /\ NoCall.id = 0 /\ NoCall.from = NoBackup
        BY NothingIsTyped DEF NoCall
      <4>2. uploads + 1 \in 0 .. UploadCount  BY <1>3
      <4>3. d \in CallRecords  BY <1>2, <3>0, <4>1, <4>2 DEF CallRecords, StorageStages
      <4> QED  BY <3>0, <4>1, <4>3 DEF CallRecords
    <3>2. Made(d.found, objects', uploads') /\ MadeBackup(d.from, objects', uploads')
      BY <1>2, <1>3, <1>5, <3>1, MadeStays, NothingIsTyped
    <3>3. object # NoObject  BY <2>1 DEF NoObject
    <3>4. object.version \in 1 .. uploads  BY <1>2, <3>3 DEF Made
    <3>5. d.found.version < uploads'  BY <1>3, <3>1, <3>4
    <3>6. d.content \in 1 .. uploads' /\ d.id \in 0 .. objects'  BY <1>3, <1>5, <3>1
    <3>7. CallShape(d, objects', uploads')  BY <2>1, <3>1, <3>2, <3>5, <3>6 DEF CallShape
    <3> QED  BY <3>1, <3>7, NothingIsTyped
  <2>2. CASE object.state # "live"
    <3>0. objects + 1 \in 0 .. ObjectCount /\ objects + 1 \in 0 .. objects'  BY <1>4, <2>2
    <3>6. d = [NoCall EXCEPT !.stage = "put", !.id = objects + 1, !.content = uploads + 1]
      BY <2>2
    <3>1. d \in CallRecords /\ d.stage = "put" /\ d.found = NoObject /\ d.id = objects + 1
          /\ d.content = uploads + 1 /\ d.from = NoBackup
      <4> HIDE DEF d
      <4>1. NoCall \in CallRecords /\ NoCall.found = NoObject /\ NoCall.from = NoBackup
        BY NothingIsTyped DEF NoCall
      <4>2. uploads + 1 \in 0 .. UploadCount  BY <1>3
      <4>3. d \in CallRecords  BY <3>0, <3>6, <4>1, <4>2 DEF CallRecords, StorageStages
      <4> QED  BY <3>6, <4>1, <4>3 DEF CallRecords
    <3>2. Made(d.found, objects', uploads') /\ MadeBackup(d.from, objects', uploads')
      BY <3>1, NothingIsTyped
    <3>3. ~Updates(d)  BY <3>1 DEF Updates
    <3>4. d.content \in 1 .. uploads' /\ d.id \in 0 .. objects'  BY <1>3, <3>0, <3>1
    <3>5. CallShape(d, objects', uploads')  BY <3>1, <3>2, <3>3, <3>4 DEF CallShape
    <3> QED  BY <3>1, <3>5, NothingIsTyped
  <2> QED  BY <2>1, <2>2
<1>8. bytes' \in [Keys -> 0 .. UploadCount]  BY <1>2, <1>6
<1>9. d \in CallRecords  BY <1>7
<1>10. CallShape(d, objects', uploads')  BY <1>7
<1>11. ~versioned => d.from.versions = {} /\ d.stage # "version"  BY <1>7
<1>12. UNCHANGED <<versioned, object, versions, saved, kept>>  BY <1>6
<1> HIDE DEF d
<1> QED  BY <1>1, <1>3, <1>4, <1>8, <1>9, <1>10, <1>11, <1>12, QuietStaysTyped

LEMMA UploadVersionTyped ==
  ASSUME ObjectsTyped, NEW r \in StorageCalls, UploadVersion(r)
  PROVE  ObjectsTyped'
<1> USE ObjectNumbers
<1> DEFINE o == storageCall[r].found
<1>1. objects' = objects /\ uploads' = uploads /\ versioned' = versioned /\ object' = object
      /\ saved' = saved /\ kept' = kept /\ bytes' = bytes
  BY DEF UploadVersion, storageCounts
<1>2. object \in ObjectRows /\ versions \subseteq ObjectRows /\ bytes \in [Keys -> 0 .. UploadCount]
      /\ saved \subseteq Backups /\ kept \subseteq Contents
  BY StorageByName DEF ObjectsTyped
<1>3. /\ Made(object, objects, uploads) /\ MadeVersions(versions, objects, uploads)
      /\ \A b \in saved : MadeBackup(b, objects, uploads)
  BY DEF ObjectsTyped, RowsMade
<1>4. /\ \A v \in versions : object.state # "none" /\ v.id = object.id
      /\ ~versioned => versions = {} /\ \A b \in saved : b.versions = {}
  BY DEF ObjectsTyped, VersionsBelong
<1>5. CASE IsRow(o.id) /\ ~VersionTaken(o)
  <2>1. versions' = versions \cup {o} /\ StorageGo(r, "put") /\ storageCall[r].stage = "version"
    BY <1>5 DEF UploadVersion, StorageAt
  <2>2. PICK d \in CallRecords :
          /\ storageCall' = [storageCall EXCEPT ![r] = d] /\ CallShape(d, objects, uploads)
          /\ ~versioned => d.from.versions = {} /\ d.stage # "version"
    BY <2>1, Goes
  <2>3. o \in ObjectRows /\ Made(o, objects, uploads) /\ o.state = "live" /\ versioned
    BY <2>1, CallNow DEF CallShape
  <2>4. MadeVersions(versions', objects', uploads')  BY <1>1, <1>3, <2>1, <2>3 DEF MadeVersions
  <2>5. versions' \subseteq ObjectRows  BY <1>2, <2>1, <2>3
  <2>6. \A v \in versions' : object'.state # "none" /\ v.id = object'.id
    BY <1>1, <1>4, <1>5, <2>1 DEF IsRow
  <2> QED
    BY <1>1, <1>2, <1>3, <2>2, <2>3, <2>4, <2>5, <2>6, ObjectsStayTyped
<1>6. CASE ~(IsRow(o.id) /\ ~VersionTaken(o))
  <2>1. versions' = versions /\ StorageEnd(r)  BY <1>6 DEF UploadVersion
  <2> HIDE DEF o
  <2> QED  BY <1>1, <1>2, <2>1, Ends, QuietStaysTyped
<1> QED  BY <1>5, <1>6

LEMMA PutBytesTyped ==
  ASSUME ObjectsTyped, NEW r \in StorageCalls, PutBytes(r)
  PROVE  ObjectsTyped'
<1> USE ObjectNumbers
<1>1. objects' = objects /\ uploads' = uploads /\ UNCHANGED <<versioned, object, versions, saved, kept>>
  BY DEF PutBytes, storageCounts
<1>2. storageCall[r].stage = "put" /\ StorageGo(r, "row")  BY DEF PutBytes, StorageAt
<1>3. PICK d \in CallRecords :
        /\ storageCall' = [storageCall EXCEPT ![r] = d] /\ CallShape(d, objects, uploads)
        /\ ~versioned => d.from.versions = {} /\ d.stage # "version"
  BY <1>2, Goes
<1>4. storageCall[r].content \in 0 .. UploadCount  BY CallNow DEF CallRecords
<1>5. bytes \in [Keys -> 0 .. UploadCount]  BY StorageByName DEF ObjectsTyped
<1>6. bytes' \in [Keys -> 0 .. UploadCount]  BY <1>4, <1>5 DEF PutBytes
<1> QED  BY <1>1, <1>3, <1>6, QuietStaysTyped

\* What an upload writes is a row.
LEMMA NextIsMade ==
  ASSUME ObjectsTyped, NEW r \in StorageCalls, storageCall[r].stage \in {"put", "row"}
  PROVE  /\ NextVersion(r) \in ObjectRows /\ Made(NextVersion(r), objects, uploads)
         /\ NextVersion(r).state = "live" /\ NextVersion(r).content = storageCall[r].content
         /\ storageCall[r].id = 0 => /\ NextVersion(r).id = storageCall[r].found.id
                                     /\ NextVersion(r).version = storageCall[r].found.version + 1
         /\ storageCall[r].id # 0 => /\ NextVersion(r).id = storageCall[r].id
                                     /\ NextVersion(r).version = 1
         /\ KeyOf(NextVersion(r)) \in Keys
<1> USE ObjectNumbers
<1> DEFINE c == storageCall[r]
           o == NextVersion(r)
<1>1. c \in CallRecords /\ c.found \in ObjectRows /\ CallShape(c, objects, uploads)  BY CallNow
<1>2. c.content \in 1 .. uploads /\ c.id \in 0 .. objects  BY <1>1 DEF CallShape
<1>3. o.state = "live" /\ o.content = c.content
      /\ (c.id = 0 => o.id = c.found.id /\ o.version = c.found.version + 1)
      /\ (c.id # 0 => o.id = c.id /\ o.version = 1)
  BY DEF NextVersion
<1>4. o.id \in 1 .. objects /\ o.version \in 1 .. uploads
  <2>1. CASE c.id = 0
    <3>1. c.found.state = "live" /\ c.found.version < uploads  BY <1>1, <2>1 DEF CallShape, Updates
    <3>2. c.found # NoObject  BY <3>1 DEF NoObject
    <3>3. c.found.id \in 1 .. objects /\ c.found.version \in 1 .. uploads
      BY <1>1, <3>2 DEF CallShape, Made
    <3> QED  BY <1>3, <2>1, <3>1, <3>3
  <2>2. CASE c.id # 0  BY <1>2, <1>3, <2>2
  <2> QED  BY <2>1, <2>2
<1>5. o \in [state : {"none", "live", "deleted"}, id : 0 .. ObjectCount,
             version : 0 .. UploadCount + 1, content : 0 .. UploadCount]
  <2>1. o.id \in 0 .. ObjectCount /\ o.version \in 0 .. UploadCount + 1 /\ o.content \in 0 .. UploadCount
    BY <1>2, <1>3, <1>4
  <2>2. o = [state |-> o.state, content |-> o.content, id |-> o.id, version |-> o.version]
    BY DEF NextVersion
  <2> QED  BY <1>3, <2>1, <2>2
<1>6. Made(o, objects, uploads)  BY <1>2, <1>3, <1>4 DEF Made
<1>7. KeyOf(o) \in Keys  BY <1>3, <1>6, KeyIsMade
<1> QED  BY <1>3, <1>5, <1>6, <1>7 DEF ObjectRows

LEMMA WriteObjectTyped ==
  ASSUME ObjectsTyped, NEW r \in StorageCalls, WriteObject(r)
  PROVE  ObjectsTyped'
<1> USE ObjectNumbers
<1> DEFINE c == storageCall[r]
<1>1. objects' = objects /\ uploads' = uploads /\ versioned' = versioned
      /\ saved' = saved /\ versions' = versions /\ bytes' = bytes
  BY DEF WriteObject, storageCounts
<1>2. object \in ObjectRows /\ versions \subseteq ObjectRows /\ bytes \in [Keys -> 0 .. UploadCount]
      /\ saved \subseteq Backups /\ kept \subseteq Contents
  BY StorageByName DEF ObjectsTyped
<1>3. /\ Made(object, objects, uploads) /\ MadeVersions(versions, objects, uploads)
      /\ \A b \in saved : MadeBackup(b, objects, uploads)
  BY DEF ObjectsTyped, RowsMade
<1>4. /\ \A v \in versions : object.state # "none" /\ v.id = object.id
      /\ ~versioned => versions = {} /\ \A b \in saved : b.versions = {}
  BY DEF ObjectsTyped, VersionsBelong
<1>5. c.stage = "row" /\ StorageEnd(r)  BY DEF WriteObject, StorageAt
<1>6. /\ storageCall' = [storageCall EXCEPT ![r] = NoCall] /\ NoCall \in CallRecords
      /\ CallShape(NoCall, objects, uploads)
      /\ ~versioned => NoCall.from.versions = {} /\ NoCall.stage # "version"
  BY <1>5, Ends
<1>7. CASE IF c.id = 0 THEN IsRow(c.found.id) ELSE object.state = "none"
  <2>1. object' = NextVersion(r) /\ kept' = kept \cup {c.content}  BY <1>7 DEF WriteObject
  <2>2. object' \in ObjectRows /\ Made(object', objects, uploads) /\ object'.state = "live"
        /\ (c.id = 0 => object'.id = c.found.id)
    BY <1>5, <2>1, NextIsMade
  <2>3. c.content \in Contents
    <3>1. c.content \in 1 .. uploads  BY <1>5, CallNow DEF CallShape
    <3> QED  BY <3>1 DEF Contents
  <2>4. \A v \in versions' : object'.state # "none" /\ v.id = object'.id
    BY <1>1, <1>4, <1>7, <2>2 DEF IsRow
  <2>5. kept' \subseteq Contents  BY <1>2, <2>1, <2>3
  <2> QED  BY <1>1, <1>2, <1>3, <1>4, <1>6, <2>2, <2>4, <2>5, ObjectsStayTyped
<1>8. CASE ~IF c.id = 0 THEN IsRow(c.found.id) ELSE object.state = "none"
  <2>1. UNCHANGED <<versioned, object, versions, saved, kept>>  BY <1>1, <1>8 DEF WriteObject
  <2> QED  BY <1>1, <1>2, <1>6, <2>1, QuietStaysTyped
<1> QED  BY <1>7, <1>8

LEMMA FindsTyped ==
  ASSUME ObjectsTyped, NEW r \in StorageCalls,
         (\E s \in {"softdelete", "bytes"} : RemoveFind(r, s)) \/ ExportObjects(r)
  PROVE  ObjectsTyped'
<1> USE ObjectNumbers
<1>1. PICK s \in {"softdelete", "bytes", "export"} :
        /\ storageCall' = [storageCall EXCEPT ![r] = [NoCall EXCEPT !.stage = s, !.found = object]]
        /\ s # "export" => object.state = "live"
  BY DEF RemoveFind, ExportObjects
<1> DEFINE d == [NoCall EXCEPT !.stage = s, !.found = object]
<1>2. UNCHANGED <<versioned, object, versions, saved, kept, bytes, objects, uploads>>
  BY DEF RemoveFind, ExportObjects, storageCounts
<1>3. object \in ObjectRows /\ Made(object, objects, uploads) /\ bytes \in [Keys -> 0 .. UploadCount]
  BY StorageByName DEF ObjectsTyped, RowsMade
<1>4. NoCall \in CallRecords /\ NoCall.from = NoBackup  BY NothingIsTyped
<1>5. d \in CallRecords /\ d.stage = s /\ d.found = object /\ d.from = NoBackup
  <2>1. d \in CallRecords  BY <1>3, <1>4 DEF CallRecords, StorageStages
  <2> QED  BY <1>4, <2>1 DEF CallRecords
<1> HIDE DEF d
<1>6. CallShape(d, objects, uploads)  BY <1>1, <1>3, <1>5, NothingIsTyped DEF CallShape, Updates
<1>7. ~versioned => d.from.versions = {} /\ d.stage # "version"  BY <1>5, NothingIsTyped
<1>8. storageCall' = [storageCall EXCEPT ![r] = d]  BY <1>1 DEF d
<1> QED  BY <1>2, <1>3, <1>5, <1>6, <1>7, <1>8, QuietStaysTyped

LEMMA SoftDeleteTyped ==
  ASSUME ObjectsTyped, NEW r \in StorageCalls, SoftDelete(r)
  PROVE  ObjectsTyped'
<1> USE ObjectNumbers
<1>1. objects' = objects /\ uploads' = uploads /\ versioned' = versioned /\ kept' = kept
      /\ saved' = saved /\ versions' = versions /\ bytes' = bytes
  BY DEF SoftDelete, storageCounts
<1>2. object \in ObjectRows /\ versions \subseteq ObjectRows /\ bytes \in [Keys -> 0 .. UploadCount]
      /\ saved \subseteq Backups /\ kept \subseteq Contents
  BY StorageByName DEF ObjectsTyped
<1>3. /\ Made(object, objects, uploads) /\ MadeVersions(versions, objects, uploads)
      /\ \A b \in saved : MadeBackup(b, objects, uploads)
  BY DEF ObjectsTyped, RowsMade
<1>4. /\ \A v \in versions : object.state # "none" /\ v.id = object.id
      /\ ~versioned => versions = {} /\ \A b \in saved : b.versions = {}
  BY DEF ObjectsTyped, VersionsBelong
<1>5. StorageEnd(r)  BY DEF SoftDelete
<1>6. object' \in ObjectRows /\ Made(object', objects, uploads) /\ object'.id = object.id
      /\ (object.state # "none" => object'.state # "none")
  <2>1. CASE IsRow(storageCall[r].found.id)
    <3>1. object' = [object EXCEPT !.state = "deleted"]  BY <2>1 DEF SoftDelete
    <3>2. object # NoObject  BY <2>1 DEF IsRow, NoObject
    <3>3. object' \in ObjectRows /\ object'.id = object.id /\ object'.version = object.version
          /\ object'.content = object.content /\ object'.state = "deleted"
      BY <1>2, <3>1 DEF ObjectRows
    <3> QED  BY <1>3, <3>2, <3>3 DEF Made
  <2>2. CASE ~IsRow(storageCall[r].found.id)  BY <1>2, <1>3, <2>2 DEF SoftDelete
  <2> QED  BY <2>1, <2>2
<1>7. \A v \in versions' : object'.state # "none" /\ v.id = object'.id  BY <1>1, <1>4, <1>6
<1> QED  BY <1>1, <1>2, <1>3, <1>4, <1>5, <1>6, <1>7, Ends, ObjectsStayTyped

LEMMA DeleteBytesTyped ==
  ASSUME ObjectsTyped, NEW r \in StorageCalls, DeleteBytes(r)
  PROVE  ObjectsTyped'
<1> USE ObjectNumbers
<1>1. objects' = objects /\ uploads' = uploads /\ UNCHANGED <<versioned, object, versions, saved, kept>>
  BY DEF DeleteBytes, storageCounts
<1>2. storageCall[r].stage = "bytes" /\ StorageGo(r, "droprow")  BY DEF DeleteBytes, StorageAt
<1>3. PICK d \in CallRecords :
        /\ storageCall' = [storageCall EXCEPT ![r] = d] /\ CallShape(d, objects, uploads)
        /\ ~versioned => d.from.versions = {} /\ d.stage # "version"
  BY <1>2, Goes
<1>4. bytes \in [Keys -> 0 .. UploadCount]  BY StorageByName DEF ObjectsTyped
<1>6. 0 \in 0 .. UploadCount  OBVIOUS
<1>5. bytes' \in [Keys -> 0 .. UploadCount]  BY <1>4, <1>6 DEF DeleteBytes
<1> QED  BY <1>1, <1>3, <1>5, QuietStaysTyped

LEMMA DeleteRowTyped ==
  ASSUME ObjectsTyped, NEW r \in StorageCalls, DeleteRow(r)
  PROVE  ObjectsTyped'
<1> USE ObjectNumbers
<1>1. objects' = objects /\ uploads' = uploads /\ versioned' = versioned
      /\ saved' = saved /\ bytes' = bytes
  BY DEF DeleteRow, storageCounts
<1>2. bytes \in [Keys -> 0 .. UploadCount] /\ saved \subseteq Backups
  BY StorageByName DEF ObjectsTyped
<1>3. \A b \in saved : MadeBackup(b, objects, uploads)  BY DEF ObjectsTyped, RowsMade
<1>4. ~versioned => \A b \in saved : b.versions = {}  BY DEF ObjectsTyped, VersionsBelong
<1>5. /\ storageCall' = [storageCall EXCEPT ![r] = NoCall] /\ NoCall \in CallRecords
      /\ CallShape(NoCall, objects, uploads)
      /\ ~versioned => NoCall.from.versions = {} /\ NoCall.stage # "version"
  BY Ends DEF DeleteRow
<1>6. CASE IsRow(storageCall[r].found.id)
  <2>1. object' = NoObject /\ versions' = {} /\ kept' = {}  BY <1>6 DEF DeleteRow
  <2>2. object' \in ObjectRows /\ Made(object', objects, uploads)  BY <2>1, NothingIsTyped
  <2>3. MadeVersions(versions', objects, uploads)  BY <2>1 DEF MadeVersions
  <2> QED  BY <1>1, <1>2, <1>3, <1>4, <1>5, <2>1, <2>2, <2>3, ObjectsStayTyped
<1>7. CASE ~IsRow(storageCall[r].found.id)
  <2>1. UNCHANGED <<versioned, object, versions, saved, kept>>  BY <1>1, <1>7 DEF DeleteRow
  <2> QED  BY <1>1, <1>2, <1>5, <2>1, QuietStaysTyped
<1> QED  BY <1>6, <1>7

LEMMA UndeleteTyped == ASSUME ObjectsTyped, Undelete PROVE ObjectsTyped'
<1>1. UNCHANGED <<versioned, versions, bytes, saved, storageCall, uploads, objects, kept>>
  BY DEF Undelete, storageCounts
<1>2. object \in ObjectRows /\ Made(object, objects, uploads)
  BY StorageByName DEF ObjectsTyped, RowsMade
<1>3. object.state = "deleted" /\ object' = [object EXCEPT !.state = "live"]  BY DEF Undelete
<1>4. object' \in ObjectRows /\ object'.id = object.id /\ object'.version = object.version
      /\ object'.content = object.content /\ object'.state = "live"
  BY <1>2, <1>3 DEF ObjectRows
<1>5. Made(object', objects, uploads)
  <2>1. object # NoObject  BY <1>3 DEF NoObject
  <2> QED  BY <1>2, <1>4, <2>1 DEF Made
<1>6. StorageTypeOK'  BY <1>1, <1>4, StorageByName, StorageByNameNext DEF ObjectsTyped
<1>7. RowsMade'  BY <1>1, <1>5 DEF ObjectsTyped, RowsMade
<1>8. VersionsBelong'  BY <1>1, <1>4 DEF ObjectsTyped, VersionsBelong
<1> QED  BY <1>6, <1>7, <1>8 DEF ObjectsTyped

LEMMA ExportVersionsTyped ==
  ASSUME ObjectsTyped, NEW r \in StorageCalls, ExportVersions(r)
  PROVE  ObjectsTyped'
<1> USE ObjectNumbers
<1> DEFINE o == storageCall[r].found
           b == [object |-> o, versions |-> versions,
                 bytes |-> [k \in Keys |-> IF \E i \in Items(o, versions) : KeyOf(i) = k
                                          THEN bytes[k] ELSE 0]]
<1>1. objects' = objects /\ uploads' = uploads /\ UNCHANGED <<versioned, object, versions, kept, bytes>>
  BY DEF ExportVersions, storageCounts
<1>2. object \in ObjectRows /\ versions \subseteq ObjectRows /\ bytes \in [Keys -> 0 .. UploadCount]
      /\ saved \subseteq Backups /\ kept \subseteq Contents
  BY StorageByName DEF ObjectsTyped
<1>3. /\ Made(object, objects, uploads) /\ MadeVersions(versions, objects, uploads)
      /\ \A a \in saved : MadeBackup(a, objects, uploads)
  BY DEF ObjectsTyped, RowsMade
<1>4. /\ \A v \in versions : object.state # "none" /\ v.id = object.id
      /\ ~versioned => versions = {} /\ \A a \in saved : a.versions = {}
  BY DEF ObjectsTyped, VersionsBelong
<1>5. o \in ObjectRows /\ Made(o, objects, uploads)  BY CallNow DEF CallShape
<1>6. b.object = o /\ b.versions = versions  OBVIOUS
<1>7. b \in Backups
  <2>1. [k \in Keys |-> IF \E i \in Items(o, versions) : KeyOf(i) = k THEN bytes[k] ELSE 0]
          \in [Keys -> 0 .. UploadCount]
    BY <1>2
  <2> QED  BY <1>2, <1>5, <2>1 DEF Backups
<1>8. MadeBackup(b, objects, uploads)  BY <1>3, <1>5, <1>6 DEF MadeBackup
<1>9. saved' \subseteq saved \cup {b} /\ StorageEnd(r)  BY DEF ExportVersions
<1> HIDE DEF b
<1>10. \A a \in saved' : MadeBackup(a, objects, uploads)  BY <1>3, <1>8, <1>9
<1>11. ~versioned => versions' = {} /\ \A a \in saved' : a.versions = {}
  BY <1>1, <1>4, <1>6, <1>9
<1>12. saved' \subseteq Backups  BY <1>2, <1>7, <1>9
<1>13. object' \in ObjectRows /\ versions' \subseteq ObjectRows /\ bytes' \in [Keys -> 0 .. UploadCount]
       /\ kept' \subseteq Contents /\ versioned' = versioned
  BY <1>1, <1>2
<1>14. Made(object', objects', uploads') /\ MadeVersions(versions', objects', uploads')
  BY <1>1, <1>3
<1>15. \A v \in versions' : object'.state # "none" /\ v.id = object'.id  BY <1>1, <1>4
<1> QED
  BY <1>1, <1>9, <1>10, <1>11, <1>12, <1>13, <1>14, <1>15, Ends, ObjectsStayTyped

LEMMA RestoreBytesTyped ==
  ASSUME ObjectsTyped, NEW r \in StorageCalls, RestoreBytes(r)
  PROVE  ObjectsTyped'
<1> USE ObjectNumbers
<1>1. objects' = objects /\ uploads' = uploads /\ UNCHANGED <<versioned, object, versions, saved, kept>>
  BY DEF RestoreBytes
<1>2. PICK b \in saved : \E written \in SUBSET KeysOf(b), s \in {"old", "broken"} :
        /\ bytes' = [k \in Keys |-> IF k \in written THEN b.bytes[k] ELSE bytes[k]]
        /\ storageCall' = [storageCall EXCEPT ![r].from = b, ![r].stage = s]
  BY DEF RestoreBytes
<1>11. PICK written \in SUBSET KeysOf(b), s \in {"old", "broken"} :
        /\ bytes' = [k \in Keys |-> IF k \in written THEN b.bytes[k] ELSE bytes[k]]
        /\ storageCall' = [storageCall EXCEPT ![r].from = b, ![r].stage = s]
  BY <1>2
<1> DEFINE d == [storageCall[r] EXCEPT !.from = b, !.stage = s]
<1>3. storageCall \in [StorageCalls -> CallRecords] /\ saved \subseteq Backups
      /\ bytes \in [Keys -> 0 .. UploadCount]
  BY StorageByName DEF ObjectsTyped
<1>4. storageCall[r] \in CallRecords /\ CallShape(storageCall[r], objects, uploads)  BY CallNow
<1>5. b \in Backups /\ MadeBackup(b, objects, uploads) /\ (~versioned => b.versions = {})
  BY <1>3 DEF ObjectsTyped, RowsMade, VersionsBelong
<1>6. d \in CallRecords /\ d.stage = s /\ d.from = b /\ d.found = storageCall[r].found
  <2>1. d \in CallRecords  BY <1>4, <1>5 DEF CallRecords, StorageStages
  <2> QED  BY <1>4, <2>1 DEF CallRecords
<1>7. storageCall' = [storageCall EXCEPT ![r] = d]  BY <1>11, <1>3
<1> HIDE DEF d
<1>8. CallShape(d, objects, uploads)  BY <1>4, <1>5, <1>6 DEF CallShape, Updates
<1>9. bytes' \in [Keys -> 0 .. UploadCount]  BY <1>11, <1>3, <1>5 DEF Backups
<1>10. ~versioned => d.from.versions = {} /\ d.stage # "version"  BY <1>5, <1>6
<1> QED  BY <1>1, <1>6, <1>7, <1>8, <1>9, <1>10, QuietStaysTyped

LEMMA RestoreSelectTyped ==
  ASSUME ObjectsTyped, NEW r \in StorageCalls, RestoreSelect(r)
  PROVE  ObjectsTyped'
<1> USE ObjectNumbers
<1>1. objects' = objects /\ uploads' = uploads /\ UNCHANGED <<versioned, object, versions, saved, kept>>
      /\ bytes' = bytes
  BY DEF RestoreSelect, storageCounts
<1> DEFINE old == {KeyOf(i) : i \in Items(object, versions)}
           d == [storageCall[r] EXCEPT !.stage = "commit", !.old = old]
<1>2. storageCall \in [StorageCalls -> CallRecords] /\ bytes \in [Keys -> 0 .. UploadCount]
  BY StorageByName DEF ObjectsTyped
<1>3. storageCall[r] \in CallRecords /\ CallShape(storageCall[r], objects, uploads)
      /\ (~versioned => storageCall[r].from.versions = {})
  BY CallNow
<1>4. old \in SUBSET Keys
  <2>1. \A i \in Items(object, versions) : KeyOf(i) \in Keys  BY ItemKeys
  <2> QED  BY <2>1
<1>5. storageCall' = [storageCall EXCEPT ![r] = d]  BY <1>2 DEF RestoreSelect
<1> HIDE DEF old
<1>6. d \in CallRecords /\ d.stage = "commit" /\ d.from = storageCall[r].from
      /\ d.found = storageCall[r].found
  <2>1. d \in CallRecords  BY <1>3, <1>4 DEF CallRecords, StorageStages
  <2> QED  BY <1>3, <2>1 DEF CallRecords
<1> HIDE DEF d
<1>7. CallShape(d, objects, uploads)  BY <1>3, <1>6 DEF CallShape, Updates
<1>8. ~versioned => d.from.versions = {} /\ d.stage # "version"  BY <1>3, <1>6
<1> QED  BY <1>1, <1>2, <1>5, <1>6, <1>7, <1>8, QuietStaysTyped

LEMMA RestoreCommitTyped ==
  ASSUME ObjectsTyped, NEW r \in StorageCalls, RestoreCommit(r)
  PROVE  ObjectsTyped'
<1> USE ObjectNumbers
<1> DEFINE b == storageCall[r].from
<1>1. objects' = objects /\ uploads' = uploads /\ versioned' = versioned /\ saved' = saved
      /\ bytes' = bytes
  BY DEF RestoreCommit
<1>2. bytes \in [Keys -> 0 .. UploadCount] /\ saved \subseteq Backups
  BY StorageByName DEF ObjectsTyped
<1>3. /\ \A a \in saved : MadeBackup(a, objects, uploads)
      /\ ~versioned => \A a \in saved : a.versions = {}
  BY DEF ObjectsTyped, RowsMade, VersionsBelong
<1>4. b \in Backups /\ MadeBackup(b, objects, uploads) /\ (~versioned => b.versions = {})
  BY CallNow DEF CallShape
<1>5. CASE Refers(b)
  <2>1. object' = b.object /\ versions' = b.versions /\ StorageGo(r, "clean")
        /\ kept' = {i.content : i \in Items(b.object, b.versions)}
    BY <1>5 DEF RestoreCommit
  <2>2. PICK d \in CallRecords :
          /\ storageCall' = [storageCall EXCEPT ![r] = d] /\ CallShape(d, objects, uploads)
          /\ ~versioned => d.from.versions = {} /\ d.stage # "version"
    BY <2>1, Goes
  <2>3. object' \in ObjectRows /\ versions' \subseteq ObjectRows
    BY <1>4, <2>1 DEF Backups
  <2>4. kept' \subseteq Contents
    <3>1. ASSUME NEW i \in Items(b.object, b.versions) PROVE i.content \in Contents
      <4>1. Made(i, objects, uploads) /\ i # NoObject
        BY <1>4, <3>1 DEF Items, MadeBackup, MadeVersions, NoObject
      <4>2. i.content \in 1 .. uploads  BY <4>1 DEF Made
      <4> QED  BY <4>2 DEF Contents
    <3> QED  BY <2>1, <3>1
  <2>5. Made(object', objects, uploads) /\ MadeVersions(versions', objects, uploads)
    BY <1>4, <2>1 DEF MadeBackup
  <2>6. \A v \in versions' : object'.state # "none" /\ v.id = object'.id
    BY <1>5, <2>1 DEF Refers
  <2>7. ~versioned => versions' = {} /\ \A a \in saved' : a.versions = {}
    BY <1>1, <1>3, <1>4, <2>1
  <2> QED  BY <1>1, <1>2, <1>3, <2>2, <2>3, <2>4, <2>5, <2>6, <2>7, ObjectsStayTyped
<1>6. CASE ~Refers(b)
  <2>1. UNCHANGED <<versioned, object, versions, saved, kept>> /\ StorageEnd(r)
    BY <1>1, <1>6 DEF RestoreCommit
  <2> QED  BY <1>1, <1>2, <2>1, Ends, QuietStaysTyped
<1> QED  BY <1>5, <1>6

LEMMA RestoreCleanTyped ==
  ASSUME ObjectsTyped, NEW r \in StorageCalls, RestoreClean(r)
  PROVE  ObjectsTyped'
<1> USE ObjectNumbers
<1>1. objects' = objects /\ uploads' = uploads /\ UNCHANGED <<versioned, object, versions, saved, kept>>
  BY DEF RestoreClean, storageCounts
<1>2. bytes \in [Keys -> 0 .. UploadCount] /\ 0 \in 0 .. UploadCount
  BY StorageByName DEF ObjectsTyped
<1>3. bytes' \in [Keys -> 0 .. UploadCount]  BY <1>2 DEF RestoreClean
<1>4. StorageEnd(r)  BY DEF RestoreClean
<1> QED  BY <1>1, <1>3, <1>4, Ends, QuietStaysTyped

LEMMA StorageFailsTyped ==
  ASSUME ObjectsTyped, NEW r \in StorageCalls, StorageFails(r)
  PROVE  ObjectsTyped'
<1> USE ObjectNumbers
<1>1. objects' = objects /\ uploads' = uploads /\ UNCHANGED <<versioned, object, versions, saved, kept>>
      /\ bytes' = bytes
  BY DEF StorageFails
<1>2. bytes \in [Keys -> 0 .. UploadCount]  BY StorageByName DEF ObjectsTyped
<1>3. StorageEnd(r)  BY DEF StorageFails
<1> QED  BY <1>1, <1>2, <1>3, Ends, QuietStaysTyped

LEMMA ObjectsTypedInit == StorageInit => ObjectsTyped
<1> SUFFICES ASSUME StorageInit PROVE ObjectsTyped  OBVIOUS
<1>1. ObjectCount \in Nat /\ UploadCount \in Nat  BY StorageAssumption
<1>2. /\ versioned \in BOOLEAN /\ object = NoObject /\ versions = {} /\ saved = {}
      /\ bytes = [k \in Keys |-> 0] /\ storageCall = [r \in StorageCalls |-> NoCall]
      /\ uploads = 0 /\ objects = 0 /\ kept = {}
  BY DEF StorageInit
<1>3. StorageTypeOK  BY <1>1, <1>2, NothingIsTyped, StorageByName
<1>4. RowsMade  BY <1>1, <1>2, NothingIsTyped DEF RowsMade, MadeVersions
<1>5. VersionsBelong
  <2>1. NoCall.from.versions = {} /\ NoCall.stage # "version"  BY NothingIsTyped
  <2> QED  BY <1>2, <2>1 DEF VersionsBelong
<1> QED  BY <1>3, <1>4, <1>5 DEF ObjectsTyped

LEMMA ObjectsTypedStep == ObjectsTyped /\ [StorageNext]_storageVars => ObjectsTyped'
<1> SUFFICES ASSUME ObjectsTyped, [StorageNext]_storageVars PROVE ObjectsTyped'  OBVIOUS
<1>1. CASE UNCHANGED storageVars
  <2>1. UNCHANGED <<versioned, object, versions, bytes, saved, storageCall, uploads, objects, kept>>
    BY <1>1 DEF storageVars
  <2>2. StorageTypeOK'  BY <2>1, StorageByName, StorageByNameNext DEF ObjectsTyped
  <2>3. RowsMade' /\ VersionsBelong'  BY <2>1 DEF ObjectsTyped, RowsMade, VersionsBelong
  <2> QED  BY <2>2, <2>3 DEF ObjectsTyped
<1>2. CASE Undelete  BY <1>2, UndeleteTyped
<1>3. ASSUME NEW r \in StorageCalls,
             \/ UploadFind(r) \/ UploadVersion(r) \/ PutBytes(r) \/ WriteObject(r)
             \/ RemoveFind(r, "softdelete") \/ RemoveFind(r, "bytes")
             \/ SoftDelete(r) \/ DeleteBytes(r) \/ DeleteRow(r)
             \/ ExportObjects(r) \/ ExportVersions(r)
             \/ RestoreBytes(r) \/ RestoreSelect(r) \/ RestoreCommit(r) \/ RestoreClean(r)
             \/ StorageFails(r)
      PROVE  ObjectsTyped'
  BY <1>3, UploadFindTyped, UploadVersionTyped, PutBytesTyped, WriteObjectTyped, FindsTyped,
     SoftDeleteTyped, DeleteBytesTyped, DeleteRowTyped, ExportVersionsTyped, RestoreBytesTyped,
     RestoreSelectTyped, RestoreCommitTyped, RestoreCleanTyped, StorageFailsTyped
<1> QED  BY <1>1, <1>2, <1>3 DEF StorageNext

\* Objects, versions, backups and requests are typed, a version belongs to the
\* row of its path, and every number on a row has been handed out, for any
\* number of requests, uploads and backups (upload, remove, the export and the
\* restore of realStorageEngine.ts).
THEOREM StorageTypesCorrect == StorageSpec => []StorageTypeOK
<1>1. ObjectsTyped => StorageTypeOK  BY DEF ObjectsTyped
<1> QED  BY <1>1, ObjectsTypedInit, ObjectsTypedStep, PTL DEF StorageSpec

-----------------------------------------------------------------------------
(* Objects: what requests that nothing keeps apart know of the rows.         *)

Named(row, id) == row.state # "none" /\ row.id = id
Recorded(o, vs) == \E v \in vs : v.version = o.version
AgreesWith(o, vs) == \A v \in vs : v.version = o.version => v.content = o.content

\* A row above its versions, or one whose own version is recorded: an export
\* that is overtaken by uploads saves such a row.
Topmost(o, vs) ==
  AgreesWith(o, vs) /\ (Recorded(o, vs) \/ \A v \in vs : v.version < o.version)
BackupFits(b) == Refers(b) /\ b.object.state # "none" => Topmost(b.object, b.versions)

\* What has been read of the path is its row or one of its versions.
Known(o, row, vs) ==
  /\ Named(row, o.id) /\ AgreesWith(o, vs)
  /\ Recorded(o, vs) \/ (o.version = row.version /\ o.content = row.content)

CallKnows(c, row, vs, sv, ver) ==
  /\ c.stage \in {"version", "export", "bytes", "droprow"} /\ c.found.state # "none"
       => Known(c.found, row, vs)
  /\ Updates(c) => /\ Known(c.found, row, vs) /\ c.found.version = row.version
                   /\ ver => Recorded(c.found, vs)
                   /\ \A v \in vs : v.version <= row.version
  /\ Creates(c) => ~Named(row, c.id)
  /\ c.stage \in {"old", "commit"} => c.from \in sv

\* Two requests under way at a time: one of them at most has recorded the
\* version it replaces, and no two make the same object.
Compatible(c, e, ver) ==
  /\ c.stage # "idle" /\ e.stage # "idle"
       => ver /\ c.stage \notin Rewriting /\ e.stage \notin Rewriting
  /\ ~(Updates(c) /\ Updates(e))
  /\ Creates(c) /\ Creates(e) => c.id # e.id

Settled ==
  /\ object.state # "none" => Topmost(object, versions)
  /\ \A b \in saved : BackupFits(b)
  /\ \A r \in StorageCalls : CallKnows(storageCall[r], object, versions, saved, versioned)
  /\ \A q, r \in StorageCalls : q # r => Compatible(storageCall[q], storageCall[r], versioned)

SettledUnlessContended == ~contended => Settled

LEMMA IdleFits ==
  ASSUME NEW c, c.stage = "idle"
  PROVE  /\ \A row, vs, sv, ver : CallKnows(c, row, vs, sv, ver)
         /\ \A e, ver : Compatible(c, e, ver)
<1>1. ~Updates(c) /\ ~Creates(c)  BY DEF Updates, Creates
<1> QED  BY <1>1 DEF CallKnows, Compatible

LEMMA SettledLands ==
  ASSUME ObjectsTyped, Settled, NEW r \in StorageCalls, NEW d \in CallRecords,
         storageCall' = [storageCall EXCEPT ![r] = d], versioned' = versioned,
         object'.state # "none" => Topmost(object', versions'),
         \A b \in saved' : BackupFits(b),
         CallKnows(d, object', versions', saved', versioned),
         \A q \in StorageCalls : q # r =>
           CallKnows(storageCall[q], object', versions', saved', versioned),
         \A q \in StorageCalls : q # r => Compatible(d, storageCall[q], versioned)
  PROVE  Settled'
<1>1. storageCall \in [StorageCalls -> CallRecords]  BY StorageByName DEF ObjectsTyped
<1>2. /\ storageCall'[r] = d
      /\ \A q \in StorageCalls : q # r => storageCall'[q] = storageCall[q]
  BY <1>1, CallMoves
<1>3. ASSUME NEW q \in StorageCalls
      PROVE  CallKnows(storageCall'[q], object', versions', saved', versioned')
  BY <1>2
<1>4. ASSUME NEW q \in StorageCalls, NEW p \in StorageCalls, q # p
      PROVE  Compatible(storageCall'[q], storageCall'[p], versioned')
  <2>1. CASE q = r
    <3>1. Compatible(d, storageCall[p], versioned)  BY <1>4, <2>1
    <3> QED  BY <1>2, <1>4, <2>1, <3>1
  <2>2. CASE p = r
    <3>1. Compatible(d, storageCall[q], versioned)  BY <1>4, <2>2
    <3>2. Compatible(storageCall[q], d, versioned)  BY <3>1 DEF Compatible
    <3> QED  BY <1>2, <1>4, <2>2, <3>2
  <2>3. CASE q # r /\ p # r
    <3>1. Compatible(storageCall[q], storageCall[p], versioned)  BY <1>4 DEF Settled
    <3> QED  BY <1>2, <2>3, <3>1
  <2> QED  BY <2>1, <2>2, <2>3
<1> QED  BY <1>3, <1>4 DEF Settled

\* A step that leaves the rows alone.
LEMMA SettledStays ==
  ASSUME ObjectsTyped, Settled, NEW r \in StorageCalls, NEW d \in CallRecords,
         storageCall' = [storageCall EXCEPT ![r] = d],
         UNCHANGED <<versioned, object, versions, saved>>,
         CallKnows(d, object, versions, saved, versioned),
         \A q \in StorageCalls : q # r => Compatible(d, storageCall[q], versioned)
  PROVE  Settled'
<1>1. versioned' = versioned /\ object' = object /\ versions' = versions /\ saved' = saved
  OBVIOUS
<1>2. object'.state # "none" => Topmost(object', versions')  BY <1>1 DEF Settled
<1>3. \A b \in saved' : BackupFits(b)  BY <1>1 DEF Settled
<1>4. CallKnows(d, object', versions', saved', versioned)  BY <1>1
<1>5. \A q \in StorageCalls : q # r =>
        CallKnows(storageCall[q], object', versions', saved', versioned)
  BY <1>1 DEF Settled
<1> QED  BY <1>1, <1>2, <1>3, <1>4, <1>5, SettledLands

\* A request that ends, or fails.
LEMMA SettledEnds ==
  ASSUME ObjectsTyped, Settled, NEW r \in StorageCalls, StorageEnd(r),
         UNCHANGED <<versioned, object, versions, saved>>
  PROVE  Settled'
<1>1. NoCall \in CallRecords /\ storageCall' = [storageCall EXCEPT ![r] = NoCall]  BY Ends
<1>2. NoCall.stage = "idle"  BY NothingIsTyped
<1>3. CallKnows(NoCall, object, versions, saved, versioned)  BY <1>2, IdleFits
<1>4. \A q \in StorageCalls : q # r => Compatible(NoCall, storageCall[q], versioned)
  BY <1>2, IdleFits
<1> QED  BY <1>1, <1>3, <1>4, SettledStays

LEMMA Apart ==
  ASSUME NEW r \in StorageCalls, NEW s, Overlap(r, s), ~contended'
  PROVE  /\ ~contended
         /\ \A q \in StorageCalls : q # r /\ storageCall[q].stage # "idle" =>
              versioned /\ s \notin Rewriting /\ storageCall[q].stage \notin Rewriting
BY DEF Overlap, OthersBusy, StorageAt

\* A request that rewrites rows is alone.
LEMMA OthersIdle ==
  ASSUME Settled, NEW r \in StorageCalls, storageCall[r].stage \in Rewriting
  PROVE  \A q \in StorageCalls : q # r => storageCall[q].stage = "idle"
<1>1. storageCall[r].stage # "idle"  BY DEF Rewriting
<1>2. ASSUME NEW q \in StorageCalls, q # r PROVE storageCall[q].stage = "idle"
  <2>1. Compatible(storageCall[r], storageCall[q], versioned)  BY <1>2 DEF Settled
  <2> QED  BY <1>1, <2>1 DEF Compatible
<1> QED  BY <1>2

\* A request at its next stage is as compatible as it was.
LEMMA StillCompatible ==
  ASSUME Settled, NEW r \in StorageCalls, NEW d, storageCall[r].stage # "idle",
         d.stage \in Rewriting => storageCall[r].stage \in Rewriting,
         Updates(d) => Updates(storageCall[r]),
         Creates(d) => Creates(storageCall[r]) /\ d.id = storageCall[r].id
  PROVE  \A q \in StorageCalls : q # r => Compatible(d, storageCall[q], versioned)
<1>1. ASSUME NEW q \in StorageCalls, q # r PROVE Compatible(d, storageCall[q], versioned)
  <2>1. Compatible(storageCall[r], storageCall[q], versioned)  BY <1>1 DEF Settled
  <2>2. CASE storageCall[r].stage \in Rewriting
    <3>1. storageCall[q].stage = "idle"  BY <1>1, <2>2, OthersIdle
    <3>2. ~Updates(storageCall[q]) /\ ~Creates(storageCall[q])  BY <3>1 DEF Updates, Creates
    <3> QED  BY <3>1, <3>2 DEF Compatible
  <2>3. CASE storageCall[r].stage \notin Rewriting  BY <2>1, <2>3 DEF Compatible
  <2> QED  BY <2>2, <2>3
<1> QED  BY <1>1

LEMMA UploadFindSettled ==
  ASSUME ObjectsTyped, SettledUnlessContended, ~contended', NEW r \in StorageCalls, UploadFind(r)
  PROVE  Settled'
<1> USE ObjectNumbers
<1> DEFINE d == IF object.state = "live"
       THEN [NoCall EXCEPT !.stage = IF versioned THEN "version" ELSE "put",
                           !.found = object, !.content = uploads + 1]
       ELSE [NoCall EXCEPT !.stage = "put", !.id = objects + 1, !.content = uploads + 1]
<1>1. storageCall' = [storageCall EXCEPT ![r] = d]  BY DEF UploadFind
<1>2. UNCHANGED <<versioned, object, versions, saved>>  BY DEF UploadFind
<1>3. ~contended /\ \A q \in StorageCalls : q # r /\ storageCall[q].stage # "idle" =>
        versioned /\ storageCall[q].stage \notin Rewriting
  BY Apart DEF UploadFind
<1>4. Settled  BY <1>3 DEF SettledUnlessContended
<1>5. ObjectsTyped'  BY UploadFindTyped
<1>6. storageCall \in [StorageCalls -> CallRecords] /\ storageCall' \in [StorageCalls -> CallRecords]
  BY <1>5 DEF ObjectsTyped, StorageTypeOK, CallRecords, StorageStages
<1>7. d \in CallRecords
  <2>1. storageCall'[r] = d  BY <1>1, <1>6
  <2> QED  BY <1>6, <2>1
<1>8. d.stage \in {"version", "put"}
      /\ (d.id = 0 => object.state = "live" /\ d.found = object /\ (d.stage = "put" => ~versioned))
      /\ (d.id # 0 => d.id = objects + 1 /\ d.stage = "put")
      /\ (d.stage = "version" => d.id = 0)
  <2>1. NoCall \in CallRecords /\ NoCall.id = 0  BY NothingIsTyped DEF NoCall
  <2>2. CASE object.state = "live"
    <3>1. d = [NoCall EXCEPT !.stage = IF versioned THEN "version" ELSE "put",
                             !.found = object, !.content = uploads + 1]
      BY <2>2
    <3> HIDE DEF d
    <3> QED  BY <2>1, <2>2, <3>1 DEF CallRecords
  <2>3. CASE object.state # "live"
    <3>1. d = [NoCall EXCEPT !.stage = "put", !.id = objects + 1, !.content = uploads + 1]
      BY <2>3
    <3> HIDE DEF d
    <3> QED  BY <2>1, <2>3, <3>1 DEF CallRecords
  <2> QED  BY <2>2, <2>3
<1> HIDE DEF d
<1>9. object.state # "none" => object.id <= objects /\ Topmost(object, versions)
  <2>1. Made(object, objects, uploads)  BY DEF ObjectsTyped, RowsMade
  <2> QED  BY <1>4, <2>1 DEF Made, NoObject, Settled
<1>10. CallKnows(d, object, versions, saved, versioned)
  <2>1. d.id = 0 => Known(d.found, object, versions)
    BY <1>8, <1>9 DEF Known, Named, Topmost
  <2>2. d.id # 0 => ~Named(object, d.id)  BY <1>8, <1>9 DEF Named
  <2>3. Updates(d) => ~versioned /\ versions = {} /\ d.found = object
    BY <1>8 DEF Updates, ObjectsTyped, VersionsBelong
  <2> QED  BY <1>8, <2>1, <2>2, <2>3 DEF CallKnows, Updates, Creates
<1>11. ASSUME NEW q \in StorageCalls, q # r PROVE Compatible(d, storageCall[q], versioned)
  <2>1. CASE storageCall[q].stage = "idle"
    BY <2>1 DEF Compatible, Updates, Creates
  <2>2. CASE storageCall[q].stage # "idle"
    <3>1. versioned /\ storageCall[q].stage \notin Rewriting  BY <1>3, <1>11, <2>2
    <3>2. d.stage \notin Rewriting  BY <1>8 DEF Rewriting
    <3>3. ~Updates(d)  BY <1>8, <3>1 DEF Updates
    <3>4. Creates(d) /\ Creates(storageCall[q]) => d.id # storageCall[q].id
      <4>1. CallShape(storageCall[q], objects, uploads)  BY CallNow
      <4> QED  BY <1>8, <4>1 DEF Creates, CallShape
    <3> QED  BY <3>1, <3>2, <3>3, <3>4 DEF Compatible
  <2> QED  BY <2>1, <2>2
<1> QED  BY <1>1, <1>2, <1>4, <1>7, <1>10, <1>11, SettledStays

\* Of two uploads that read the same row the first to record it goes on.
LEMMA UploadVersionSettled ==
  ASSUME ObjectsTyped, SettledUnlessContended, ~contended', NEW r \in StorageCalls,
         UploadVersion(r)
  PROVE  Settled'
<1> USE ObjectNumbers
<1> DEFINE c == storageCall[r]
           o == c.found
<1>1. Settled /\ versioned' = versioned /\ object' = object /\ saved' = saved
  BY DEF UploadVersion, SettledUnlessContended, storageCounts
<1>2. c.stage = "version" /\ versioned /\ c.id = 0 /\ o.state = "live"
      /\ o \in ObjectRows /\ Made(o, objects, uploads)
  BY CallNow DEF UploadVersion, StorageAt, CallShape
<1>3. CASE IsRow(o.id) /\ ~VersionTaken(o)
  <2>1. versions' = versions \cup {o} /\ StorageGo(r, "put")  BY <1>3 DEF UploadVersion
  <2>2. PICK d \in CallRecords :
          /\ storageCall' = [storageCall EXCEPT ![r] = d]
          /\ d.stage = "put" /\ d.found = o /\ d.id = c.id
    BY <1>2, <2>1, Goes
  <2>3. Known(o, object, versions)  BY <1>1, <1>2 DEF Settled, CallKnows
  <2>4. \A v \in versions : v.id = object.id  BY DEF ObjectsTyped, VersionsBelong
  <2>5. ~Recorded(o, versions)
    BY <1>3, <2>4 DEF VersionTaken, Recorded, IsRow
  <2>6. o.version = object.version /\ o.content = object.content /\ object.state # "none"
        /\ object.id = o.id
    BY <2>3, <2>5 DEF Known, Named
  <2>7. Topmost(object, versions) /\ \A v \in versions : v.version < object.version
    BY <1>1, <2>5, <2>6 DEF Settled, Topmost, Recorded
  <2>8. \A v \in versions : v.version \in Nat
    <3>1. versions \subseteq ObjectRows  BY StorageByName DEF ObjectsTyped
    <3> QED  BY <3>1 DEF ObjectRows
  <2>9. Topmost(object', versions')
    BY <1>1, <2>1, <2>6, <2>7 DEF Topmost, AgreesWith, Recorded
  <2>10. Known(o, object', versions') /\ Recorded(o, versions')
    BY <1>1, <2>1, <2>3, <2>6 DEF Known, AgreesWith, Recorded
  <2>11. \A v \in versions' : v.version <= object'.version
    <3>1. object.version \in Nat  BY StorageByName DEF ObjectsTyped, ObjectRows
    <3> QED  BY <1>1, <2>1, <2>6, <2>7, <2>8, <3>1
  <2>12. CallKnows(d, object', versions', saved', versioned)
    BY <1>1, <1>2, <2>2, <2>6, <2>10, <2>11 DEF CallKnows, Creates
  <2>13. ASSUME NEW q \in StorageCalls, q # r
         PROVE  /\ CallKnows(storageCall[q], object', versions', saved', versioned)
                /\ ~Updates(storageCall[q])
    <3> DEFINE e == storageCall[q]
    <3>1. CallKnows(e, object, versions, saved, versioned)  BY <1>1 DEF Settled
    <3>2. ~Updates(e)  BY <1>2, <2>5, <2>6, <3>1 DEF CallKnows, Recorded
    <3>3. ASSUME Known(e.found, object, versions) PROVE Known(e.found, object', versions')
      <4>1. Recorded(e.found, versions)
              \/ (e.found.version = object.version /\ e.found.content = object.content)
        BY <3>3 DEF Known
      <4>2. e.found.version = o.version => e.found.content = o.content
        BY <2>5, <2>6, <4>1 DEF Recorded
      <4>3. AgreesWith(e.found, versions')  BY <2>1, <3>3, <4>2 DEF Known, AgreesWith
      <4>4. Recorded(e.found, versions) => Recorded(e.found, versions')  BY <2>1 DEF Recorded
      <4> QED  BY <1>1, <3>3, <4>1, <4>3, <4>4 DEF Known
    <3> QED  BY <1>1, <3>1, <3>2, <3>3 DEF CallKnows
  <2>14. ASSUME NEW q \in StorageCalls, q # r PROVE Compatible(d, storageCall[q], versioned)
    <3>1. Compatible(c, storageCall[q], versioned)  BY <1>1, <2>14 DEF Settled
    <3>2. d.stage \notin Rewriting /\ ~Creates(d)  BY <1>2, <2>2 DEF Rewriting, Creates
    <3> QED  BY <1>2, <2>13, <2>14, <3>1, <3>2 DEF Compatible
  <2>15. \A b \in saved' : BackupFits(b)  BY <1>1 DEF Settled
  <2>16. \A q \in StorageCalls : q # r =>
           CallKnows(storageCall[q], object', versions', saved', versioned)
    BY <2>13
  <2> QED  BY <1>1, <2>2, <2>9, <2>12, <2>14, <2>15, <2>16, SettledLands
<1>4. CASE ~(IsRow(o.id) /\ ~VersionTaken(o))
  <2>1. UNCHANGED <<versioned, object, versions, saved>> /\ StorageEnd(r)
    BY <1>1, <1>4 DEF UploadVersion
  <2> QED  BY <1>1, <2>1, SettledEnds
<1> QED  BY <1>3, <1>4

LEMMA PutBytesSettled ==
  ASSUME ObjectsTyped, SettledUnlessContended, ~contended', NEW r \in StorageCalls, PutBytes(r)
  PROVE  Settled'
<1>1. Settled /\ UNCHANGED <<versioned, object, versions, saved>>
  BY DEF PutBytes, SettledUnlessContended, storageCounts
<1>2. storageCall[r].stage = "put" /\ StorageGo(r, "row")  BY DEF PutBytes, StorageAt
<1>3. PICK d \in CallRecords :
        /\ storageCall' = [storageCall EXCEPT ![r] = d]
        /\ d.stage = "row" /\ d.found = storageCall[r].found /\ d.id = storageCall[r].id
  BY <1>2, Goes
<1>4. (Updates(d) <=> Updates(storageCall[r])) /\ (Creates(d) <=> Creates(storageCall[r]))
      /\ d.stage \notin Rewriting
  BY <1>2, <1>3 DEF Updates, Creates, Rewriting
<1>5. CallKnows(d, object, versions, saved, versioned)
  <2>1. CallKnows(storageCall[r], object, versions, saved, versioned)  BY <1>1 DEF Settled
  <2> QED  BY <1>3, <1>4, <2>1 DEF CallKnows
<1>6. \A q \in StorageCalls : q # r => Compatible(d, storageCall[q], versioned)
  BY <1>1, <1>2, <1>3, <1>4, StillCompatible
<1> QED  BY <1>1, <1>3, <1>5, <1>6, SettledStays

LEMMA WriteObjectSettled ==
  ASSUME ObjectsTyped, SettledUnlessContended, ~contended', NEW r \in StorageCalls,
         WriteObject(r)
  PROVE  Settled'
<1> USE ObjectNumbers
<1> DEFINE c == storageCall[r]
           o == NextVersion(r)
<1>1. Settled /\ versioned' = versioned /\ versions' = versions /\ saved' = saved
  BY DEF WriteObject, SettledUnlessContended, storageCounts
<1>2. c.stage = "row" /\ StorageEnd(r)  BY DEF WriteObject, StorageAt
<1>3. NoCall \in CallRecords /\ storageCall' = [storageCall EXCEPT ![r] = NoCall]
  BY <1>2, Ends
<1>4. NoCall.stage = "idle"  BY NothingIsTyped
<1>5. CallKnows(NoCall, object', versions', saved', versioned)  BY <1>4, IdleFits
<1>6. \A q \in StorageCalls : q # r => Compatible(NoCall, storageCall[q], versioned)
  BY <1>4, IdleFits
<1>7. \A b \in saved' : BackupFits(b)  BY <1>1 DEF Settled
<1>8. o.state = "live" /\ (c.id = 0 => o.id = c.found.id /\ o.version = c.found.version + 1)
      /\ (c.id # 0 => o.id = c.id)
  BY <1>2, NextIsMade
<1>9. ASSUME NEW q \in StorageCalls, q # r
      PROVE  /\ CallKnows(storageCall[q], object, versions, saved, versioned)
             /\ Compatible(storageCall[q], c, versioned)
  BY <1>1, <1>9 DEF Settled
<1>10. CASE c.id = 0 /\ IsRow(c.found.id)
  <2>1. object' = o  BY <1>10 DEF WriteObject
  <2>2. Updates(c) /\ c.stage # "idle"  BY <1>2, <1>10 DEF Updates
  <2>3. /\ c.found.version = object.version /\ object.id = c.found.id /\ object.state # "none"
        /\ versioned => Recorded(c.found, versions)
        /\ \A v \in versions : v.version <= object.version
    BY <1>1, <2>2 DEF Settled, CallKnows, Known, Named
  <2>4. object.version \in Nat /\ \A v \in versions : v.version \in Nat
    <3>1. object \in ObjectRows /\ versions \subseteq ObjectRows
      BY StorageByName DEF ObjectsTyped
    <3> QED  BY <3>1 DEF ObjectRows
  <2>5. object'.version = object.version + 1 /\ object'.id = object.id /\ object'.state = "live"
    BY <1>8, <1>10, <2>1, <2>3
  <2>6. \A v \in versions' : v.version < object'.version  BY <1>1, <2>3, <2>4, <2>5
  <2>7. Topmost(object', versions')
    BY <2>4, <2>5, <2>6 DEF Topmost, AgreesWith
  <2>8. ASSUME NEW q \in StorageCalls, q # r
        PROVE  CallKnows(storageCall[q], object', versions', saved', versioned)
    <3> DEFINE e == storageCall[q]
    <3>1. CallKnows(e, object, versions, saved, versioned) /\ Compatible(e, c, versioned)
      BY <1>9, <2>8
    <3>2. ~Updates(e)  BY <2>2, <3>1 DEF Compatible
    <3>3. ASSUME Known(e.found, object, versions), e.stage # "idle"
          PROVE  Known(e.found, object', versions')
      <4>1. versioned  BY <2>2, <3>1, <3>3 DEF Compatible
      <4>2. Recorded(e.found, versions)  BY <2>3, <3>3, <4>1 DEF Known, Recorded
      <4> QED  BY <1>1, <2>5, <3>3, <4>2 DEF Known, Named
    <3> QED  BY <1>1, <2>5, <2>3, <3>1, <3>2, <3>3 DEF CallKnows, Named
  <2>9. object'.state # "none" => Topmost(object', versions')  BY <2>7
  <2> QED  BY <1>1, <1>3, <1>5, <1>6, <1>7, <2>8, <2>9, SettledLands
<1>11. CASE c.id # 0 /\ object.state = "none"
  <2>1. object' = o  BY <1>11 DEF WriteObject
  <2>2. versions = {}  BY <1>11 DEF ObjectsTyped, VersionsBelong
  <2>3. Topmost(object', versions')  BY <1>1, <2>2 DEF Topmost, AgreesWith
  <2>4. Creates(c)  BY <1>2, <1>11 DEF Creates
  <2>5. ASSUME NEW q \in StorageCalls, q # r
        PROVE  CallKnows(storageCall[q], object', versions', saved', versioned)
    <3> DEFINE e == storageCall[q]
    <3>1. CallKnows(e, object, versions, saved, versioned) /\ Compatible(e, c, versioned)
      BY <1>9, <2>5
    <3>2. ~Known(e.found, object, versions)  BY <1>11 DEF Known, Named
    <3>3. Creates(e) => ~Named(object', e.id)
      BY <1>8, <1>11, <2>1, <2>4, <3>1 DEF Compatible, Named
    <3> QED  BY <1>1, <3>1, <3>2, <3>3 DEF CallKnows
  <2>6. object'.state # "none" => Topmost(object', versions')  BY <2>3
  <2> QED  BY <1>1, <1>3, <1>5, <1>6, <1>7, <2>5, <2>6, SettledLands
<1>12. CASE ~(c.id = 0 /\ IsRow(c.found.id)) /\ ~(c.id # 0 /\ object.state = "none")
  <2>1. object' = object  BY <1>12 DEF WriteObject
  <2> QED  BY <1>1, <1>2, <2>1, SettledEnds
<1> QED  BY <1>10, <1>11, <1>12

LEMMA FindsSettled ==
  ASSUME ObjectsTyped, SettledUnlessContended, ~contended', NEW r \in StorageCalls,
         (\E s \in {"softdelete", "bytes"} : RemoveFind(r, s)) \/ ExportObjects(r)
  PROVE  Settled'
<1>1. PICK s \in {"softdelete", "bytes", "export"} :
        /\ storageCall' = [storageCall EXCEPT ![r] = [NoCall EXCEPT !.stage = s, !.found = object]]
        /\ Overlap(r, s)
  BY DEF RemoveFind, ExportObjects
<1> DEFINE d == [NoCall EXCEPT !.stage = s, !.found = object]
<1>2. UNCHANGED <<versioned, object, versions, saved>>
  BY DEF RemoveFind, ExportObjects, storageCounts
<1>3. ~contended /\ \A q \in StorageCalls : q # r /\ storageCall[q].stage # "idle" =>
        versioned /\ s \notin Rewriting /\ storageCall[q].stage \notin Rewriting
  BY <1>1, Apart
<1>4. Settled  BY <1>3 DEF SettledUnlessContended
<1>5. object \in ObjectRows  BY StorageByName DEF ObjectsTyped
<1>6. d \in CallRecords /\ d.stage = s /\ d.found = object
  <2>1. NoCall \in CallRecords  BY NothingIsTyped
  <2>2. d \in CallRecords  BY <1>5, <2>1 DEF CallRecords, StorageStages
  <2> QED  BY <2>1, <2>2 DEF CallRecords
<1>7. storageCall' = [storageCall EXCEPT ![r] = d]  BY <1>1
<1> HIDE DEF d
<1>8. ~Updates(d) /\ ~Creates(d)  BY <1>6 DEF Updates, Creates
<1>9. object.state # "none" => Known(object, object, versions)
  BY <1>4 DEF Settled, Topmost, Known, Named
<1>10. CallKnows(d, object, versions, saved, versioned)
  BY <1>6, <1>8, <1>9 DEF CallKnows
<1>11. \A q \in StorageCalls : q # r => Compatible(d, storageCall[q], versioned)
  BY <1>3, <1>6, <1>8 DEF Compatible
<1> QED  BY <1>2, <1>4, <1>6, <1>7, <1>10, <1>11, SettledStays

\* Neither a soft deletion nor its reversal changes what is known of the row.
LEMMA SameRow ==
  ASSUME NEW row, NEW row2, row2.id = row.id, row2.version = row.version,
         row2.content = row.content, row.state # "none", row2.state # "none"
  PROVE  /\ \A vs : Topmost(row, vs) <=> Topmost(row2, vs)
         /\ \A c, vs, sv, ver : CallKnows(c, row, vs, sv, ver) => CallKnows(c, row2, vs, sv, ver)
<1>1. \A vs : Topmost(row, vs) <=> Topmost(row2, vs)  BY DEF Topmost, AgreesWith, Recorded
<1>2. \A o, vs : Known(o, row, vs) => Known(o, row2, vs)  BY DEF Known, Named
<1>3. \A id : Named(row, id) <=> Named(row2, id)  BY DEF Named
<1>4. ASSUME NEW c, NEW vs, NEW sv, NEW ver, CallKnows(c, row, vs, sv, ver)
      PROVE  CallKnows(c, row2, vs, sv, ver)
  BY <1>2, <1>3, <1>4 DEF CallKnows
<1> QED  BY <1>1, <1>4

LEMMA SoftDeleteSettled ==
  ASSUME ObjectsTyped, SettledUnlessContended, ~contended', NEW r \in StorageCalls, SoftDelete(r)
  PROVE  Settled'
<1>1. Settled /\ versioned' = versioned /\ versions' = versions /\ saved' = saved /\ StorageEnd(r)
  BY DEF SoftDelete, SettledUnlessContended, storageCounts
<1>2. NoCall \in CallRecords /\ storageCall' = [storageCall EXCEPT ![r] = NoCall]
  BY <1>1, Ends
<1>3. NoCall.stage = "idle"  BY NothingIsTyped
<1>4. CASE IsRow(storageCall[r].found.id)
  <2>1. object' = [object EXCEPT !.state = "deleted"] /\ object \in ObjectRows
    BY <1>4, StorageByName DEF SoftDelete, ObjectsTyped
  <2>2. object'.id = object.id /\ object'.version = object.version
        /\ object'.content = object.content /\ object.state # "none" /\ object'.state # "none"
    BY <1>4, <2>1 DEF ObjectRows, IsRow
  <2>3. /\ \A vs : Topmost(object, vs) <=> Topmost(object', vs)
        /\ \A c, vs, sv, ver :
             CallKnows(c, object, vs, sv, ver) => CallKnows(c, object', vs, sv, ver)
    BY <2>2, SameRow
  <2>4. object'.state # "none" => Topmost(object', versions')
    BY <1>1, <2>2, <2>3 DEF Settled
  <2>5. CallKnows(NoCall, object', versions', saved', versioned)  BY <1>3, IdleFits
  <2>6. \A q \in StorageCalls : q # r =>
          CallKnows(storageCall[q], object', versions', saved', versioned)
    BY <1>1, <2>3 DEF Settled
  <2>7. \A q \in StorageCalls : q # r => Compatible(NoCall, storageCall[q], versioned)
    BY <1>3, IdleFits
  <2>8. \A b \in saved' : BackupFits(b)  BY <1>1 DEF Settled
  <2> QED  BY <1>1, <1>2, <2>4, <2>5, <2>6, <2>7, <2>8, SettledLands
<1>5. CASE ~IsRow(storageCall[r].found.id)
  <2>1. object' = object  BY <1>5 DEF SoftDelete
  <2> QED  BY <1>1, <2>1, SettledEnds
<1> QED  BY <1>4, <1>5

LEMMA UndeleteSettled ==
  ASSUME ObjectsTyped, SettledUnlessContended, ~contended', Undelete
  PROVE  Settled'
<1>1. Settled /\ UNCHANGED <<versioned, versions, saved, storageCall>>
  BY DEF Undelete, SettledUnlessContended, storageCounts
<1>2. object' = [object EXCEPT !.state = "live"] /\ object \in ObjectRows
      /\ object.state = "deleted"
  BY StorageByName DEF Undelete, ObjectsTyped
<1>3. object'.id = object.id /\ object'.version = object.version
      /\ object'.content = object.content /\ object.state # "none" /\ object'.state # "none"
  BY <1>2 DEF ObjectRows
<1>4. /\ \A vs : Topmost(object, vs) <=> Topmost(object', vs)
      /\ \A c, vs, sv, ver :
           CallKnows(c, object, vs, sv, ver) => CallKnows(c, object', vs, sv, ver)
  BY <1>3, SameRow
<1> QED  BY <1>1, <1>3, <1>4 DEF Settled

LEMMA DeleteBytesSettled ==
  ASSUME ObjectsTyped, SettledUnlessContended, ~contended', NEW r \in StorageCalls, DeleteBytes(r)
  PROVE  Settled'
<1>1. Settled /\ UNCHANGED <<versioned, object, versions, saved>>
  BY DEF DeleteBytes, SettledUnlessContended, storageCounts
<1>2. storageCall[r].stage = "bytes" /\ StorageGo(r, "droprow")  BY DEF DeleteBytes, StorageAt
<1>3. PICK d \in CallRecords :
        /\ storageCall' = [storageCall EXCEPT ![r] = d]
        /\ d.stage = "droprow" /\ d.found = storageCall[r].found
  BY <1>2, Goes
<1>4. ~Updates(d) /\ ~Creates(d) /\ storageCall[r].stage \in Rewriting
  BY <1>2, <1>3 DEF Updates, Creates, Rewriting
<1>5. CallKnows(d, object, versions, saved, versioned)
  <2>1. CallKnows(storageCall[r], object, versions, saved, versioned)  BY <1>1 DEF Settled
  <2> QED  BY <1>2, <1>3, <1>4, <2>1 DEF CallKnows
<1>6. \A q \in StorageCalls : q # r => Compatible(d, storageCall[q], versioned)
  BY <1>1, <1>2, <1>4, StillCompatible
<1> QED  BY <1>1, <1>3, <1>5, <1>6, SettledStays

\* Rows are replaced only by a request that is alone.
LEMMA SettledAlone ==
  ASSUME ObjectsTyped, Settled, NEW r \in StorageCalls, storageCall[r].stage \in Rewriting,
         NEW d \in CallRecords, storageCall' = [storageCall EXCEPT ![r] = d],
         versioned' = versioned, saved' = saved, d.stage \in {"idle", "clean"},
         object'.state # "none" => Topmost(object', versions')
  PROVE  Settled'
<1>1. \A q \in StorageCalls : q # r => storageCall[q].stage = "idle"  BY OthersIdle
<1>2. \A q \in StorageCalls : q # r =>
        CallKnows(storageCall[q], object', versions', saved', versioned)
  BY <1>1, IdleFits
<1>3. ~Updates(d) /\ ~Creates(d)  BY DEF Updates, Creates
<1>4. CallKnows(d, object', versions', saved', versioned)  BY <1>3 DEF CallKnows
<1>5. \A q \in StorageCalls : q # r => Compatible(d, storageCall[q], versioned)
  BY <1>1, <1>3 DEF Compatible
<1>6. \A b \in saved' : BackupFits(b)  BY DEF Settled
<1> QED  BY <1>2, <1>4, <1>5, <1>6, SettledLands

LEMMA DeleteRowSettled ==
  ASSUME ObjectsTyped, SettledUnlessContended, ~contended', NEW r \in StorageCalls, DeleteRow(r)
  PROVE  Settled'
<1>1. Settled /\ versioned' = versioned /\ saved' = saved /\ StorageEnd(r)
  BY DEF DeleteRow, SettledUnlessContended, storageCounts
<1>2. storageCall[r].stage \in Rewriting  BY DEF DeleteRow, StorageAt, Rewriting
<1>3. NoCall \in CallRecords /\ storageCall' = [storageCall EXCEPT ![r] = NoCall]
  BY <1>1, Ends
<1>4. NoCall.stage = "idle"  BY NothingIsTyped
<1>5. object'.state # "none" => Topmost(object', versions')
  BY <1>1 DEF DeleteRow, NoObject, Settled
<1> QED  BY <1>1, <1>2, <1>3, <1>4, <1>5, SettledAlone

LEMMA ExportVersionsSettled ==
  ASSUME ObjectsTyped, SettledUnlessContended, ~contended', NEW r \in StorageCalls,
         ExportVersions(r)
  PROVE  Settled'
<1> DEFINE o == storageCall[r].found
           b == [object |-> o, versions |-> versions,
                 bytes |-> [k \in Keys |-> IF \E i \in Items(o, versions) : KeyOf(i) = k
                                          THEN bytes[k] ELSE 0]]
<1>1. Settled /\ UNCHANGED <<versioned, object, versions>> /\ StorageEnd(r)
      /\ saved \subseteq saved' /\ saved' \subseteq saved \cup {b}
  BY DEF ExportVersions, SettledUnlessContended, storageCounts
<1>2. NoCall \in CallRecords /\ storageCall' = [storageCall EXCEPT ![r] = NoCall]
  BY <1>1, Ends
<1>3. NoCall.stage = "idle"  BY NothingIsTyped
<1>4. BackupFits(b)
  <2>1. b.object = o /\ b.versions = versions  OBVIOUS
  <2> HIDE DEF b
  <2>2. ASSUME o.state # "none" PROVE Topmost(o, versions)
    <3>1. Known(o, object, versions)  BY <1>1, <2>2 DEF ExportVersions, StorageAt, Settled, CallKnows
    <3>2. CASE Recorded(o, versions)  BY <3>1, <3>2 DEF Known, Topmost
    <3>3. CASE ~Recorded(o, versions)
      <4>1. o.version = object.version /\ Topmost(object, versions)
        BY <1>1, <3>1, <3>3 DEF Known, Named, Settled
      <4> QED  BY <3>1, <3>3, <4>1 DEF Topmost, Known, Recorded
    <3> QED  BY <3>2, <3>3
  <2> QED  BY <2>1, <2>2 DEF BackupFits
<1> HIDE DEF b
<1>5. \A a \in saved' : BackupFits(a)  BY <1>1, <1>4 DEF Settled
<1>6. \A q \in StorageCalls : q # r =>
        CallKnows(storageCall[q], object', versions', saved', versioned)
  BY <1>1 DEF Settled, CallKnows
<1>7. CallKnows(NoCall, object', versions', saved', versioned)  BY <1>3, IdleFits
<1>8. \A q \in StorageCalls : q # r => Compatible(NoCall, storageCall[q], versioned)
  BY <1>3, IdleFits
<1>9. object'.state # "none" => Topmost(object', versions')  BY <1>1 DEF Settled
<1> QED  BY <1>1, <1>2, <1>5, <1>6, <1>7, <1>8, <1>9, SettledLands

LEMMA RestoreBytesSettled ==
  ASSUME ObjectsTyped, SettledUnlessContended, ~contended', NEW r \in StorageCalls, RestoreBytes(r)
  PROVE  Settled'
<1>1. UNCHANGED <<versioned, object, versions, saved>>  BY DEF RestoreBytes
<1>2. PICK b \in saved, s \in {"old", "broken"} :
        storageCall' = [storageCall EXCEPT ![r].from = b, ![r].stage = s]
  BY DEF RestoreBytes
<1> DEFINE d == [storageCall[r] EXCEPT !.from = b, !.stage = s]
<1>3. ~contended /\ \A q \in StorageCalls : q # r => storageCall[q].stage = "idle"
  <2>1. Overlap(r, "old") /\ "old" \in Rewriting  BY DEF RestoreBytes, Rewriting
  <2> QED  BY <2>1, Apart
<1>4. Settled  BY <1>3 DEF SettledUnlessContended
<1>5. storageCall \in [StorageCalls -> CallRecords] /\ saved \subseteq Backups
  BY StorageByName DEF ObjectsTyped
<1>6. d \in CallRecords /\ d.stage = s /\ d.from = b
  <2>1. storageCall[r] \in CallRecords  BY <1>5
  <2>2. d \in CallRecords  BY <1>5, <2>1 DEF CallRecords, StorageStages
  <2> QED  BY <2>1, <2>2 DEF CallRecords
<1>7. storageCall' = [storageCall EXCEPT ![r] = d]  BY <1>2, <1>5
<1> HIDE DEF d
<1>8. ~Updates(d) /\ ~Creates(d)  BY <1>6 DEF Updates, Creates
<1>9. CallKnows(d, object, versions, saved, versioned)  BY <1>6, <1>8 DEF CallKnows
<1>10. \A q \in StorageCalls : q # r => Compatible(d, storageCall[q], versioned)
  BY <1>3, <1>8 DEF Compatible
<1> QED  BY <1>1, <1>4, <1>6, <1>7, <1>9, <1>10, SettledStays

LEMMA RestoreSelectSettled ==
  ASSUME ObjectsTyped, SettledUnlessContended, ~contended', NEW r \in StorageCalls,
         RestoreSelect(r)
  PROVE  Settled'
<1>1. Settled /\ UNCHANGED <<versioned, object, versions, saved>> /\ storageCall[r].stage = "old"
  BY DEF RestoreSelect, SettledUnlessContended, storageCounts, StorageAt
<1> DEFINE old == {KeyOf(i) : i \in Items(object, versions)}
           d == [storageCall[r] EXCEPT !.stage = "commit", !.old = old]
<1>2. storageCall \in [StorageCalls -> CallRecords]  BY StorageByName DEF ObjectsTyped
<1>3. storageCall' = [storageCall EXCEPT ![r] = d]  BY <1>2 DEF RestoreSelect
<1>4. ObjectsTyped'  BY RestoreSelectTyped
<1>5. storageCall'[r] = d /\ storageCall' \in [StorageCalls -> CallRecords]
  BY <1>2, <1>3, <1>4 DEF ObjectsTyped, StorageTypeOK, CallRecords, StorageStages
<1> HIDE DEF old
<1>6. d \in CallRecords /\ d.stage = "commit" /\ d.from = storageCall[r].from
  <2>1. storageCall[r] \in CallRecords  BY <1>2
  <2> QED  BY <1>5, <2>1 DEF CallRecords
<1> HIDE DEF d
<1>7. ~Updates(d) /\ ~Creates(d) /\ storageCall[r].stage \in Rewriting
  BY <1>1, <1>6 DEF Updates, Creates, Rewriting
<1>8. storageCall[r].from \in saved  BY <1>1 DEF Settled, CallKnows
<1>9. CallKnows(d, object, versions, saved, versioned)  BY <1>6, <1>7, <1>8 DEF CallKnows
<1>10. \A q \in StorageCalls : q # r => Compatible(d, storageCall[q], versioned)
  BY <1>1, <1>7, StillCompatible
<1> QED  BY <1>1, <1>3, <1>6, <1>9, <1>10, SettledStays

LEMMA RestoreCommitSettled ==
  ASSUME ObjectsTyped, SettledUnlessContended, ~contended', NEW r \in StorageCalls,
         RestoreCommit(r)
  PROVE  Settled'
<1> DEFINE b == storageCall[r].from
<1>1. Settled /\ versioned' = versioned /\ saved' = saved /\ storageCall[r].stage = "commit"
  BY DEF RestoreCommit, SettledUnlessContended, StorageAt
<1>2. storageCall[r].stage \in Rewriting  BY <1>1 DEF Rewriting
<1>3. CASE Refers(b)
  <2>1. object' = b.object /\ versions' = b.versions /\ StorageGo(r, "clean")
    BY <1>3 DEF RestoreCommit
  <2>2. PICK d \in CallRecords :
          storageCall' = [storageCall EXCEPT ![r] = d] /\ d.stage = "clean"
    BY <2>1, Goes
  <2>3. b \in saved  BY <1>1 DEF Settled, CallKnows
  <2>4. object'.state # "none" => Topmost(object', versions')
    BY <1>1, <1>3, <2>1, <2>3 DEF Settled, BackupFits
  <2> QED  BY <1>1, <1>2, <2>2, <2>4, SettledAlone
<1>4. CASE ~Refers(b)
  <2>1. StorageEnd(r) /\ UNCHANGED <<versioned, object, versions, saved>>
    BY <1>1, <1>4 DEF RestoreCommit
  <2> QED  BY <1>1, <2>1, SettledEnds
<1> QED  BY <1>3, <1>4

LEMMA RestoreCleanSettled ==
  ASSUME ObjectsTyped, SettledUnlessContended, ~contended', NEW r \in StorageCalls, RestoreClean(r)
  PROVE  Settled'
<1>1. Settled /\ UNCHANGED <<versioned, object, versions, saved>> /\ StorageEnd(r)
  BY DEF RestoreClean, SettledUnlessContended, storageCounts
<1> QED  BY <1>1, SettledEnds

LEMMA StorageFailsSettled ==
  ASSUME ObjectsTyped, SettledUnlessContended, ~contended', NEW r \in StorageCalls, StorageFails(r)
  PROVE  Settled'
<1>1. Settled /\ UNCHANGED <<versioned, object, versions, saved>> /\ StorageEnd(r)
  BY DEF StorageFails, SettledUnlessContended
<1> QED  BY <1>1, SettledEnds

LEMMA SettledStep ==
  ObjectsTyped /\ SettledUnlessContended /\ [StorageNext]_storageVars => SettledUnlessContended'
<1> SUFFICES ASSUME ObjectsTyped, SettledUnlessContended, [StorageNext]_storageVars, ~contended'
             PROVE  Settled'
  BY DEF SettledUnlessContended
<1>1. CASE UNCHANGED storageVars
  BY <1>1 DEF storageVars, SettledUnlessContended, Settled
<1>2. CASE Undelete  BY <1>2, UndeleteSettled
<1>3. ASSUME NEW r \in StorageCalls,
             \/ UploadFind(r) \/ UploadVersion(r) \/ PutBytes(r) \/ WriteObject(r)
             \/ RemoveFind(r, "softdelete") \/ RemoveFind(r, "bytes")
             \/ SoftDelete(r) \/ DeleteBytes(r) \/ DeleteRow(r)
             \/ ExportObjects(r) \/ ExportVersions(r)
             \/ RestoreBytes(r) \/ RestoreSelect(r) \/ RestoreCommit(r) \/ RestoreClean(r)
             \/ StorageFails(r)
      PROVE  Settled'
  BY <1>3, UploadFindSettled, UploadVersionSettled, PutBytesSettled, WriteObjectSettled,
     FindsSettled, SoftDeleteSettled, DeleteBytesSettled, DeleteRowSettled, ExportVersionsSettled,
     RestoreBytesSettled, RestoreSelectSettled, RestoreCommitSettled, RestoreCleanSettled,
     StorageFailsSettled
<1> QED  BY <1>1, <1>2, <1>3 DEF StorageNext

\* A replaced object is one of the versions.
LEMMA KeptStep ==
  ObjectsTyped /\ SettledUnlessContended /\ VersionsKeepUploads /\ [StorageNext]_storageVars
    => VersionsKeepUploads'
<1> SUFFICES ASSUME ObjectsTyped, SettledUnlessContended, VersionsKeepUploads,
                    [StorageNext]_storageVars, versioned', ~contended'
             PROVE  kept' \subseteq {i.content : i \in Items(object', versions')}
  BY DEF VersionsKeepUploads
<1>0. object \in ObjectRows /\ storageCall \in [StorageCalls -> CallRecords]
  BY StorageByName DEF ObjectsTyped
<1>1. ASSUME UNCHANGED <<versioned, object, versions, kept>>, ~contended
      PROVE  kept' \subseteq {i.content : i \in Items(object', versions')}
  BY <1>1 DEF VersionsKeepUploads
<1>2. ASSUME ~contended, versioned' = versioned, versions' = versions, kept' = kept,
             object'.content = object.content, object.state # "none", object'.state # "none"
      PROVE  kept' \subseteq {i.content : i \in Items(object', versions')}
  <2>1. ASSUME NEW x \in kept PROVE \E i \in Items(object', versions') : i.content = x
    <3>1. PICK i \in Items(object, versions) : i.content = x
      BY <1>2, <2>1 DEF VersionsKeepUploads
    <3>2. CASE i = object
      <4>1. object' \in Items(object', versions')  BY <1>2 DEF Items
      <4> QED  BY <1>2, <3>1, <3>2, <4>1
    <3>3. CASE i \in versions
      <4>1. i \in Items(object', versions')  BY <1>2, <3>1, <3>3 DEF Items
      <4> QED  BY <3>1, <4>1
    <3> QED  BY <3>1, <3>2, <3>3 DEF Items
  <2> QED  BY <1>2, <2>1
<1>3. CASE UNCHANGED storageVars  BY <1>1, <1>3 DEF storageVars
<1>4. CASE Undelete
  <2>1. object' = [object EXCEPT !.state = "live"] /\ object.state = "deleted"
        /\ UNCHANGED <<versioned, versions, kept, contended>>
    BY <1>4 DEF Undelete, storageCounts
  <2> QED  BY <1>0, <1>2, <2>1 DEF ObjectRows
<1>5. ASSUME NEW r \in StorageCalls,
             \/ PutBytes(r) \/ DeleteBytes(r) \/ ExportVersions(r) \/ RestoreSelect(r)
             \/ RestoreClean(r)
      PROVE  kept' \subseteq {i.content : i \in Items(object', versions')}
  BY <1>1, <1>5
     DEF PutBytes, DeleteBytes, ExportVersions, RestoreSelect, RestoreClean, storageCounts
<1>6. ASSUME NEW r \in StorageCalls,
             \/ UploadFind(r) \/ RemoveFind(r, "softdelete") \/ RemoveFind(r, "bytes")
             \/ ExportObjects(r) \/ RestoreBytes(r) \/ StorageFails(r)
      PROVE  kept' \subseteq {i.content : i \in Items(object', versions')}
  BY <1>1, <1>6
     DEF UploadFind, RemoveFind, ExportObjects, RestoreBytes, StorageFails, storageCounts, Overlap
<1>7. ASSUME NEW r \in StorageCalls, UploadVersion(r)
      PROVE  kept' \subseteq {i.content : i \in Items(object', versions')}
  <2>1. UNCHANGED <<versioned, object, kept, contended>> /\ versions \subseteq versions'
    BY <1>7 DEF UploadVersion, storageCounts
  <2>2. Items(object, versions) \subseteq Items(object', versions')  BY <2>1 DEF Items
  <2> QED  BY <2>1, <2>2 DEF VersionsKeepUploads
<1>8. ASSUME NEW r \in StorageCalls, WriteObject(r)
      PROVE  kept' \subseteq {i.content : i \in Items(object', versions')}
  <2> DEFINE c == storageCall[r]
  <2>1. UNCHANGED <<versioned, versions, contended>> /\ c.stage = "row"
    BY <1>8 DEF WriteObject, storageCounts, StorageAt
  <2>2. CASE IF c.id = 0 THEN IsRow(c.found.id) ELSE object.state = "none"
    <3>1. object' = NextVersion(r) /\ kept' = kept \cup {c.content}  BY <1>8, <2>2 DEF WriteObject
    <3>2. object'.state = "live" /\ object'.content = c.content  BY <2>1, <3>1, NextIsMade
    <3>3. object' \in Items(object', versions')  BY <3>2 DEF Items
    <3>4. ASSUME NEW x \in kept PROVE \E i \in Items(object', versions') : i.content = x
      <4>1. PICK i \in Items(object, versions) : i.content = x
        BY <2>1, <3>4 DEF VersionsKeepUploads
      <4>2. CASE i \in versions
        <5>1. i \in Items(object', versions')  BY <2>1, <4>1, <4>2 DEF Items
        <5> QED  BY <4>1, <5>1
      <4>3. CASE i = object
        <5>1. object.state # "none"  BY <4>1, <4>3 DEF Items
        <5>2. Updates(c)  BY <2>1, <2>2, <5>1 DEF Updates
        <5>3. Settled  BY <2>1 DEF SettledUnlessContended
        <5>4. Recorded(c.found, versions) /\ c.found.version = object.version
          BY <2>1, <5>2, <5>3 DEF Settled, CallKnows
        <5>5. PICK v \in versions : v.version = object.version  BY <5>4 DEF Recorded
        <5>6. v.content = object.content
          BY <5>1, <5>3, <5>5 DEF Settled, Topmost, AgreesWith
        <5>7. v.state = "live"  BY <5>5 DEF ObjectsTyped, RowsMade, MadeVersions
        <5>8. v \in Items(object', versions')  BY <2>1, <5>5, <5>7 DEF Items
        <5> QED  BY <4>1, <4>3, <5>6, <5>8
      <4> QED  BY <4>1, <4>2, <4>3 DEF Items
    <3> QED  BY <3>1, <3>2, <3>3, <3>4
  <2>3. CASE ~IF c.id = 0 THEN IsRow(c.found.id) ELSE object.state = "none"
    <3>1. UNCHANGED <<object, kept>>  BY <1>8, <2>3 DEF WriteObject
    <3> QED  BY <1>1, <2>1, <3>1
  <2> QED  BY <2>2, <2>3
<1>9. ASSUME NEW r \in StorageCalls, SoftDelete(r)
      PROVE  kept' \subseteq {i.content : i \in Items(object', versions')}
  <2>1. UNCHANGED <<versioned, versions, kept, contended>>
    BY <1>9 DEF SoftDelete, storageCounts
  <2>2. CASE IsRow(storageCall[r].found.id)
    <3>1. object' = [object EXCEPT !.state = "deleted"] /\ object.state # "none"
      BY <1>9, <2>2 DEF SoftDelete, IsRow
    <3> QED  BY <1>0, <1>2, <2>1, <3>1 DEF ObjectRows
  <2>3. CASE ~IsRow(storageCall[r].found.id)
    <3>1. object' = object  BY <1>9, <2>3 DEF SoftDelete
    <3> QED  BY <1>1, <2>1, <3>1
  <2> QED  BY <2>2, <2>3
<1>10. ASSUME NEW r \in StorageCalls, DeleteRow(r)
       PROVE  kept' \subseteq {i.content : i \in Items(object', versions')}
  <2>1. UNCHANGED <<versioned, contended>>  BY <1>10 DEF DeleteRow, storageCounts
  <2>2. kept' = {} \/ UNCHANGED <<object, versions, kept>>  BY <1>10 DEF DeleteRow
  <2> QED  BY <1>1, <2>1, <2>2
<1>11. ASSUME NEW r \in StorageCalls, RestoreCommit(r)
       PROVE  kept' \subseteq {i.content : i \in Items(object', versions')}
  <2>1. UNCHANGED <<versioned, contended>>  BY <1>11 DEF RestoreCommit
  <2>2. CASE Refers(storageCall[r].from)
    BY <1>11, <2>2 DEF RestoreCommit
  <2>3. CASE ~Refers(storageCall[r].from)
    <3>1. UNCHANGED <<object, versions, kept>>  BY <1>11, <2>3 DEF RestoreCommit
    <3> QED  BY <1>1, <2>1, <3>1
  <2> QED  BY <2>2, <2>3
<1> QED
  BY <1>3, <1>4, <1>5, <1>6, <1>7, <1>8, <1>9, <1>10, <1>11 DEF StorageNext

-----------------------------------------------------------------------------
(* Objects: the catalog and the object store.                                *)

Matched(o, vs, bs) == \A i \in Items(o, vs) : bs[KeyOf(i)] = i.content

\* The key an upload writes its bytes under.
Target(c) == IF c.id = 0 THEN <<c.found.id, c.found.version + 1>> ELSE <<c.id, 1>>

CallMatches(c, o, vs, bs) ==
  /\ c.stage = "row" => bs[Target(c)] = c.content
  /\ c.stage \in {"old", "commit"} => Matched(c.from.object, c.from.versions, bs)
  /\ c.stage = "clean" => \A i \in Items(o, vs) : KeyOf(i) \in KeysOf(c.from)

Agreeing ==
  /\ Midway \/ Matched(object, versions, bytes)
  /\ \A b \in saved : Matched(b.object, b.versions, b.bytes)
  /\ \A r \in StorageCalls : CallMatches(storageCall[r], object, versions, bytes)

AgreeingUnlessTorn == ~contended /\ ~torn => Agreeing

LEMMA IdleMatches ==
  ASSUME NEW c, c.stage = "idle"
  PROVE  \A o, vs, bs : CallMatches(c, o, vs, bs)
BY DEF CallMatches

LEMMA AgreeingLands ==
  ASSUME ObjectsTyped, Agreeing, NEW r \in StorageCalls, NEW d \in CallRecords,
         storageCall' = [storageCall EXCEPT ![r] = d],
         Midway' \/ Matched(object', versions', bytes'),
         \A b \in saved' : Matched(b.object, b.versions, b.bytes),
         CallMatches(d, object', versions', bytes'),
         \A q \in StorageCalls : q # r => CallMatches(storageCall[q], object', versions', bytes')
  PROVE  Agreeing'
<1>1. storageCall \in [StorageCalls -> CallRecords]  BY StorageByName DEF ObjectsTyped
<1>2. /\ storageCall'[r] = d
      /\ \A q \in StorageCalls : q # r => storageCall'[q] = storageCall[q]
  BY <1>1, CallMoves
<1>3. \A q \in StorageCalls : CallMatches(storageCall'[q], object', versions', bytes')
  BY <1>2
<1> QED  BY <1>3 DEF Agreeing

\* A request that does not rewrite rows shares no time with one that does.
LEMMA NobodyRewrites ==
  ASSUME Settled, NEW r \in StorageCalls, storageCall[r].stage # "idle",
         storageCall[r].stage \notin Rewriting
  PROVE  ~Midway /\ \A q \in StorageCalls : storageCall[q].stage \notin Rewriting
<1>1. ASSUME NEW q \in StorageCalls PROVE storageCall[q].stage \notin Rewriting
  <2>1. CASE q = r  BY <2>1
  <2>2. CASE storageCall[q].stage = "idle"  BY <2>2 DEF Rewriting
  <2>3. CASE q # r /\ storageCall[q].stage # "idle"
    <3>1. Compatible(storageCall[r], storageCall[q], versioned)  BY <2>3 DEF Settled
    <3> QED  BY <2>3, <3>1 DEF Compatible
  <2> QED  BY <2>1, <2>2, <2>3
<1> QED  BY <1>1 DEF Midway, Rewriting

\* Rows and bytes untouched; the request goes on or ends.
LEMMA AgreeingStays ==
  ASSUME ObjectsTyped, Agreeing, NEW r \in StorageCalls, NEW d \in CallRecords,
         storageCall' = [storageCall EXCEPT ![r] = d],
         UNCHANGED <<object, versions, bytes>>,
         Midway' \/ storageCall[r].stage \notin {"droprow", "broken", "old", "commit"},
         \A b \in saved' : Matched(b.object, b.versions, b.bytes),
         CallMatches(d, object, versions, bytes)
  PROVE  Agreeing'
<1>1. storageCall \in [StorageCalls -> CallRecords]  BY StorageByName DEF ObjectsTyped
<1>2. /\ storageCall'[r] = d
      /\ \A q \in StorageCalls : q # r => storageCall'[q] = storageCall[q]
  BY <1>1, CallMoves
<1>3. object' = object /\ versions' = versions /\ bytes' = bytes  OBVIOUS
<1>4. Midway' \/ Matched(object', versions', bytes')
  <2>1. SUFFICES ASSUME ~Midway' PROVE Matched(object', versions', bytes')  OBVIOUS
  <2>2. ~Midway
    <3>1. SUFFICES ASSUME Midway PROVE FALSE  OBVIOUS
    <3>2. PICK q \in StorageCalls :
            storageCall[q].stage \in {"droprow", "broken", "old", "commit"}
      BY <3>1 DEF Midway
    <3>3. q # r  BY <2>1, <3>2
    <3>4. storageCall'[q].stage \in {"droprow", "broken", "old", "commit"}  BY <1>2, <3>2, <3>3
    <3> QED  BY <2>1, <3>4 DEF Midway
  <2> QED  BY <1>3, <2>2 DEF Agreeing
<1>5. CallMatches(d, object', versions', bytes')  BY <1>3
<1>6. \A q \in StorageCalls : q # r => CallMatches(storageCall[q], object', versions', bytes')
  BY <1>3 DEF Agreeing
<1> QED  BY <1>4, <1>5, <1>6, AgreeingLands

LEMMA AgreeingEnds ==
  ASSUME ObjectsTyped, Agreeing, NEW r \in StorageCalls, StorageEnd(r),
         UNCHANGED <<object, versions, bytes>>,
         storageCall[r].stage \notin {"droprow", "broken", "old", "commit"},
         \A b \in saved' : Matched(b.object, b.versions, b.bytes)
  PROVE  Agreeing'
<1>1. NoCall \in CallRecords /\ storageCall' = [storageCall EXCEPT ![r] = NoCall]  BY Ends
<1>2. CallMatches(NoCall, object, versions, bytes)  BY IdleMatches, NothingIsTyped
<1> QED  BY <1>1, <1>2, AgreeingStays

LEMMA FindsAgree ==
  ASSUME ObjectsTyped, SettledUnlessContended, AgreeingUnlessTorn, ~contended', ~torn',
         NEW r \in StorageCalls,
         \/ UploadFind(r) \/ (\E s \in {"softdelete", "bytes"} : RemoveFind(r, s))
         \/ ExportObjects(r)
  PROVE  Agreeing'
<1>1. ~contended /\ UNCHANGED <<object, versions, bytes, saved, torn>>
      /\ storageCall[r].stage = "idle"
  BY DEF UploadFind, RemoveFind, ExportObjects, Overlap, storageCounts, StorageAt
<1>2. Agreeing  BY <1>1 DEF AgreeingUnlessTorn
<1>3. PICK d : /\ storageCall' = [storageCall EXCEPT ![r] = d]
               /\ d.stage \in {"version", "put", "softdelete", "bytes", "export"}
  <2>1. NoCall \in CallRecords  BY NothingIsTyped
  <2>2. CASE UploadFind(r)
    <3> DEFINE d == IF object.state = "live"
         THEN [NoCall EXCEPT !.stage = IF versioned THEN "version" ELSE "put",
                             !.found = object, !.content = uploads + 1]
         ELSE [NoCall EXCEPT !.stage = "put", !.id = objects + 1, !.content = uploads + 1]
    <3>1. storageCall' = [storageCall EXCEPT ![r] = d]  BY <2>2 DEF UploadFind
    <3>2. d.stage \in {"version", "put"}  BY <2>1 DEF CallRecords
    <3> QED  BY <3>1, <3>2
  <2>3. CASE (\E s \in {"softdelete", "bytes"} : RemoveFind(r, s)) \/ ExportObjects(r)
    <3>1. PICK s \in {"softdelete", "bytes", "export"} :
        storageCall' = [storageCall EXCEPT ![r] = [NoCall EXCEPT !.stage = s, !.found = object]]
      BY <2>3 DEF RemoveFind, ExportObjects
    <3>2. [NoCall EXCEPT !.stage = s, !.found = object].stage = s  BY <2>1 DEF CallRecords
    <3> QED  BY <3>1, <3>2
  <2> QED  BY <2>2, <2>3
<1>4. ObjectsTyped'  BY UploadFindTyped, FindsTyped
<1>5. storageCall \in [StorageCalls -> CallRecords] /\ storageCall' \in [StorageCalls -> CallRecords]
  BY <1>4 DEF ObjectsTyped, StorageTypeOK, CallRecords, StorageStages
<1>6. d \in CallRecords
  <2>1. storageCall'[r] = d  BY <1>3, <1>5
  <2> QED  BY <1>5, <2>1
<1>7. CallMatches(d, object, versions, bytes)  BY <1>3 DEF CallMatches
<1>8. \A b \in saved' : Matched(b.object, b.versions, b.bytes)  BY <1>1, <1>2 DEF Agreeing
<1> QED  BY <1>1, <1>2, <1>3, <1>6, <1>7, <1>8, AgreeingStays

LEMMA UploadVersionAgrees ==
  ASSUME ObjectsTyped, SettledUnlessContended, AgreeingUnlessTorn, ~contended', ~torn',
         NEW r \in StorageCalls, UploadVersion(r)
  PROVE  Agreeing'
<1> DEFINE c == storageCall[r]
           o == c.found
<1>1. Settled /\ Agreeing /\ UNCHANGED <<object, bytes, saved>> /\ c.stage = "version"
  BY DEF UploadVersion, SettledUnlessContended, AgreeingUnlessTorn, storageCounts, StorageAt
<1>2. ~Midway /\ \A q \in StorageCalls : storageCall[q].stage \notin Rewriting
  BY <1>1, NobodyRewrites DEF Rewriting
<1>3. \A b \in saved' : Matched(b.object, b.versions, b.bytes)  BY <1>1 DEF Agreeing
<1>4. CASE IsRow(o.id) /\ ~VersionTaken(o)
  <2>1. versions' = versions \cup {o} /\ StorageGo(r, "put")  BY <1>4 DEF UploadVersion
  <2>2. PICK d \in CallRecords :
          storageCall' = [storageCall EXCEPT ![r] = d] /\ d.stage = "put"
    BY <1>1, <2>1, Goes
  <2>3. o.state = "live"  BY <1>1, CallNow DEF CallShape
  <2>4. Known(o, object, versions)  BY <1>1, <2>3 DEF Settled, CallKnows
  <2>5. ~Recorded(o, versions)
    BY <1>4 DEF VersionTaken, Recorded, IsRow, ObjectsTyped, VersionsBelong
  <2>6. o.version = object.version /\ o.content = object.content /\ object.state # "none"
        /\ object.id = o.id
    BY <2>4, <2>5 DEF Known, Named
  <2>7. Matched(object, versions, bytes)  BY <1>1, <1>2 DEF Agreeing
  <2>8. bytes[KeyOf(o)] = o.content  BY <2>6, <2>7 DEF Matched, Items, KeyOf
  <2>9. Matched(object', versions', bytes')  BY <1>1, <2>1, <2>7, <2>8 DEF Matched, Items
  <2>10. CallMatches(d, object', versions', bytes')  BY <2>2 DEF CallMatches
  <2>11. ASSUME NEW q \in StorageCalls
         PROVE  CallMatches(storageCall[q], object', versions', bytes')
    <3>1. CallMatches(storageCall[q], object, versions, bytes)  BY <1>1 DEF Agreeing
    <3>2. storageCall[q].stage # "clean"  BY <1>2 DEF Rewriting
    <3> QED  BY <1>1, <3>1, <3>2 DEF CallMatches
  <2> QED  BY <1>1, <1>3, <2>2, <2>9, <2>10, <2>11, AgreeingLands
<1>5. CASE ~(IsRow(o.id) /\ ~VersionTaken(o))
  <2>1. UNCHANGED <<object, versions, bytes>> /\ StorageEnd(r)  BY <1>1, <1>5 DEF UploadVersion
  <2> QED  BY <1>1, <1>3, <2>1, AgreeingEnds
<1> QED  BY <1>4, <1>5

\* The key an upload writes is no row's and no other upload's.
LEMMA PutBytesAgrees ==
  ASSUME ObjectsTyped, SettledUnlessContended, AgreeingUnlessTorn, ~contended', ~torn',
         NEW r \in StorageCalls, PutBytes(r)
  PROVE  Agreeing'
<1> DEFINE c == storageCall[r]
<1>1. Settled /\ Agreeing /\ UNCHANGED <<object, versions, saved>> /\ c.stage = "put"
      /\ StorageGo(r, "row")
  BY DEF PutBytes, SettledUnlessContended, AgreeingUnlessTorn, storageCounts, StorageAt
<1>2. ~Midway /\ \A q \in StorageCalls : storageCall[q].stage \notin Rewriting
  BY <1>1, NobodyRewrites DEF Rewriting
<1>3. PICK d \in CallRecords :
        /\ storageCall' = [storageCall EXCEPT ![r] = d]
        /\ d.stage = "row" /\ d.found = c.found /\ d.id = c.id /\ d.content = c.content
  BY <1>1, Goes
<1>4. KeyOf(NextVersion(r)) = Target(c) /\ Target(c) \in Keys /\ Target(d) = Target(c)
  BY <1>1, <1>3, NextIsMade DEF KeyOf, Target
<1>5. bytes \in [Keys -> 0 .. UploadCount] /\ bytes' = [bytes EXCEPT ![Target(c)] = c.content]
  BY <1>4, StorageByName DEF PutBytes, ObjectsTyped
<1>6. bytes'[Target(c)] = c.content /\ \A k \in Keys : k # Target(c) => bytes'[k] = bytes[k]
  BY <1>4, <1>5
<1>7. CallKnows(c, object, versions, saved, versioned)  BY <1>1 DEF Settled
<1>8. object \in ObjectRows /\ versions \subseteq ObjectRows
  BY StorageByName DEF ObjectsTyped
<1>9. ASSUME NEW i \in Items(object, versions) PROVE KeyOf(i) # Target(c) /\ KeyOf(i) \in Keys
  <2>4. KeyOf(i) \in Keys  BY <1>9, ItemKeys
  <2>1. i.id = object.id /\ object.state # "none" /\ (i = object \/ i \in versions)
    BY <1>9 DEF Items, ObjectsTyped, VersionsBelong
  <2>2. CASE c.id = 0
    <3>1. Updates(c)  BY <1>1, <2>2 DEF Updates
    <3>2. c.found.version = object.version /\ i.version <= object.version
      BY <1>7, <1>8, <2>1, <3>1 DEF CallKnows, ObjectRows
    <3>3. i.version # c.found.version + 1
      BY <1>8, <2>1, <3>2 DEF ObjectRows
    <3> QED  BY <2>2, <2>4, <3>3 DEF KeyOf, Target
  <2>3. CASE c.id # 0
    <3>1. Creates(c)  BY <1>1, <2>3 DEF Creates
    <3>2. object.id # c.id  BY <1>7, <2>1, <3>1 DEF CallKnows, Named
    <3> QED  BY <2>1, <2>3, <2>4, <3>2 DEF KeyOf, Target
  <2> QED  BY <2>2, <2>3, <2>4
<1>10. Matched(object', versions', bytes')
  BY <1>1, <1>2, <1>6, <1>9 DEF Agreeing, Matched
<1>11. CallMatches(d, object', versions', bytes')  BY <1>3, <1>4, <1>6 DEF CallMatches
<1>12. ASSUME NEW q \in StorageCalls, q # r
       PROVE  CallMatches(storageCall[q], object', versions', bytes')
  <2> DEFINE e == storageCall[q]
  <2>1. CallMatches(e, object, versions, bytes) /\ CallKnows(e, object, versions, saved, versioned)
        /\ Compatible(e, c, versioned) /\ e.stage \notin Rewriting
    BY <1>1, <1>2, <1>12 DEF Agreeing, Settled
  <2>2. CASE e.stage = "row"
    <3>1. Target(e) # Target(c)
      <4>1. CASE e.id = 0 /\ c.id = 0
        BY <1>1, <2>1, <2>2, <4>1 DEF Compatible, Updates
      <4>2. CASE e.id # 0 /\ c.id # 0
        BY <1>1, <2>1, <2>2, <4>2 DEF Compatible, Creates, Target
      <4>3. CASE e.id = 0 /\ c.id # 0
        BY <1>1, <1>7, <2>1, <2>2, <4>3 DEF CallKnows, Updates, Creates, Target, Known, Named
      <4>4. CASE e.id # 0 /\ c.id = 0
        BY <1>1, <1>7, <2>1, <2>2, <4>4 DEF CallKnows, Updates, Creates, Target, Known, Named
      <4> QED  BY <4>1, <4>2, <4>3, <4>4
    <3>3. Target(e) \in Keys  BY <2>2, NextIsMade DEF KeyOf, Target
    <3>2. bytes'[Target(e)] = bytes[Target(e)]  BY <1>6, <3>1, <3>3
    <3> QED  BY <2>1, <2>2, <3>2 DEF CallMatches
  <2>3. CASE e.stage # "row"  BY <2>1, <2>3 DEF CallMatches, Rewriting
  <2> QED  BY <2>2, <2>3
<1>13. \A b \in saved' : Matched(b.object, b.versions, b.bytes)  BY <1>1 DEF Agreeing
<1> QED  BY <1>1, <1>3, <1>10, <1>11, <1>12, <1>13, AgreeingLands

LEMMA WriteObjectAgrees ==
  ASSUME ObjectsTyped, SettledUnlessContended, AgreeingUnlessTorn, ~contended', ~torn',
         NEW r \in StorageCalls, WriteObject(r)
  PROVE  Agreeing'
<1> DEFINE c == storageCall[r]
<1>1. Settled /\ Agreeing /\ UNCHANGED <<versions, bytes, saved>> /\ c.stage = "row"
      /\ StorageEnd(r)
  BY DEF WriteObject, SettledUnlessContended, AgreeingUnlessTorn, storageCounts, StorageAt
<1>2. ~Midway /\ \A q \in StorageCalls : storageCall[q].stage \notin Rewriting
  BY <1>1, NobodyRewrites DEF Rewriting
<1>3. NoCall \in CallRecords /\ storageCall' = [storageCall EXCEPT ![r] = NoCall]
      /\ NoCall.stage = "idle"
  BY <1>1, Ends, NothingIsTyped
<1>4. \A b \in saved' : Matched(b.object, b.versions, b.bytes)  BY <1>1 DEF Agreeing
<1>5. CASE IF c.id = 0 THEN IsRow(c.found.id) ELSE object.state = "none"
  <2>1. object' = NextVersion(r)  BY <1>5 DEF WriteObject
  <2>2. KeyOf(object') = Target(c) /\ object'.content = c.content
    BY <1>1, <2>1, NextIsMade DEF KeyOf, Target
  <2>3. bytes[Target(c)] = c.content  BY <1>1 DEF Agreeing, CallMatches
  <2>4. Matched(object', versions', bytes')
    BY <1>1, <1>2, <2>2, <2>3 DEF Agreeing, Matched, Items
  <2>5. CallMatches(NoCall, object', versions', bytes')  BY <1>3, IdleMatches
  <2>6. ASSUME NEW q \in StorageCalls
        PROVE  CallMatches(storageCall[q], object', versions', bytes')
    <3>1. CallMatches(storageCall[q], object, versions, bytes)
          /\ storageCall[q].stage # "clean"
      BY <1>1, <1>2 DEF Agreeing, Rewriting
    <3> QED  BY <1>1, <3>1 DEF CallMatches
  <2> QED  BY <1>1, <1>3, <1>4, <2>4, <2>5, <2>6, AgreeingLands
<1>6. CASE ~IF c.id = 0 THEN IsRow(c.found.id) ELSE object.state = "none"
  <2>1. UNCHANGED <<object, versions, bytes>>  BY <1>1, <1>6 DEF WriteObject
  <2> QED  BY <1>1, <1>4, <2>1, AgreeingEnds
<1> QED  BY <1>5, <1>6

\* A soft deletion and its reversal leave the key and the content of the row.
LEMMA SameBytes ==
  ASSUME NEW row, NEW row2, row2.id = row.id, row2.version = row.version,
         row2.content = row.content, row.state # "none", row2.state # "none"
  PROVE  /\ \A vs, bs : Matched(row, vs, bs) => Matched(row2, vs, bs)
         /\ \A c, vs, bs : CallMatches(c, row, vs, bs) => CallMatches(c, row2, vs, bs)
<1>1. KeyOf(row2) = KeyOf(row)  BY DEF KeyOf
<1>2. \A vs : row \in Items(row, vs) /\ \A i \in Items(row2, vs) : i = row2 \/ i \in Items(row, vs)
  BY DEF Items
<1>3. ASSUME NEW vs, NEW bs, Matched(row, vs, bs) PROVE Matched(row2, vs, bs)
  BY <1>1, <1>2, <1>3 DEF Matched
<1>4. ASSUME NEW c, NEW vs, NEW bs, CallMatches(c, row, vs, bs) PROVE CallMatches(c, row2, vs, bs)
  <2>1. c.stage = "clean" => \A i \in Items(row2, vs) : KeyOf(i) \in KeysOf(c.from)
    BY <1>1, <1>2, <1>4 DEF CallMatches
  <2> QED  BY <1>4, <2>1 DEF CallMatches
<1> QED  BY <1>3, <1>4

LEMMA SoftDeleteAgrees ==
  ASSUME ObjectsTyped, SettledUnlessContended, AgreeingUnlessTorn, ~contended', ~torn',
         NEW r \in StorageCalls, SoftDelete(r)
  PROVE  Agreeing'
<1>1. Settled /\ Agreeing /\ UNCHANGED <<versions, bytes, saved>> /\ StorageEnd(r)
      /\ storageCall[r].stage = "softdelete"
  BY DEF SoftDelete, SettledUnlessContended, AgreeingUnlessTorn, storageCounts, StorageAt
<1>2. NoCall \in CallRecords /\ storageCall' = [storageCall EXCEPT ![r] = NoCall]
      /\ NoCall.stage = "idle"
  BY <1>1, Ends, NothingIsTyped
<1>3. \A b \in saved' : Matched(b.object, b.versions, b.bytes)  BY <1>1 DEF Agreeing
<1>4. ~Midway  BY <1>1, NobodyRewrites DEF Rewriting
<1>5. CASE IsRow(storageCall[r].found.id)
  <2>1. object' = [object EXCEPT !.state = "deleted"] /\ object \in ObjectRows
    BY <1>5, StorageByName DEF SoftDelete, ObjectsTyped
  <2>2. object'.id = object.id /\ object'.version = object.version
        /\ object'.content = object.content /\ object.state # "none" /\ object'.state # "none"
    BY <1>5, <2>1 DEF ObjectRows, IsRow
  <2>3. /\ \A vs, bs : Matched(object, vs, bs) => Matched(object', vs, bs)
        /\ \A c, vs, bs : CallMatches(c, object, vs, bs) => CallMatches(c, object', vs, bs)
    BY <2>2, SameBytes
  <2>4. Matched(object', versions', bytes')  BY <1>1, <1>4, <2>3 DEF Agreeing
  <2>5. CallMatches(NoCall, object', versions', bytes')  BY <1>2, IdleMatches
  <2>6. \A q \in StorageCalls : CallMatches(storageCall[q], object', versions', bytes')
    BY <1>1, <2>3 DEF Agreeing
  <2> QED  BY <1>1, <1>2, <1>3, <2>4, <2>5, <2>6, AgreeingLands
<1>6. CASE ~IsRow(storageCall[r].found.id)
  <2>1. UNCHANGED <<object, versions, bytes>>  BY <1>1, <1>6 DEF SoftDelete
  <2> QED  BY <1>1, <1>3, <2>1, AgreeingEnds
<1> QED  BY <1>5, <1>6

LEMMA UndeleteAgrees ==
  ASSUME ObjectsTyped, AgreeingUnlessTorn, ~contended', ~torn', Undelete
  PROVE  Agreeing'
<1>1. Agreeing /\ UNCHANGED <<versions, bytes, saved, storageCall>>
  BY DEF Undelete, AgreeingUnlessTorn, storageCounts
<1>2. object' = [object EXCEPT !.state = "live"] /\ object \in ObjectRows
      /\ object.state = "deleted"
  BY StorageByName DEF Undelete, ObjectsTyped
<1>3. object'.id = object.id /\ object'.version = object.version
      /\ object'.content = object.content /\ object.state # "none" /\ object'.state # "none"
  BY <1>2 DEF ObjectRows
<1>4. /\ \A vs, bs : Matched(object, vs, bs) => Matched(object', vs, bs)
      /\ \A c, vs, bs : CallMatches(c, object, vs, bs) => CallMatches(c, object', vs, bs)
  BY <1>3, SameBytes
<1>5. Midway' <=> Midway  BY <1>1 DEF Midway
<1> QED  BY <1>1, <1>4, <1>5 DEF Agreeing

LEMMA DeleteBytesAgrees ==
  ASSUME ObjectsTyped, SettledUnlessContended, AgreeingUnlessTorn, ~contended', ~torn',
         NEW r \in StorageCalls, DeleteBytes(r)
  PROVE  Agreeing'
<1>1. Settled /\ Agreeing /\ UNCHANGED <<object, versions, saved>>
      /\ storageCall[r].stage = "bytes" /\ StorageGo(r, "droprow")
  BY DEF DeleteBytes, SettledUnlessContended, AgreeingUnlessTorn, storageCounts, StorageAt
<1>2. PICK d \in CallRecords :
        storageCall' = [storageCall EXCEPT ![r] = d] /\ d.stage = "droprow"
  BY <1>1, Goes
<1>3. Midway'
  <2>1. storageCall \in [StorageCalls -> CallRecords]  BY StorageByName DEF ObjectsTyped
  <2>2. storageCall'[r].stage = "droprow"  BY <1>2, <2>1
  <2> QED  BY <2>2 DEF Midway
<1>4. CallMatches(d, object', versions', bytes')  BY <1>2 DEF CallMatches
<1>5. \A q \in StorageCalls : q # r => storageCall[q].stage = "idle"
  BY <1>1, OthersIdle DEF Rewriting
<1>6. \A q \in StorageCalls : q # r => CallMatches(storageCall[q], object', versions', bytes')
  BY <1>5, IdleMatches
<1>7. \A b \in saved' : Matched(b.object, b.versions, b.bytes)  BY <1>1 DEF Agreeing
<1> QED  BY <1>1, <1>2, <1>3, <1>4, <1>6, <1>7, AgreeingLands

LEMMA DeleteRowAgrees ==
  ASSUME ObjectsTyped, SettledUnlessContended, AgreeingUnlessTorn, ~contended', ~torn',
         NEW r \in StorageCalls, DeleteRow(r)
  PROVE  Agreeing'
<1> DEFINE c == storageCall[r]
<1>1. Settled /\ Agreeing /\ UNCHANGED <<bytes, saved>> /\ c.stage = "droprow" /\ StorageEnd(r)
  BY DEF DeleteRow, SettledUnlessContended, AgreeingUnlessTorn, storageCounts, StorageAt
<1>2. NoCall \in CallRecords /\ storageCall' = [storageCall EXCEPT ![r] = NoCall]
      /\ NoCall.stage = "idle"
  BY <1>1, Ends, NothingIsTyped
<1>3. c.found.state = "live"  BY <1>1, CallNow DEF CallShape
<1>4. Known(c.found, object, versions)  BY <1>1, <1>3 DEF Settled, CallKnows
<1>5. object' = NoObject /\ versions' = {}  BY <1>4 DEF DeleteRow, Known, Named, IsRow
<1>6. Matched(object', versions', bytes')  BY <1>5 DEF Matched, Items, NoObject
<1>7. \A q \in StorageCalls : q # r => storageCall[q].stage = "idle"
  BY <1>1, OthersIdle DEF Rewriting
<1>8. \A q \in StorageCalls : q # r => CallMatches(storageCall[q], object', versions', bytes')
  BY <1>7, IdleMatches
<1>9. CallMatches(NoCall, object', versions', bytes')  BY <1>2, IdleMatches
<1>10. \A b \in saved' : Matched(b.object, b.versions, b.bytes)  BY <1>1 DEF Agreeing
<1> QED  BY <1>1, <1>2, <1>6, <1>8, <1>9, <1>10, AgreeingLands

\* What an export saves is the bytes of the rows it saves, also when the row it
\* read has become a version since.
LEMMA ExportVersionsAgrees ==
  ASSUME ObjectsTyped, SettledUnlessContended, AgreeingUnlessTorn, ~contended', ~torn',
         NEW r \in StorageCalls, ExportVersions(r)
  PROVE  Agreeing'
<1> DEFINE o == storageCall[r].found
           kb == [k \in Keys |-> IF \E i \in Items(o, versions) : KeyOf(i) = k THEN bytes[k] ELSE 0]
           b == [object |-> o, versions |-> versions, bytes |-> kb]
<1>1. Settled /\ Agreeing /\ UNCHANGED <<object, versions, bytes>> /\ StorageEnd(r)
      /\ storageCall[r].stage = "export" /\ saved' \subseteq saved \cup {b}
  BY DEF ExportVersions, SettledUnlessContended, AgreeingUnlessTorn, storageCounts, StorageAt
<1>2. ~Midway  BY <1>1, NobodyRewrites DEF Rewriting
<1>3. Matched(object, versions, bytes)  BY <1>1, <1>2 DEF Agreeing
<1>4. ASSUME NEW i \in Items(o, versions) PROVE KeyOf(i) \in Keys /\ bytes[KeyOf(i)] = i.content
  <2>1. CASE i \in versions
    <3>1. i \in Items(object, versions)  BY <1>4, <2>1 DEF Items
    <3> QED  BY <1>3, <3>1, ItemKeys DEF Matched
  <2>2. CASE i = o
    <3>1. o.state # "none"  BY <1>4, <2>2 DEF Items
    <3>2. Known(o, object, versions)  BY <1>1, <3>1 DEF Settled, CallKnows
    <3>3. CASE Recorded(o, versions)
      <4>1. PICK v \in versions : v.version = o.version  BY <3>3 DEF Recorded
      <4>2. v.content = o.content  BY <3>2, <4>1 DEF Known, AgreesWith
      <4>3. v.id = o.id  BY <3>2, <4>1 DEF ObjectsTyped, VersionsBelong, Known, Named
      <4>4. v \in Items(object, versions)
        BY <4>1 DEF Items, ObjectsTyped, RowsMade, MadeVersions
      <4>5. KeyOf(o) = KeyOf(v)  BY <4>1, <4>3 DEF KeyOf
      <4> QED  BY <1>3, <2>2, <4>2, <4>4, <4>5, ItemKeys DEF Matched
    <3>4. CASE ~Recorded(o, versions)
      <4>1. o.version = object.version /\ o.content = object.content /\ object.id = o.id
            /\ object \in Items(object, versions)
        BY <3>2, <3>4 DEF Known, Named, Items
      <4>2. KeyOf(o) = KeyOf(object)  BY <4>1 DEF KeyOf
      <4> QED  BY <1>3, <2>2, <4>1, <4>2, ItemKeys DEF Matched
    <3> QED  BY <3>3, <3>4
  <2> QED  BY <1>4, <2>1, <2>2 DEF Items
<1>5. ASSUME NEW i \in Items(o, versions) PROVE kb[KeyOf(i)] = i.content
  <2>1. KeyOf(i) \in Keys /\ bytes[KeyOf(i)] = i.content  BY <1>4, <1>5
  <2> QED  BY <1>5, <2>1
<1>6. b.object = o /\ b.versions = versions /\ b.bytes = kb  OBVIOUS
<1> HIDE DEF b, kb
<1>7. Matched(b.object, b.versions, b.bytes)  BY <1>5, <1>6 DEF Matched
<1>8. \A a \in saved' : Matched(a.object, a.versions, a.bytes)  BY <1>1, <1>7 DEF Agreeing
<1> QED  BY <1>1, <1>8, AgreeingEnds

LEMMA BackupKeys ==
  ASSUME ObjectsTyped, NEW b, MadeBackup(b, objects, uploads), NEW i \in Items(b.object, b.versions)
  PROVE  KeyOf(i) \in Keys
<1>1. Made(i, objects, uploads) /\ i.state # "none"
  BY DEF Items, MadeBackup, MadeVersions
<1>2. objects \in 0 .. ObjectCount /\ uploads \in 0 .. UploadCount
  BY DEF ObjectsTyped, RowsMade
<1> QED  BY <1>1, <1>2, KeyIsMade

LEMMA RestoreBytesAgrees ==
  ASSUME ObjectsTyped, SettledUnlessContended, AgreeingUnlessTorn, ~contended', ~torn',
         NEW r \in StorageCalls, RestoreBytes(r)
  PROVE  Agreeing'
<1>1. UNCHANGED <<object, versions, saved, torn>>  BY DEF RestoreBytes
<1>2. ~contended /\ \A q \in StorageCalls : q # r => storageCall[q].stage = "idle"
  <2>1. Overlap(r, "old") /\ "old" \in Rewriting  BY DEF RestoreBytes, Rewriting
  <2> QED  BY <2>1, Apart
<1>3. Agreeing  BY <1>1, <1>2 DEF AgreeingUnlessTorn
<1>4. PICK b \in saved : \E written \in SUBSET KeysOf(b) :
        /\ bytes' = [k \in Keys |-> IF k \in written THEN b.bytes[k] ELSE bytes[k]]
        /\ storageCall' = [storageCall EXCEPT ![r].from = b,
             ![r].stage = IF written = KeysOf(b) THEN "old" ELSE "broken"]
  BY DEF RestoreBytes
<1>5. PICK written \in SUBSET KeysOf(b), s \in {"old", "broken"} :
        /\ bytes' = [k \in Keys |-> IF k \in written THEN b.bytes[k] ELSE bytes[k]]
        /\ storageCall' = [storageCall EXCEPT ![r].from = b, ![r].stage = s]
        /\ s = "old" => written = KeysOf(b)
  BY <1>4
<1> DEFINE d == [storageCall[r] EXCEPT !.from = b, !.stage = s]
<1>6. storageCall \in [StorageCalls -> CallRecords] /\ saved \subseteq Backups
  BY StorageByName DEF ObjectsTyped
<1>7. d \in CallRecords /\ d.stage = s /\ d.from = b
  <2>1. storageCall[r] \in CallRecords  BY <1>6
  <2>2. d \in CallRecords  BY <1>6, <2>1 DEF CallRecords, StorageStages
  <2> QED  BY <2>1, <2>2 DEF CallRecords
<1>8. storageCall' = [storageCall EXCEPT ![r] = d]  BY <1>5, <1>6
<1> HIDE DEF d
<1>9. Midway'
  <2>1. storageCall'[r].stage = s  BY <1>6, <1>7, <1>8
  <2> QED  BY <2>1 DEF Midway
<1>10. s = "old" => Matched(b.object, b.versions, bytes')
  <2>1. ASSUME s = "old", NEW i \in Items(b.object, b.versions)
        PROVE  bytes'[KeyOf(i)] = i.content
    <3>1. MadeBackup(b, objects, uploads)  BY DEF ObjectsTyped, RowsMade
    <3>2. KeyOf(i) \in Keys  BY <3>1, BackupKeys
    <3>3. KeyOf(i) \in written  BY <1>5, <2>1 DEF KeysOf
    <3>4. bytes'[KeyOf(i)] = b.bytes[KeyOf(i)]  BY <1>5, <3>2, <3>3
    <3> QED  BY <1>3, <2>1, <3>4 DEF Agreeing, Matched
  <2> QED  BY <2>1 DEF Matched
<1>11. CallMatches(d, object', versions', bytes')  BY <1>7, <1>10 DEF CallMatches
<1>12. \A q \in StorageCalls : q # r => CallMatches(storageCall[q], object', versions', bytes')
  BY <1>2, IdleMatches
<1>13. \A a \in saved' : Matched(a.object, a.versions, a.bytes)  BY <1>1, <1>3 DEF Agreeing
<1> QED  BY <1>3, <1>7, <1>8, <1>9, <1>11, <1>12, <1>13, AgreeingLands

LEMMA RestoreSelectAgrees ==
  ASSUME ObjectsTyped, SettledUnlessContended, AgreeingUnlessTorn, ~contended', ~torn',
         NEW r \in StorageCalls, RestoreSelect(r)
  PROVE  Agreeing'
<1>1. Agreeing /\ UNCHANGED <<object, versions, bytes, saved>> /\ storageCall[r].stage = "old"
  BY DEF RestoreSelect, AgreeingUnlessTorn, storageCounts, StorageAt
<1> DEFINE old == {KeyOf(i) : i \in Items(object, versions)}
           d == [storageCall[r] EXCEPT !.stage = "commit", !.old = old]
<1>2. storageCall \in [StorageCalls -> CallRecords]  BY StorageByName DEF ObjectsTyped
<1>3. storageCall' = [storageCall EXCEPT ![r] = d]  BY <1>2 DEF RestoreSelect
<1>4. ObjectsTyped'  BY RestoreSelectTyped
<1>5. storageCall'[r] = d /\ storageCall' \in [StorageCalls -> CallRecords]
  BY <1>2, <1>3, <1>4 DEF ObjectsTyped, StorageTypeOK, CallRecords, StorageStages
<1> HIDE DEF old
<1>6. d \in CallRecords /\ d.stage = "commit" /\ d.from = storageCall[r].from
  <2>1. storageCall[r] \in CallRecords  BY <1>2
  <2> QED  BY <1>5, <2>1 DEF CallRecords
<1> HIDE DEF d
<1>7. Midway'  BY <1>5, <1>6 DEF Midway
<1>8. CallMatches(d, object, versions, bytes)  BY <1>1, <1>6 DEF Agreeing, CallMatches
<1>9. \A b \in saved' : Matched(b.object, b.versions, b.bytes)  BY <1>1 DEF Agreeing
<1> QED  BY <1>1, <1>3, <1>6, <1>7, <1>8, <1>9, AgreeingStays

LEMMA RestoreCommitAgrees ==
  ASSUME ObjectsTyped, SettledUnlessContended, AgreeingUnlessTorn, ~contended', ~torn',
         NEW r \in StorageCalls, RestoreCommit(r)
  PROVE  Agreeing'
<1> DEFINE b == storageCall[r].from
<1>1. Refers(b) /\ object' = b.object /\ versions' = b.versions /\ StorageGo(r, "clean")
      /\ torn' = torn /\ UNCHANGED <<bytes, saved, contended>> /\ storageCall[r].stage = "commit"
  BY DEF RestoreCommit, StorageAt
<1>2. Settled /\ Agreeing  BY <1>1 DEF SettledUnlessContended, AgreeingUnlessTorn
<1>3. PICK d \in CallRecords :
        storageCall' = [storageCall EXCEPT ![r] = d] /\ d.stage = "clean" /\ d.from = b
  BY <1>1, Goes
<1>4. Matched(object', versions', bytes')  BY <1>1, <1>2 DEF Agreeing, CallMatches
<1>5. CallMatches(d, object', versions', bytes')
  BY <1>1, <1>3 DEF CallMatches, KeysOf
<1>6. \A q \in StorageCalls : q # r => storageCall[q].stage = "idle"
  BY <1>1, <1>2, OthersIdle DEF Rewriting
<1>7. \A q \in StorageCalls : q # r => CallMatches(storageCall[q], object', versions', bytes')
  BY <1>6, IdleMatches
<1>8. \A a \in saved' : Matched(a.object, a.versions, a.bytes)  BY <1>1, <1>2 DEF Agreeing
<1> QED  BY <1>2, <1>3, <1>4, <1>5, <1>7, <1>8, AgreeingLands

LEMMA RestoreCleanAgrees ==
  ASSUME ObjectsTyped, SettledUnlessContended, AgreeingUnlessTorn, ~contended', ~torn',
         NEW r \in StorageCalls, RestoreClean(r)
  PROVE  Agreeing'
<1> DEFINE c == storageCall[r]
<1>1. Settled /\ Agreeing /\ UNCHANGED <<object, versions, saved>> /\ c.stage = "clean"
      /\ StorageEnd(r)
      /\ bytes' = [k \in Keys |-> IF k \in Obsolete(r) THEN 0 ELSE bytes[k]]
  BY DEF RestoreClean, SettledUnlessContended, AgreeingUnlessTorn, storageCounts, StorageAt
<1>2. NoCall \in CallRecords /\ storageCall' = [storageCall EXCEPT ![r] = NoCall]
      /\ NoCall.stage = "idle"
  BY <1>1, Ends, NothingIsTyped
<1>3. \A q \in StorageCalls : q # r => storageCall[q].stage = "idle"
  BY <1>1, OthersIdle DEF Rewriting
<1>4. ~Midway  BY <1>1, <1>3 DEF Midway
<1>5. ASSUME NEW i \in Items(object, versions) PROVE bytes'[KeyOf(i)] = i.content
  <2>1. KeyOf(i) \in Keys  BY <1>5, ItemKeys
  <2>2. KeyOf(i) \in KeysOf(c.from)  BY <1>1, <1>5 DEF Agreeing, CallMatches
  <2>3. KeyOf(i) \notin Obsolete(r)  BY <2>2 DEF Obsolete
  <2>4. bytes[KeyOf(i)] = i.content  BY <1>1, <1>4, <1>5 DEF Agreeing, Matched
  <2> QED  BY <1>1, <2>1, <2>3, <2>4
<1>6. Matched(object', versions', bytes')  BY <1>1, <1>5 DEF Matched
<1>7. CallMatches(NoCall, object', versions', bytes')  BY <1>2, IdleMatches
<1>8. \A q \in StorageCalls : q # r => CallMatches(storageCall[q], object', versions', bytes')
  BY <1>3, IdleMatches
<1>9. \A b \in saved' : Matched(b.object, b.versions, b.bytes)  BY <1>1 DEF Agreeing
<1> QED  BY <1>1, <1>2, <1>6, <1>7, <1>8, <1>9, AgreeingLands

LEMMA StorageFailsAgrees ==
  ASSUME ObjectsTyped, AgreeingUnlessTorn, ~contended', ~torn', NEW r \in StorageCalls,
         StorageFails(r)
  PROVE  Agreeing'
<1>1. Agreeing /\ UNCHANGED <<object, versions, bytes, saved>> /\ StorageEnd(r)
      /\ storageCall[r].stage \notin {"droprow", "broken", "old", "commit"}
  BY DEF StorageFails, AgreeingUnlessTorn, StorageAt
<1>2. \A b \in saved' : Matched(b.object, b.versions, b.bytes)  BY <1>1 DEF Agreeing
<1> QED  BY <1>1, <1>2, AgreeingEnds

LEMMA AgreeingStep ==
  ObjectsTyped /\ SettledUnlessContended /\ AgreeingUnlessTorn /\ [StorageNext]_storageVars
    => AgreeingUnlessTorn'
<1> SUFFICES ASSUME ObjectsTyped, SettledUnlessContended, AgreeingUnlessTorn,
                    [StorageNext]_storageVars, ~contended', ~torn'
             PROVE  Agreeing'
  BY DEF AgreeingUnlessTorn
<1>1. CASE UNCHANGED storageVars
  BY <1>1 DEF storageVars, AgreeingUnlessTorn, Agreeing, Midway
<1>2. CASE Undelete  BY <1>2, UndeleteAgrees
<1>3. ASSUME NEW r \in StorageCalls,
             \/ UploadFind(r) \/ UploadVersion(r) \/ PutBytes(r) \/ WriteObject(r)
             \/ RemoveFind(r, "softdelete") \/ RemoveFind(r, "bytes")
             \/ SoftDelete(r) \/ DeleteBytes(r) \/ DeleteRow(r)
             \/ ExportObjects(r) \/ ExportVersions(r)
             \/ RestoreBytes(r) \/ RestoreSelect(r) \/ RestoreCommit(r) \/ RestoreClean(r)
             \/ StorageFails(r)
      PROVE  Agreeing'
  BY <1>3, FindsAgree, UploadVersionAgrees, PutBytesAgrees, WriteObjectAgrees, SoftDeleteAgrees,
     DeleteBytesAgrees, DeleteRowAgrees, ExportVersionsAgrees, RestoreBytesAgrees,
     RestoreSelectAgrees, RestoreCommitAgrees, RestoreCleanAgrees, StorageFailsAgrees
<1> QED  BY <1>1, <1>2, <1>3 DEF StorageNext

StorageInv == ObjectsTyped /\ SettledUnlessContended /\ AgreeingUnlessTorn /\ VersionsKeepUploads

LEMMA StorageInvInit == StorageInit => StorageInv
<1> SUFFICES ASSUME StorageInit PROVE StorageInv  OBVIOUS
<1>1. ObjectsTyped  BY ObjectsTypedInit
<1>2. /\ object = NoObject /\ versions = {} /\ saved = {}
      /\ storageCall = [r \in StorageCalls |-> NoCall] /\ kept = {}
  BY DEF StorageInit
<1>3. NoCall.stage = "idle" /\ NoObject.state = "none"  BY NothingIsTyped DEF NoObject
<1>4. \A r \in StorageCalls : storageCall[r].stage = "idle"  BY <1>2, <1>3
<1>5. Settled  BY <1>2, <1>3, <1>4, IdleFits DEF Settled
<1>6. Agreeing  BY <1>2, <1>3, <1>4, IdleMatches DEF Agreeing, Matched, Items
<1>7. VersionsKeepUploads  BY <1>2 DEF VersionsKeepUploads
<1> QED  BY <1>1, <1>5, <1>6, <1>7
         DEF StorageInv, SettledUnlessContended, AgreeingUnlessTorn

LEMMA StorageInvStep == StorageInv /\ [StorageNext]_storageVars => StorageInv'
BY ObjectsTypedStep, SettledStep, AgreeingStep, KeptStep DEF StorageInv

\* Under every row, deleted ones and old versions included, lie the bytes it
\* was written with, for any number of uploads, backups, restores and failures:
\* unless requests overlapped that nothing keeps apart, or a restore failed
\* half way (upload, remove, exportBackupState, restoreBackupState).
THEOREM CatalogStaysMatched == StorageSpec => []CatalogMatchesBytes
<1>1. StorageInv => CatalogMatchesBytes
  BY DEF StorageInv, AgreeingUnlessTorn, Agreeing, Matched, CatalogMatchesBytes
<1> QED  BY <1>1, StorageInvInit, StorageInvStep, PTL DEF StorageSpec

\* In a bucket with versions every acknowledged upload is the object or one of
\* its versions: of two uploads that read the same row, UNIQUE(object_id,
\* version) lets one go on.
THEOREM UploadsStayKept == StorageSpec => []VersionsKeepUploads
<1>1. StorageInv => VersionsKeepUploads  BY DEF StorageInv
<1> QED  BY <1>1, StorageInvInit, StorageInvStep, PTL DEF StorageSpec
=============================================================================
