------------------------------ MODULE MCUserData ------------------------------
(* Small instances of the sessions and the files of a user for TLC.  The    *)
(* modules share no state, so a behaviour is one of one module and the      *)
(* others stay as they start.                                               *)
EXTENDS UserSessions, ObjectStorage, MultipartUpload, TLC

CONSTANTS r1, r2, Foci

VARIABLE focus

userDataVars == <<focus, sessionVars, storageVars, multipartVars>>

UserDataInit ==
  /\ focus \in Foci
  /\ SessionInit /\ StorageInit /\ MultipartInit
  /\ versioned => focus = "storage"

UserDataNext ==
  \/ focus = "sessions" /\ SessionNext /\ UNCHANGED <<focus, storageVars, multipartVars>>
  \/ focus = "storage" /\ StorageNext /\ UNCHANGED <<focus, sessionVars, multipartVars>>
  \/ focus = "multipart" /\ MultipartNext /\ UNCHANGED <<focus, sessionVars, storageVars>>

UserDataSpec == UserDataInit /\ [][UserDataNext]_userDataVars

\* Bound: once there is a backup, requests come one after the other.
BackupsAlone ==
  saved # {} => Cardinality({r \in StorageCalls : storageCall[r].stage # "idle"}) <= 1

\* Bound: the last token is issued in a world without changes of the password or
\* the status; it is there for the refreshes that race.
LastTokenAlone == Cardinality(Used(tokens)) = TokenCount => updates = 0

\* The second part that is sent is longer than the others.
OneLonger == [b \in 1 .. PutCount |-> IF b = 2 THEN 2 ELSE 1]

UserDataSymmetry == Permutations({r1, r2})
=============================================================================
