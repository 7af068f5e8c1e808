----------------------------- MODULE BackupChain -----------------------------
(***************************************************************************)
(* The backups of one environment (src/server/backup/backupEngine.ts):     *)
(* full ones, and incremental and differential ones that hold the          *)
(* components in which they differ from a base.  Creation, retention,      *)
(* deletion and restore share the records of backup_records and the        *)
(* artifacts in the object store, and lock neither.  A step is one         *)
(* statement, one call of the object store or one restored component.      *)
(***************************************************************************)
EXTENDS Naturals, FiniteSets

CONSTANTS
  Components,      \* what is backed up: the database, the storage
  BackupCalls,     \* bound: requests and runs of schedules in flight
  BackupCount,     \* bound: backups made
  MaxBackups,      \* of the retention policy
  WriteCount,      \* bound: changes of the data
  MaxBackupFaults  \* bound: statements and calls that fail, processes that end

ASSUME BackupAssumption ==
  BackupCount \in Nat /\ MaxBackups \in Nat \ {0} /\ WriteCount \in Nat /\ MaxBackupFaults \in Nat

VARIABLES
  data,          \* the data of each component; every change makes it another
  records,       \* ids in backup_records; a later backup has a larger id
  artifacts,     \* ids of the artifacts in the object store
  made,          \* what the artifact of each id holds
  restoring,     \* records whose status is 'restoring'
  backupCall,    \* the requests in flight
  unhooked,      \* history: backups whose base was deleted while they were made
  backups, writes, backupFaults

backupVars == <<data, records, artifacts, made, restoring, backupCall, unhooked,
                backups, writes, backupFaults>>

Ids == 1 .. BackupCount
Values == 0 .. WriteCount
Captures == UNION {[S -> Values] : S \in SUBSET Components}
NoData == [c \in {} |-> 0]
NoArtifact == [base |-> 0, full |-> TRUE, components |-> NoData, captured |-> NoData]
NoBackupCall == [stage |-> "idle", type |-> "full", id |-> 0, captured |-> NoData, todo |-> {}]

BackupTypeOK ==
  /\ data \in [Components -> Values]
  /\ records \subseteq Ids /\ artifacts \subseteq Ids /\ restoring \subseteq Ids
  /\ made \in [Ids -> [base : 0 .. BackupCount, full : BOOLEAN,
                       components : Captures, captured : Captures]]
  /\ backupCall \in [BackupCalls ->
       [stage : {"idle", "base", "put", "insert", "retain", "next", "check", "artifact", "row",
                 "payload", "restore", "restored"},
        type : {"full", "incremental", "differential"},
        id : 0 .. BackupCount, captured : Captures, todo : SUBSET (Ids \cup Components)]]
  /\ unhooked \subseteq Ids /\ backups \in Nat /\ writes \in Nat /\ backupFaults \in Nat

BackupInit ==
  /\ data = [c \in Components |-> 0]
  /\ records = {} /\ artifacts = {} /\ restoring = {} /\ unhooked = {}
  /\ made = [b \in Ids |-> NoArtifact]
  /\ backupCall = [r \in BackupCalls |-> NoBackupCall]
  /\ backups = 0 /\ writes = 0 /\ backupFaults = 0

BackupAt(r, stage) == backupCall[r].stage = stage
BackupGo(r, stage) == backupCall' = [backupCall EXCEPT ![r].stage = stage]
BackupEnd(r) == backupCall' = [backupCall EXCEPT ![r] = NoBackupCall]
\* The mutant lets the base win.
BaseOver(base, own) == [c \in DOMAIN base \cup DOMAIN own |-> IF c \in DOMAIN base THEN base[c] ELSE own[c]]
Over(base, own) == [c \in DOMAIN base \cup DOMAIN own |-> IF c \in DOMAIN own THEN own[c] ELSE base[c]]

\* payload(): a backup's components over those of its base.
Payload[b \in Ids] ==
  IF made[b].base = 0 THEN made[b].components
  ELSE Over(Payload[made[b].base], made[b].components)
\* payload() needs the record and the artifact of every backup on the way.
Whole[b \in Ids] ==
  b \in records \cap artifacts /\ (made[b].base # 0 => Whole[made[b].base])
NewestRecord(S) == CHOOSE b \in S : \A a \in S : a <= b
Dependants(b) == {a \in records : made[a].base = b}
Deletes(b) == {r \in BackupCalls : backupCall[r].stage \in {"artifact", "row"} /\ backupCall[r].id = b}

-----------------------------------------------------------------------------
(* createBackup()                                                          *)

Capture(r, type, S) ==
  /\ BackupAt(r, "idle") /\ backups < BackupCount
  /\ backupCall' = [backupCall EXCEPT ![r] = [NoBackupCall EXCEPT
       !.stage = "base", !.type = type, !.captured = [c \in S |-> data[c]]]]
  /\ UNCHANGED <<data, records, artifacts, made, restoring, unhooked, backups, writes, backupFaults>>

BaseOf(type) ==
  LET fulls == {b \in records : made[b].full} IN
  CASE type = "incremental" /\ records # {} -> NewestRecord(records)
    [] type = "differential" /\ fulls # {}  -> NewestRecord(fulls)
    [] OTHER                                -> 0
\* The components that differ from those of the base with all its chain.
Differing(captured, old) ==
  [c \in {c \in DOMAIN captured : c \notin DOMAIN old \/ captured[c] # old[c]} |-> captured[c]]

ChooseBase(r) ==
  /\ BackupAt(r, "base") /\ backups < BackupCount
  /\ LET call == backupCall[r]
         base == BaseOf(call.type)
         id   == backups + 1 IN
     IF base # 0 /\ ~Whole[base]
     THEN BackupEnd(r) /\ UNCHANGED <<made, unhooked, backups>>
     ELSE /\ backups' = id
          /\ made' = [made EXCEPT ![id] = [base |-> base, full |-> call.type = "full",
               captured |-> call.captured,
               components |-> IF base = 0 THEN call.captured
                              ELSE Differing(call.captured, Payload[base])]]
          /\ unhooked' = IF Deletes(base) # {} THEN unhooked \cup {id} ELSE unhooked
          /\ backupCall' = [backupCall EXCEPT ![r].stage = "put", ![r].id = id]
  /\ UNCHANGED <<data, records, artifacts, restoring, writes, backupFaults>>

PutArtifact(r) ==
  /\ BackupAt(r, "put")
  /\ artifacts' = artifacts \cup {backupCall[r].id}
  /\ BackupGo(r, "insert")
  /\ UNCHANGED <<data, records, made, restoring, unhooked, backups, writes, backupFaults>>

InsertRecord(r) ==
  /\ BackupAt(r, "insert")
  /\ records' = records \cup {backupCall[r].id}
  /\ BackupGo(r, "retain")
  /\ UNCHANGED <<data, artifacts, made, restoring, unhooked, backups, writes, backupFaults>>

-----------------------------------------------------------------------------
(* enforceRetention(), deleteBackup()                                      *)

SetRetention(r) ==
  /\ BackupAt(r, "idle") /\ records # {}
  /\ BackupGo(r, "retain")
  /\ UNCHANGED <<data, records, artifacts, made, restoring, unhooked, backups, writes, backupFaults>>

\* What is too many or, however time went, too old, and nobody's base now.
Retain(r) ==
  /\ BackupAt(r, "retain")
  /\ \E old \in 0 .. BackupCount :
       LET todo == {b \in records :
             /\ b <= old \/ Cardinality({a \in records : a > b}) >= MaxBackups
             /\ Dependants(b) = {}} IN
       backupCall' = [backupCall EXCEPT ![r] =
         IF todo = {} THEN NoBackupCall ELSE [NoBackupCall EXCEPT !.stage = "next", !.todo = todo]]
  /\ UNCHANGED <<data, records, artifacts, made, restoring, unhooked, backups, writes, backupFaults>>

NextObsolete(r) ==
  /\ BackupAt(r, "next")
  /\ \E b \in backupCall[r].todo :
       backupCall' = [backupCall EXCEPT ![r].stage = "check", ![r].id = b, ![r].todo = @ \ {b}]
  /\ UNCHANGED <<data, records, artifacts, made, restoring, unhooked, backups, writes, backupFaults>>

DeleteBackup(r, b) ==
  /\ BackupAt(r, "idle") /\ b \in records
  /\ backupCall' = [backupCall EXCEPT ![r].stage = "check", ![r].id = b]
  /\ UNCHANGED <<data, records, artifacts, made, restoring, unhooked, backups, writes, backupFaults>>

\* A base is not deleted; the mutant does not look.
NeverBase(b) == FALSE
IsBase(b) == Dependants(b) # {}
AfterDelete(r) == IF backupCall[r].todo = {} THEN NoBackupCall
               ELSE [backupCall[r] EXCEPT !.stage = "next", !.id = 0]
\* A base ends the pass with an error, a record that is gone does not.
CheckDelete(r) ==
  /\ BackupAt(r, "check")
  /\ LET b == backupCall[r].id IN
     /\ backupCall' = [backupCall EXCEPT ![r] =
          IF b \notin records THEN AfterDelete(r)
          ELSE IF IsBase(b) THEN NoBackupCall ELSE [backupCall[r] EXCEPT !.stage = "artifact"]]
     /\ unhooked' = IF b \in records /\ ~IsBase(b)
          THEN unhooked \cup {backupCall[q].id : q \in {q \in BackupCalls :
                 /\ backupCall[q].stage \in {"put", "insert"}
                 /\ made[backupCall[q].id].base = b}}
          ELSE unhooked
  /\ UNCHANGED <<data, records, artifacts, made, restoring, backups, writes, backupFaults>>

DeleteArtifact(r) ==
  /\ BackupAt(r, "artifact")
  /\ artifacts' = artifacts \ {backupCall[r].id}
  /\ BackupGo(r, "row")
  /\ UNCHANGED <<data, records, made, restoring, unhooked, backups, writes, backupFaults>>

DeleteRecord(r) ==
  /\ BackupAt(r, "row")
  /\ records' = records \ {backupCall[r].id} /\ restoring' = restoring \ {backupCall[r].id}
  /\ backupCall' = [backupCall EXCEPT ![r] = AfterDelete(r)]
  /\ UNCHANGED <<data, artifacts, made, unhooked, backups, writes, backupFaults>>

-----------------------------------------------------------------------------
(* restoreBackup(): component after component                              *)

Restore(r, b, S) ==
  /\ BackupAt(r, "idle") /\ b \in records /\ Whole[b]
  /\ restoring' = restoring \cup {b}
  /\ backupCall' = [backupCall EXCEPT ![r].stage = "payload", ![r].id = b, ![r].todo = S]
  /\ UNCHANGED <<data, records, artifacts, made, unhooked, backups, writes, backupFaults>>

\* The chain is read again, and may be gone by now.
ReadPayload(r) ==
  /\ BackupAt(r, "payload")
  /\ BackupGo(r, IF Whole[backupCall[r].id] THEN "restore" ELSE "restored")
  /\ UNCHANGED <<data, records, artifacts, made, restoring, unhooked, backups, writes, backupFaults>>

RestoreComponent(r) ==
  /\ BackupAt(r, "restore")
  /\ \E c \in backupCall[r].todo :
       /\ data' = IF c \in DOMAIN Payload[backupCall[r].id]
                  THEN [data EXCEPT ![c] = Payload[backupCall[r].id][c]] ELSE data
       /\ backupCall' = [backupCall EXCEPT ![r].todo = @ \ {c},
            ![r].stage = IF backupCall[r].todo = {c} THEN "restored" ELSE "restore"]
  /\ UNCHANGED <<records, artifacts, made, restoring, unhooked, backups, writes, backupFaults>>

\* The status becomes 'completed', or 'failed' after an error.
RestoreEnds(r) ==
  /\ backupCall[r].stage \in {"restore", "restored"}
  /\ BackupAt(r, "restore") => backupFaults < MaxBackupFaults
  /\ backupFaults' = IF BackupAt(r, "restore") THEN backupFaults + 1 ELSE backupFaults
  /\ restoring' = restoring \ {backupCall[r].id}
  /\ BackupEnd(r)
  /\ UNCHANGED <<data, records, artifacts, made, unhooked, backups, writes>>

-----------------------------------------------------------------------------
WriteData(c) ==
  /\ writes < WriteCount
  /\ writes' = writes + 1 /\ data' = [data EXCEPT ![c] = writes + 1]
  /\ UNCHANGED <<records, artifacts, made, restoring, backupCall, unhooked, backups, backupFaults>>

\* A statement or a call fails and its request with it, or the process ends.
BackupFails(r) ==
  /\ ~BackupAt(r, "idle") /\ backupFaults < MaxBackupFaults
  /\ backupFaults' = backupFaults + 1
  /\ BackupEnd(r)
  /\ UNCHANGED <<data, records, artifacts, made, restoring, unhooked, backups, writes>>

BackupNext ==
  \/ \E r \in BackupCalls :
       \/ ChooseBase(r) \/ PutArtifact(r) \/ InsertRecord(r) \/ SetRetention(r) \/ Retain(r)
       \/ NextObsolete(r) \/ CheckDelete(r) \/ DeleteArtifact(r) \/ DeleteRecord(r)
       \/ ReadPayload(r) \/ RestoreComponent(r) \/ RestoreEnds(r) \/ BackupFails(r)
       \/ \E b \in Ids : DeleteBackup(r, b) \/ Restore(r, b, Components)
       \/ \E type \in {"full", "incremental", "differential"}, S \in SUBSET Components \ {{}} :
            Capture(r, type, S)
  \/ \E c \in Components : WriteData(c)

BackupSpec == BackupInit /\ [][BackupNext]_backupVars
-----------------------------------------------------------------------------
(* Properties                                                              *)

\* A backup restores what was captured for it, through however many bases of
\* other components and types, and over data a restore has set back.
PayloadIsCapture ==
  \A b \in records : \A c \in DOMAIN made[b].captured :
    c \in DOMAIN Payload[b] /\ Payload[b][c] = made[b].captured[c]

\* Retention and deletion leave no backup without its base, creations that fail
\* half way and passes side by side included, unless the base was deleted
\* while the backup was made.
ChainsAreWhole ==
  \A b \in records \ unhooked : made[b].base # 0 =>
    made[b].base \in records \cap artifacts
=============================================================================
