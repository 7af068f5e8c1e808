---------------------------- MODULE ObjectStorage ----------------------------
(***************************************************************************)
(* One path of one bucket (src/server/storage/realStorageEngine.ts): its   *)
(* row in storage_objects, the rows of storage_object_versions and the     *)
(* bytes in the object store, which no transaction covers.  Uploads,       *)
(* removals, the export and the restore of a backup work on them without a *)
(* lock.  A step is one statement or one call of the object store.         *)
(***************************************************************************)
EXTENDS Naturals, FiniteSets

CONSTANTS
  StorageCalls,     \* bound: requests in flight
  UploadCount,      \* bound: uploads, each of other bytes
  ObjectCount,      \* bound: objects the path has had
  ExportCount,      \* bound: backups kept
  RestoreCount,     \* bound: restores
  MaxStorageFaults  \* bound: statements and calls that fail

ASSUME StorageAssumption ==
  /\ UploadCount \in Nat /\ ObjectCount \in Nat /\ ExportCount \in Nat
  /\ RestoreCount \in Nat /\ MaxStorageFaults \in Nat

VARIABLES
  versioned,   \* versioning_enabled of the bucket
  object,      \* the row of the path; a soft deleted row keeps the path
  versions,    \* rows of storage_object_versions
  bytes,       \* the object store: what lies under each storage_key
  saved,       \* the exported states
  storageCall, \* the requests in flight
  uploads, objects, restores, storageFaults,
  kept,        \* history: what has been uploaded and not removed since
  contended,   \* history: two requests overlapped that nothing keeps apart
  torn         \* history: a restore failed after it wrote bytes, before it committed

storageVars == <<versioned, object, versions, bytes, saved, storageCall, uploads, objects,
                 restores, storageFaults, kept, contended, torn>>
storageCounts == <<versioned, objects, restores, storageFaults, torn>>

Contents == 1 .. UploadCount
Keys == (1 .. ObjectCount) \X (1 .. UploadCount + 1)
NoObject == [state |-> "none", id |-> 0, version |-> 0, content |-> 0]
NoBackup == [object |-> NoObject, versions |-> {}, bytes |-> [k \in Keys |-> 0]]
NoCall == [stage |-> "idle", found |-> NoObject, id |-> 0, content |-> 0,
           from |-> NoBackup, old |-> {}]
KeyOf(o) == <<o.id, o.version>>
ObjectRows == [state : {"none", "live", "deleted"}, id : 0 .. ObjectCount,
               version : 0 .. UploadCount + 1, content : 0 .. UploadCount]

Backups == [object : ObjectRows, versions : SUBSET ObjectRows, bytes : [Keys -> 0 .. UploadCount]]

StorageTypeOK ==
  /\ versioned \in BOOLEAN /\ object \in ObjectRows /\ versions \subseteq ObjectRows
  /\ bytes \in [Keys -> 0 .. UploadCount]
  /\ saved \subseteq Backups
  /\ storageCall \in [StorageCalls ->
       [stage : {"idle", "version", "put", "row", "softdelete", "bytes", "droprow",
                 "export", "broken", "old", "commit", "clean"},
        found : ObjectRows, id : 0 .. ObjectCount, content : 0 .. UploadCount,
        from : Backups, old : SUBSET Keys]]
  /\ kept \subseteq Contents

StorageInit ==
  /\ versioned \in BOOLEAN
  /\ object = NoObject /\ versions = {} /\ bytes = [k \in Keys |-> 0]
  /\ saved = {} /\ storageCall = [r \in StorageCalls |-> NoCall]
  /\ uploads = 0 /\ objects = 0 /\ restores = 0 /\ storageFaults = 0
  /\ kept = {} /\ contended = FALSE /\ torn = FALSE

StorageAt(r, stage) == storageCall[r].stage = stage
StorageGo(r, stage) == storageCall' = [storageCall EXCEPT ![r].stage = stage]
StorageEnd(r) == storageCall' = [storageCall EXCEPT ![r] = NoCall]
IsRow(id) == object.state # "none" /\ object.id = id

Rewriting == {"bytes", "droprow", "broken", "old", "commit", "clean"}
OthersBusy(r) == {q \in StorageCalls \ {r} : ~StorageAt(q, "idle")}
\* Uploads into a bucket with versions are kept apart by the version they write.
Overlap(r, stage) ==
  contended' = (contended \/ \E q \in OthersBusy(r) :
                  ~versioned \/ stage \in Rewriting \/ storageCall[q].stage \in Rewriting)

-----------------------------------------------------------------------------
(* upload()                                                                *)

UploadFind(r) ==
  /\ StorageAt(r, "idle") /\ uploads < UploadCount
  /\ object.state # "live" => objects < ObjectCount
  /\ uploads' = uploads + 1
  /\ objects' = IF object.state = "live" THEN objects ELSE objects + 1
  /\ storageCall' = [storageCall EXCEPT ![r] =
       IF object.state = "live"
       THEN [NoCall EXCEPT !.stage = IF versioned THEN "version" ELSE "put",
                           !.found = object, !.content = uploads + 1]
       ELSE [NoCall EXCEPT !.stage = "put", !.id = objects + 1, !.content = uploads + 1]]
  /\ Overlap(r, "put")
  /\ UNCHANGED <<versioned, object, versions, bytes, saved, restores, storageFaults, kept, torn>>

\* UNIQUE(object_id, version); the mutant has no such constraint.
NeverTaken(o) == FALSE
VersionTaken(o) == \E v \in versions : v.id = o.id /\ v.version = o.version
UploadVersion(r) ==
  /\ StorageAt(r, "version")
  /\ LET o == storageCall[r].found IN
     IF IsRow(o.id) /\ ~VersionTaken(o)
     THEN versions' = versions \cup {o} /\ StorageGo(r, "put")
     ELSE UNCHANGED versions /\ StorageEnd(r)
  /\ UNCHANGED <<object, bytes, saved, uploads, storageCounts, kept, contended>>

\* The row an upload is about to write.
NextVersion(r) ==
  LET c == storageCall[r] IN
  [state |-> "live", content |-> c.content,
   id |-> IF c.id = 0 THEN c.found.id ELSE c.id,
   version |-> IF c.id = 0 THEN c.found.version + 1 ELSE 1]

PutBytes(r) ==
  /\ StorageAt(r, "put")
  /\ bytes' = [bytes EXCEPT ![KeyOf(NextVersion(r))] = storageCall[r].content]
  /\ StorageGo(r, "row")
  /\ UNCHANGED <<object, versions, saved, uploads, storageCounts, kept, contended>>

\* UPDATE WHERE id, which also undeletes; or INSERT, which UNIQUE(bucket_id,
\* path) refuses also for a path that is soft deleted.
WriteObject(r) ==
  /\ StorageAt(r, "row")
  /\ IF IF storageCall[r].id = 0 THEN IsRow(storageCall[r].found.id) ELSE object.state = "none"
     THEN object' = NextVersion(r) /\ kept' = kept \cup {storageCall[r].content}
     ELSE UNCHANGED <<object, kept>>
  /\ StorageEnd(r)
  /\ UNCHANGED <<versions, bytes, saved, uploads, storageCounts, contended>>

-----------------------------------------------------------------------------
(* remove(), restore(): of the row that object() has found.                *)

RemoveFind(r, stage) ==
  /\ StorageAt(r, "idle") /\ object.state = "live"
  /\ storageCall' = [storageCall EXCEPT ![r] = [NoCall EXCEPT !.stage = stage, !.found = object]]
  /\ Overlap(r, stage)
  /\ UNCHANGED <<object, versions, bytes, saved, uploads, storageCounts, kept>>

SoftDelete(r) ==
  /\ StorageAt(r, "softdelete")
  /\ object' = IF IsRow(storageCall[r].found.id) THEN [object EXCEPT !.state = "deleted"] ELSE object
  /\ StorageEnd(r)
  /\ UNCHANGED <<versions, bytes, saved, uploads, storageCounts, kept, contended>>

DeleteBytes(r) ==
  /\ StorageAt(r, "bytes")
  /\ bytes' = [bytes EXCEPT ![KeyOf(storageCall[r].found)] = 0]
  /\ StorageGo(r, "droprow")
  /\ UNCHANGED <<object, versions, saved, uploads, storageCounts, kept, contended>>

\* The versions go with the row (ON DELETE CASCADE).
DeleteRow(r) ==
  /\ StorageAt(r, "droprow")
  /\ IF IsRow(storageCall[r].found.id)
     THEN object' = NoObject /\ versions' = {} /\ kept' = {}
     ELSE UNCHANGED <<object, versions, kept>>
  /\ StorageEnd(r)
  /\ UNCHANGED <<bytes, saved, uploads, storageCounts, contended>>

Undelete ==
  /\ object.state = "deleted"
  /\ object' = [object EXCEPT !.state = "live"]
  /\ UNCHANGED <<versions, bytes, saved, storageCall, uploads, storageCounts, kept, contended>>

-----------------------------------------------------------------------------
(* exportBackupState(), restoreBackupState()                               *)

ExportObjects(r) ==
  /\ StorageAt(r, "idle") /\ Cardinality(saved) < ExportCount
  /\ storageCall' = [storageCall EXCEPT ![r] = [NoCall EXCEPT !.stage = "export", !.found = object]]
  /\ Overlap(r, "export")
  /\ UNCHANGED <<object, versions, bytes, saved, uploads, storageCounts, kept>>

\* Rows of one backup and the keys of their bytes.
Items(o, vs) == {i \in {o} \cup vs : i.state # "none"}
KeysOf(b) == {KeyOf(i) : i \in Items(b.object, b.versions)}
\* The export fails when bytes are missing.
ExportVersions(r) ==
  /\ StorageAt(r, "export")
  /\ LET o == storageCall[r].found IN
     saved' = IF \A i \in Items(o, versions) : bytes[KeyOf(i)] # 0
              THEN saved \cup {[object |-> o, versions |-> versions,
                bytes |-> [k \in Keys |-> IF \E i \in Items(o, versions) : KeyOf(i) = k
                                         THEN bytes[k] ELSE 0]]}
              ELSE saved
  /\ StorageEnd(r)
  /\ UNCHANGED <<object, versions, bytes, uploads, storageCounts, kept, contended>>

\* All the puts, or those before the one that fails (StorageFails).
RestoreBytes(r) ==
  /\ StorageAt(r, "idle") /\ restores < RestoreCount
  /\ restores' = restores + 1
  /\ \E b \in saved : \E written \in SUBSET KeysOf(b) :
       /\ bytes' = [k \in Keys |-> IF k \in written THEN b.bytes[k] ELSE bytes[k]]
       /\ storageCall' = [storageCall EXCEPT ![r].from = b,
            ![r].stage = IF written = KeysOf(b) THEN "old" ELSE "broken"]
       /\ written # KeysOf(b) => storageFaults < MaxStorageFaults
  /\ Overlap(r, "old")
  /\ UNCHANGED <<versioned, object, versions, saved, uploads, objects, storageFaults, kept, torn>>

RestoreSelect(r) ==
  /\ StorageAt(r, "old")
  /\ storageCall' = [storageCall EXCEPT ![r].stage = "commit",
                       ![r].old = {KeyOf(i) : i \in Items(object, versions)}]
  /\ UNCHANGED <<object, versions, bytes, saved, uploads, storageCounts, kept, contended>>

\* A version refers to its object; an export that reads an upload's version
\* without the object it was made of cannot be restored.
Refers(b) == \A v \in b.versions : b.object.state # "none" /\ v.id = b.object.id
RestoreCommit(r) ==
  /\ StorageAt(r, "commit")
  /\ LET b == storageCall[r].from IN
     IF Refers(b)
     THEN /\ object' = b.object /\ versions' = b.versions
          /\ kept' = {i.content : i \in Items(b.object, b.versions)}
          /\ StorageGo(r, "clean") /\ UNCHANGED torn
     ELSE StorageEnd(r) /\ torn' = TRUE /\ UNCHANGED <<object, versions, kept>>
  /\ UNCHANGED <<versioned, bytes, saved, uploads, objects, restores, storageFaults, contended>>

\* The bytes of rows that are gone; the mutant deletes those of every old row.
DropAll(r) == storageCall[r].old
Obsolete(r) == storageCall[r].old \ KeysOf(storageCall[r].from)
RestoreClean(r) ==
  /\ StorageAt(r, "clean")
  /\ bytes' = [k \in Keys |-> IF k \in Obsolete(r) THEN 0 ELSE bytes[k]]
  /\ StorageEnd(r)
  /\ UNCHANGED <<object, versions, saved, uploads, storageCounts, kept, contended>>

-----------------------------------------------------------------------------
\* A statement or a call of the object store fails, and the request with it.
StorageFails(r) ==
  /\ ~StorageAt(r, "idle") /\ storageFaults < MaxStorageFaults
  /\ storageFaults' = storageFaults + 1
  /\ contended' = (contended \/ StorageAt(r, "droprow"))
  /\ torn' = (torn \/ storageCall[r].stage \in {"broken", "old", "commit"})
  /\ StorageEnd(r)
  /\ UNCHANGED <<versioned, object, versions, bytes, saved, uploads, objects, restores, kept>>

StorageNext ==
  \/ \E r \in StorageCalls :
       \/ UploadFind(r) \/ UploadVersion(r) \/ PutBytes(r) \/ WriteObject(r)
       \/ RemoveFind(r, "softdelete") \/ RemoveFind(r, "bytes")
       \/ SoftDelete(r) \/ DeleteBytes(r) \/ DeleteRow(r)
       \/ ExportObjects(r) \/ ExportVersions(r)
       \/ RestoreBytes(r) \/ RestoreSelect(r) \/ RestoreCommit(r) \/ RestoreClean(r)
       \/ StorageFails(r)
  \/ Undelete

StorageSpec == StorageInit /\ [][StorageNext]_storageVars
-----------------------------------------------------------------------------
(* Properties                                                              *)

Midway == \E r \in StorageCalls : storageCall[r].stage \in {"droprow", "broken", "old", "commit"}

\* The catalog and the object store agree, although no transaction covers
\* both: under every row, deleted ones and old versions included, lie the bytes
\* it was written with, unless a removal or a restore is half way; uploads that
\* fail, overlapping uploads into a bucket with versions, and backups restored
\* one after the other do not break it.
CatalogMatchesBytes ==
  ~contended /\ ~torn /\ ~Midway => \A i \in Items(object, versions) : bytes[KeyOf(i)] = i.content

\* In a bucket with versions no acknowledged upload is lost to another one: it
\* is the object or one of its versions, until it is removed or a backup of
\* another time is restored.
VersionsKeepUploads ==
  versioned /\ ~contended => kept \subseteq {i.content : i \in Items(object, versions)}
=============================================================================
