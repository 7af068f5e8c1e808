--------------------------- MODULE MultipartUpload ---------------------------
(***************************************************************************)
(* One multipart upload (src/server/storage/realStorageEngine.ts): parts   *)
(* are stored one by one, listed in the row of the upload and put together *)
(* by its completion; an abort, by the user or the lifecycle rules of the  *)
(* bucket, deletes them.  Requests, each part sent with other bytes, work  *)
(* on the row without a lock.  A step is one statement or one call of the  *)
(* object store.                                                           *)
(***************************************************************************)
EXTENDS Naturals, FiniteSets
LOCAL INSTANCE Functions

CONSTANTS
  PartCount,          \* parts of the file
  PutCount,           \* bound: parts sent, repetitions included
  PartLength,         \* the length of the bytes of each
  PartCalls,          \* bound: requests in flight
  MaxMultipartFaults  \* bound: statements and calls that fail

ASSUME MultipartAssumption ==
  /\ PartCount \in Nat \ {0} /\ PutCount \in Nat /\ MaxMultipartFaults \in Nat
  /\ PartLength \in [1 .. PutCount -> Nat \ {0}]

VARIABLES
  multipart,    \* the row of the upload
  partBytes,    \* the object store: what lies under the key of each part; 0 is nothing
  partCall,     \* the requests in flight
  assembled,    \* the objects written by completions, and whether their bytes fit
  answered,     \* history: the bytes of each part the client was told are stored
  doubtful,     \* history: bytes stored by a request that failed afterwards
  sideBySide,   \* history: a part was sent next to another request
  aborts,       \* history: requests under way when an abort was answered
  puts, multipartFaults

multipartVars == <<multipart, partBytes, partCall, assembled, answered, doubtful, sideBySide,
                   aborts, puts, multipartFaults>>

Parts == 1 .. PartCount
NoParts == [n \in Parts |-> 0]
NoPartCall == [stage |-> "idle", part |-> 0, bytes |-> 0, seen |-> NoParts, whole |-> NoParts]
Listed(parts) == {n \in Parts : parts[n] # 0}
PartLists == [Parts -> 0 .. PutCount]
Size(bytes) == IF bytes = 0 THEN 0 ELSE PartLength[bytes]
Total(parts) == SumFunction([n \in Parts |-> Size(parts[n])])

MultipartTypeOK ==
  /\ multipart \in [status : {"pending", "completed", "aborted"}, expired : BOOLEAN, parts : PartLists]
  /\ partBytes \in PartLists /\ answered \in PartLists
  /\ partCall \in [PartCalls ->
       [stage : {"idle", "store", "list", "fetch", "publish", "delete", "complete", "remove", "abort"},
        part : 0 .. PartCount + 1, bytes : 0 .. PutCount, seen : PartLists, whole : PartLists]]
  /\ assembled \subseteq [whole : PartLists, fit : {"exact", "cut", "padded"}, told : PartLists,
                          after : BOOLEAN]
  /\ doubtful \subseteq Parts \X (1 .. PutCount)
  /\ sideBySide \in BOOLEAN /\ aborts \in [answered : BOOLEAN, during : SUBSET PartCalls]
  /\ puts \in Nat /\ multipartFaults \in Nat

MultipartInit ==
  /\ multipart = [status |-> "pending", expired |-> FALSE, parts |-> NoParts]
  /\ partBytes = NoParts /\ answered = NoParts
  /\ partCall = [r \in PartCalls |-> NoPartCall]
  /\ assembled = {} /\ doubtful = {} /\ sideBySide = FALSE
  /\ aborts = [answered |-> FALSE, during |-> {}]
  /\ puts = 0 /\ multipartFaults = 0

PartAt(r, stage) == partCall[r].stage = stage
PartGo(r, stage) == partCall' = [partCall EXCEPT ![r].stage = stage]
PartEnd(r) == /\ partCall' = [partCall EXCEPT ![r] = NoPartCall]
              /\ aborts' = [aborts EXCEPT !.during = @ \ {r}]
UnderWay == {r \in PartCalls : ~PartAt(r, "idle")}
PartUnderWay(r) == partCall[r].stage \in {"store", "list"}
\* From the part at hand on, the next one that was listed; past the last: 0.
NextListed(r, n) ==
  LET later == {m \in Listed(partCall[r].seen) : m > n}
  IN  IF later = {} THEN 0 ELSE CHOOSE m \in later : \A k \in later : m <= k

-----------------------------------------------------------------------------
(* uploadMultipartPart()                                                   *)

Usable == multipart.status = "pending" /\ ~multipart.expired
PartRead(r, n) ==
  /\ PartAt(r, "idle") /\ Usable /\ puts < PutCount
  /\ puts' = puts + 1
  /\ partCall' = [partCall EXCEPT ![r] = [NoPartCall EXCEPT
       !.stage = "store", !.part = n, !.bytes = puts + 1, !.seen = multipart.parts]]
  /\ sideBySide' = (sideBySide \/ UnderWay # {})
  /\ UNCHANGED <<multipart, partBytes, assembled, answered, doubtful, aborts, multipartFaults>>

PartStore(r) ==
  /\ PartAt(r, "store")
  /\ partBytes' = [partBytes EXCEPT ![partCall[r].part] = partCall[r].bytes]
  /\ PartGo(r, "list")
  /\ UNCHANGED <<multipart, assembled, answered, doubtful, sideBySide, aborts, puts, multipartFaults>>

\* The list read before the upload, with this part in place of an earlier one;
\* the mutant forgets the others.
OnlyThis(r) == [NoParts EXCEPT ![partCall[r].part] = partCall[r].bytes]
WithPart(r) == [partCall[r].seen EXCEPT ![partCall[r].part] = partCall[r].bytes]
PartList(r) ==
  /\ PartAt(r, "list")
  /\ multipart' = [multipart EXCEPT !.parts = WithPart(r)]
  /\ answered' = [answered EXCEPT ![partCall[r].part] = partCall[r].bytes]
  /\ PartEnd(r)
  /\ UNCHANGED <<partBytes, assembled, doubtful, sideBySide, puts, multipartFaults>>

-----------------------------------------------------------------------------
(* completeMultipart()                                                     *)

Contiguous == Listed(multipart.parts) \in {1 .. n : n \in Parts}
CompleteRead(r) ==
  /\ PartAt(r, "idle") /\ Usable /\ Contiguous
  /\ partCall' = [partCall EXCEPT ![r] = [NoPartCall EXCEPT
       !.stage = "fetch", !.part = 1, !.seen = multipart.parts]]
  /\ sideBySide' = (sideBySide \/ \E q \in UnderWay : PartUnderWay(q))
  /\ UNCHANGED <<multipart, partBytes, assembled, answered, doubtful, aborts, puts, multipartFaults>>

\* Part after part; one that is missing ends the request.
CompleteFetch(r) ==
  /\ PartAt(r, "fetch")
  /\ LET n == partCall[r].part IN
     IF partBytes[n] = 0 THEN PartEnd(r)
     ELSE /\ partCall' = [partCall EXCEPT ![r].whole[n] = partBytes[n],
               ![r].part = NextListed(r, n),
               ![r].stage = IF NextListed(r, n) = 0 THEN "publish" ELSE "fetch"]
          /\ UNCHANGED aborts
  /\ UNCHANGED <<multipart, partBytes, assembled, answered, doubtful, sideBySide, puts, multipartFaults>>

\* The bytes that were fetched, end to end, in a buffer of the length the row
\* adds up to: what is longer is cut, what is shorter is filled with zeros.
Fit(stored, listed) ==
  IF stored = listed THEN "exact" ELSE IF stored > listed THEN "cut" ELSE "padded"
CompletePublish(r) ==
  /\ PartAt(r, "publish")
  /\ assembled' = assembled \cup
       {[whole |-> partCall[r].whole, told |-> answered,
         fit |-> Fit(Total(partCall[r].whole), Total(partCall[r].seen)),
         after |-> aborts.answered /\ r \notin aborts.during]}
  /\ partCall' = [partCall EXCEPT ![r].stage = "delete", ![r].part = 1]
  /\ UNCHANGED <<multipart, partBytes, answered, doubtful, sideBySide, aborts, puts, multipartFaults>>

\* The parts go one after the other, then the row says what was done.
DeletePart(r, stage, last) ==
  /\ PartAt(r, stage)
  /\ partBytes' = IF partCall[r].part = 0 THEN partBytes ELSE [partBytes EXCEPT ![partCall[r].part] = 0]
  /\ LET n == NextListed(r, partCall[r].part) IN
     partCall' = [partCall EXCEPT ![r].part = n, ![r].stage = IF n = 0 THEN last ELSE stage]
  /\ UNCHANGED <<multipart, assembled, answered, doubtful, sideBySide, aborts, puts, multipartFaults>>

CompleteMark(r) ==
  /\ PartAt(r, "complete")
  /\ multipart' = [multipart EXCEPT !.status = "completed"]
  /\ PartEnd(r)
  /\ UNCHANGED <<partBytes, assembled, answered, doubtful, sideBySide, puts, multipartFaults>>

-----------------------------------------------------------------------------
(* abortMultipart(), also called by applyLifecycle()                       *)

AbortRead(r) ==
  /\ PartAt(r, "idle") /\ multipart.status = "pending"
  /\ partCall' = [partCall EXCEPT ![r] = [NoPartCall EXCEPT !.seen = multipart.parts,
       !.stage = IF Listed(multipart.parts) = {} THEN "abort" ELSE "remove",
       !.part = IF Listed(multipart.parts) = {} THEN 0
                ELSE CHOOSE n \in Listed(multipart.parts) : \A m \in Listed(multipart.parts) : n <= m]]
  /\ sideBySide' = (sideBySide \/ \E q \in UnderWay : PartUnderWay(q))
  /\ UNCHANGED <<multipart, partBytes, assembled, answered, doubtful, aborts, puts, multipartFaults>>

\* The mutant leaves the status alone.
StillPending == multipart
Aborted == [multipart EXCEPT !.status = "aborted"]
AbortMark(r) ==
  /\ PartAt(r, "abort")
  /\ multipart' = Aborted
  /\ partCall' = [partCall EXCEPT ![r] = NoPartCall]
  /\ aborts' = [answered |-> TRUE, during |-> UnderWay \ {r}]
  /\ UNCHANGED <<partBytes, assembled, answered, doubtful, sideBySide, puts, multipartFaults>>

-----------------------------------------------------------------------------
UploadExpires ==
  /\ ~multipart.expired
  /\ multipart' = [multipart EXCEPT !.expired = TRUE]
  /\ UNCHANGED <<partBytes, partCall, assembled, answered, doubtful, sideBySide, aborts, puts, multipartFaults>>

\* A statement or a call of the object store fails, and the request with it.
MultipartFails(r) ==
  /\ ~PartAt(r, "idle") /\ multipartFaults < MaxMultipartFaults
  /\ multipartFaults' = multipartFaults + 1
  /\ doubtful' = IF PartAt(r, "list") THEN doubtful \cup {<<partCall[r].part, partCall[r].bytes>>}
                 ELSE doubtful
  /\ PartEnd(r)
  /\ UNCHANGED <<multipart, partBytes, assembled, answered, sideBySide, puts>>

MultipartNext ==
  \/ \E r \in PartCalls :
       \/ PartStore(r) \/ PartList(r) \/ CompleteRead(r) \/ CompleteFetch(r) \/ CompletePublish(r)
       \/ DeletePart(r, "delete", "complete") \/ CompleteMark(r)
       \/ AbortRead(r) \/ DeletePart(r, "remove", "abort") \/ AbortMark(r) \/ MultipartFails(r)
       \/ \E n \in Parts : PartRead(r, n)
  \/ UploadExpires

MultipartSpec == MultipartInit /\ [][MultipartNext]_multipartVars
-----------------------------------------------------------------------------
(* Properties                                                              *)

\* A completion assembles every part the client was told is stored, with the
\* bytes it was told of, or those of a repetition whose request failed after
\* the bytes were stored; whatever is repeated, completed twice, aborted in the
\* middle or fails, when no part was sent next to another request.  The object
\* is those bytes in full, unless such a repetition has another length than the
\* part the row lists: then its end is cut off or filled with zeros.
CompletedHoldsParts ==
  ~sideBySide => \A o \in assembled :
    /\ \A n \in Parts :
         \/ o.whole[n] = o.told[n]
         \/ o.told[n] # 0 /\ <<n, o.whole[n]>> \in doubtful
    /\ \/ o.fit = "exact"
       \/ \E n \in Parts : /\ <<n, o.whole[n]>> \in doubtful
                           /\ Size(o.whole[n]) # Size(o.told[n])

\* An abort that was answered is final: a request that came later assembles no
\* object.  (One that was under way may, and then calls the upload completed.)
AbortIsFinal == \A o \in assembled : ~o.after
=============================================================================
