--------------------------- MODULE PreviewDatabases ---------------------------
(***************************************************************************)
(* The preview databases of one branch                                     *)
(* (src/server/platform/previewDatabaseEngine.ts): create() copies tables  *)
(* and policies of the source environment into a schema of its own,        *)
(* remove() takes them away, expireDue() removes previews that are out of  *)
(* date.  No call locks a preview; the unique index on active previews of  *)
(* a branch is the only guard.  A step is one statement or transaction.    *)
(***************************************************************************)
EXTENDS Naturals, FiniteSets

CONSTANTS
  Previews,          \* ids; every preview is of the one branch
  Tables,            \* tables of the source environment
  PreviewInstances,  \* server processes
  PreviewCalls,      \* bound: requests in flight
  NoPreview,
  MaxPreviewFaults   \* bound: statements that fail and processes that end

ASSUME PreviewAssumption == NoPreview \notin Previews /\ MaxPreviewFaults \in Nat

VARIABLES
  preview,        \* rows of preview_environments and project_environments
  store,          \* the schema, its registry row and the policies of each preview
  known,          \* schemaNames: the schemas a process has made sure of
  request,        \* the requests in flight
  overlapped,     \* history: removed while another request worked on it
  previewFaults

previewVars == <<preview, store, known, request, overlapped, previewFaults>>

Requests == PreviewInstances \X PreviewCalls
Active == {"creating", "ready"}
Removed == {"deleted", "expired"}
NoRow == [status |-> "absent", env |-> "none", due |-> FALSE]
Nothing == [schema |-> FALSE, tables |-> {}, registered |-> FALSE, policies |-> FALSE]
Done == [stage |-> "none", id |-> NoPreview, reason |-> "deleted", todo |-> {}]
CreateStages == {"insert", "schema", "clone", "policies", "ready", "audit", "fail"}
RemoveStages == {"get", "mark", "name", "drop", "finish"}

PreviewTypeOK ==
  /\ preview \in [Previews -> [status : {"absent", "failed", "deleting"} \cup Active \cup Removed,
                               env : {"none", "active", "disabled"}, due : BOOLEAN]]
  /\ store \in [Previews -> [schema : BOOLEAN, tables : SUBSET Tables,
                             registered : BOOLEAN, policies : BOOLEAN]]
  /\ known \in [PreviewInstances -> SUBSET Previews]
  /\ request \in [Requests ->
       [stage : {"none"} \cup CreateStages \cup RemoveStages,
        id : Previews \cup {NoPreview}, reason : Removed, todo : SUBSET Previews]]
  /\ overlapped \subseteq Previews /\ previewFaults \in Nat

PreviewInit ==
  /\ preview = [p \in Previews |-> NoRow] /\ store = [p \in Previews |-> Nothing]
  /\ known = [i \in PreviewInstances |-> {}]
  /\ request = [c \in Requests |-> Done]
  /\ overlapped = {} /\ previewFaults = 0

Status(p) == preview[p].status
ActiveOthers(p) == {q \in Previews \ {p} : Status(q) \in Active}
At(c, stage) == request[c].stage = stage
To(c, stage) == request' = [request EXCEPT ![c].stage = stage]
\* The end of remove(): expireDue() goes on with the next preview.
NextOrDone(c) ==
  request' = [request EXCEPT ![c] =
    IF @.todo = {} THEN Done ELSE [@ EXCEPT !.stage = "none"]]

\* schema(): a process that does not remember the schema registers and makes it.
EnsureSchema(i, p) ==
  IF p \in known[i] THEN UNCHANGED <<known, store>>
  ELSE /\ known' = [known EXCEPT ![i] = @ \cup {p}]
       /\ store' = [store EXCEPT ![p].schema = TRUE, ![p].registered = TRUE]

-----------------------------------------------------------------------------
(* create()                                                                *)

\* Bound: there is an id for every request that is about to insert.
Unborn == {p \in Previews : Status(p) = "absent"}
PreviewCheck(c) ==
  /\ request[c] = Done /\ ActiveOthers(NoPreview) = {}
  /\ Cardinality({d \in Requests : At(d, "insert")}) < Cardinality(Unborn)
  /\ To(c, "insert")
  /\ UNCHANGED <<preview, store, known, overlapped, previewFaults>>

\* preview_environments_active_branch_idx.
UniqueBranch(p) == ActiveOthers(p) = {}

PreviewInsert(c) ==
  /\ At(c, "insert")
  /\ \E p \in Unborn :
       IF UniqueBranch(p)
       THEN /\ preview' = [preview EXCEPT ![p] = [NoRow EXCEPT !.status = "creating",
                                                               !.env = "active"]]
            /\ request' = [request EXCEPT ![c].stage = "schema", ![c].id = p]
       ELSE request' = [request EXCEPT ![c] = Done] /\ UNCHANGED preview
  /\ UNCHANGED <<store, known, overlapped, previewFaults>>

PreviewSchema(c) ==
  /\ At(c, "schema")
  /\ EnsureSchema(c[1], request[c].id)
  /\ To(c, "clone")
  /\ UNCHANGED <<preview, overlapped, previewFaults>>

\* CREATE TABLE fails when the schema, or room for the name, is not there.
CloneTable(c) ==
  /\ At(c, "clone")
  /\ LET p == request[c].id IN
     IF store[p].tables = Tables
     THEN To(c, "policies") /\ UNCHANGED store
     ELSE IF store[p].schema
     THEN /\ \E t \in Tables \ store[p].tables :
               store' = [store EXCEPT ![p].tables = @ \cup {t}]
          /\ UNCHANGED request
     ELSE To(c, "fail") /\ UNCHANGED store
  /\ UNCHANGED <<preview, known, overlapped, previewFaults>>

ClonePolicies(c) ==
  /\ At(c, "policies")
  /\ store' = [store EXCEPT ![request[c].id].policies = TRUE]
  /\ To(c, "ready")
  /\ UNCHANGED <<preview, known, overlapped, previewFaults>>

\* UPDATE ... SET status='ready' WHERE id: whatever the status is by now.
MakeReady(c) ==
  /\ At(c, "ready")
  /\ IF UniqueBranch(request[c].id)
     THEN preview' = [preview EXCEPT ![request[c].id].status = "ready"] /\ To(c, "audit")
     ELSE To(c, "fail") /\ UNCHANGED preview
  /\ UNCHANGED <<store, known, overlapped, previewFaults>>

AuditCreated(c) ==
  /\ At(c, "audit")
  /\ request' = [request EXCEPT ![c] = Done]
  /\ UNCHANGED <<preview, store, known, overlapped, previewFaults>>

\* The catch block; the mutant leaves the preview ready.
MarkReady(p) == [preview EXCEPT ![p].status = "ready"]
MarkFailed(p) == [preview EXCEPT ![p].status = "failed"]
CreateFailed(c) ==
  /\ At(c, "fail")
  /\ preview' = MarkFailed(request[c].id)
  /\ request' = [request EXCEPT ![c] = Done]
  /\ UNCHANGED <<store, known, overlapped, previewFaults>>

-----------------------------------------------------------------------------
(* remove() and expireDue()                                                *)

RequestRemove(c, p) ==
  /\ request[c] = Done /\ Status(p) # "absent"
  /\ request' = [request EXCEPT ![c].stage = "get", ![c].id = p]
  /\ UNCHANGED <<preview, store, known, overlapped, previewFaults>>

OutOfDate == {p \in Previews : Status(p) = "ready" /\ preview[p].due}
ExpireDue(c) ==
  /\ request[c] = Done /\ OutOfDate # {}
  /\ request' = [request EXCEPT ![c].reason = "expired", ![c].todo = OutOfDate]
  /\ UNCHANGED <<preview, store, known, overlapped, previewFaults>>

ExpireNext(c) ==
  /\ At(c, "none")
  /\ \E p \in request[c].todo :
       request' = [request EXCEPT ![c].stage = "get", ![c].id = p, ![c].todo = @ \ {p}]
  /\ UNCHANGED <<preview, store, known, overlapped, previewFaults>>

RemoveGet(c) ==
  /\ At(c, "get")
  /\ IF Status(request[c].id) \in Removed THEN NextOrDone(c) ELSE To(c, "mark")
  /\ UNCHANGED <<preview, store, known, overlapped, previewFaults>>

Shared(p, c) == \E d \in Requests \ {c} : request[d].id = p /\ request[d].stage # "none"
RemoveMark(c) ==
  /\ At(c, "mark")
  /\ preview' = [preview EXCEPT ![request[c].id].status = "deleting"]
  /\ overlapped' = IF Shared(request[c].id, c) THEN overlapped \cup {request[c].id} ELSE overlapped
  /\ To(c, "name")
  /\ UNCHANGED <<store, known, previewFaults>>

RemoveName(c) ==
  /\ At(c, "name")
  /\ EnsureSchema(c[1], request[c].id)
  /\ To(c, "drop")
  /\ UNCHANGED <<preview, overlapped, previewFaults>>

\* DROP SCHEMA IF EXISTS ... CASCADE; the mutant drops nothing.
KeepSchema(p) == UNCHANGED store
DropSchema(p) == store' = [store EXCEPT ![p].schema = FALSE, ![p].tables = {}]
RemoveDrop(c) ==
  /\ At(c, "drop")
  /\ DropSchema(request[c].id)
  /\ To(c, "finish")
  /\ UNCHANGED <<preview, known, overlapped, previewFaults>>

RemoveFinish(c) ==
  /\ At(c, "finish")
  /\ store' = [store EXCEPT ![request[c].id].registered = FALSE,
                            ![request[c].id].policies = FALSE]
  /\ preview' = [preview EXCEPT ![request[c].id].status = request[c].reason,
                                ![request[c].id].env = "disabled"]
  /\ NextOrDone(c)
  /\ UNCHANGED <<known, overlapped, previewFaults>>

-----------------------------------------------------------------------------
(* Time and failures.                                                      *)

\* expires_at has passed; it is looked at while the preview is ready.
PreviewExpires(p) ==
  /\ Status(p) = "ready" /\ ~preview[p].due
  /\ preview' = [preview EXCEPT ![p].due = TRUE]
  /\ UNCHANGED <<store, known, request, overlapped, previewFaults>>

\* A statement fails.  create() goes to its catch block (and ends when that
\* fails, too); expireDue() swallows the error and goes on.
StatementFails(c) ==
  /\ ~At(c, "none") /\ previewFaults < MaxPreviewFaults
  /\ previewFaults' = previewFaults + 1
  /\ IF request[c].stage \in CreateStages \ {"insert", "fail"} THEN To(c, "fail")
     ELSE NextOrDone(c)
  /\ UNCHANGED <<preview, store, known, overlapped>>

ProcessEnds(i) ==
  /\ previewFaults < MaxPreviewFaults
  /\ previewFaults' = previewFaults + 1
  /\ known' = [known EXCEPT ![i] = {}]
  /\ request' = [c \in Requests |-> IF c[1] = i THEN Done ELSE request[c]]
  /\ UNCHANGED <<preview, store, overlapped>>

Creating(c) ==
  \/ PreviewInsert(c) \/ PreviewSchema(c) \/ CloneTable(c) \/ ClonePolicies(c)
  \/ MakeReady(c) \/ AuditCreated(c) \/ CreateFailed(c)
Removing(c) ==
  \/ ExpireNext(c) \/ RemoveGet(c) \/ RemoveMark(c) \/ RemoveName(c)
  \/ RemoveDrop(c) \/ RemoveFinish(c)

PreviewNext ==
  \/ \E c \in Requests :
       \/ PreviewCheck(c) \/ Creating(c) \/ ExpireDue(c) \/ Removing(c) \/ StatementFails(c)
       \/ \E p \in Previews : RequestRemove(c, p)
  \/ \E p \in Previews : PreviewExpires(p)
  \/ \E i \in PreviewInstances : ProcessEnds(i)

PreviewSpec == PreviewInit /\ [][PreviewNext]_previewVars

\* Requests are served to their end, and management requests keep coming.
PreviewFairness ==
  \A c \in Requests :
    /\ WF_previewVars(Creating(c)) /\ WF_previewVars(Removing(c))
    /\ WF_previewVars(ExpireDue(c))
PreviewFairSpec == PreviewSpec /\ PreviewFairness
-----------------------------------------------------------------------------
(* Properties                                                              *)

\* A ready preview can be used: its schema stands with every table of the
\* source, it is registered and its environment is active; whatever failed on
\* the way there, unless a removal overlapped with another request.
ReadyIsUsable ==
  \A p \in Previews \ overlapped : Status(p) = "ready" =>
    /\ store[p] = [schema |-> TRUE, tables |-> Tables, registered |-> TRUE, policies |-> TRUE]
    /\ preview[p].env = "active"

\* A preview that is deleted or expired has left nothing behind: no schema, no
\* registry row, no policies, no active environment; processes that end half
\* way through and removals that are repeated included.
RemovedHoldsNothing ==
  \A p \in Previews \ overlapped : Status(p) \in Removed =>
    store[p] = Nothing /\ preview[p].env = "disabled"

\* The comment "cleanup is retried on the next management request": a cleanup
\* that expireDue() has begun is completed in the end.
CleaningUp(p) ==
  \E c \in Requests : request[c].id = p /\ request[c].reason = "expired" /\ At(c, "mark")
CleanupIsRetried ==
  \A p \in Previews : CleaningUp(p) ~> Status(p) \in Removed
=============================================================================
