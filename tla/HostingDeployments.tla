-------------------------- MODULE HostingDeployments --------------------------
(***************************************************************************)
(* The deployments of one site (src/server/platform/hostingEngine.ts):     *)
(* files uploaded one by one and finalized, or deployed in one request;    *)
(* activation, rollback to an earlier deployment and disabling.  A step is *)
(* one statement, one stored file or one transaction; a transaction that   *)
(* waits for rows sees, as READ COMMITTED has it, what its first statement *)
(* selected and what those rows are when it gets them.                     *)
(***************************************************************************)
EXTENDS Naturals, FiniteSets

CONSTANTS
  Deployments,       \* ids
  SiteFiles,         \* paths of the files of a deployment
  IndexFile,         \* index.html
  HostingCalls,      \* bound: requests in flight
  NoDeployment,
  MaxHostingFaults   \* bound: statements that fail and processes that end

ASSUME HostingAssumption ==
  IndexFile \in SiteFiles /\ NoDeployment \notin Deployments /\ MaxHostingFaults \in Nat

VARIABLES
  deployment,    \* rows of hosting_deployments
  stored,        \* the files of each deployment in the object storage
  site,          \* row of hosting_sites
  hosting,       \* the requests in flight
  mixed,         \* history: deployments whose files were written by two requests at a time
  undone,        \* history: deployments that deploy() marked failed while the site named them
  hostingFaults

hostingVars == <<deployment, stored, site, hosting, mixed, undone, hostingFaults>>

NoHosting == [stage |-> "idle", id |-> NoDeployment, file |-> IndexFile, seen |-> {},
              activate |-> FALSE, deploy |-> FALSE]
FileStages == {"put", "write", "files", "publish"}

HostingTypeOK ==
  /\ deployment \in [Deployments ->
       [status : {"absent", "uploading", "ready", "active", "superseded", "failed"},
        manifest : SUBSET SiteFiles]]
  /\ stored \in [Deployments -> SUBSET SiteFiles]
  /\ site \in [on : BOOLEAN, names : Deployments \cup {NoDeployment}]
  /\ hosting \in [HostingCalls ->
       [stage : {"idle", "setready", "lookup", "supersede", "commit", "log", "fail"} \cup FileStages,
        id : Deployments \cup {NoDeployment}, file : SiteFiles,
        seen : SUBSET (SiteFiles \cup Deployments), activate : BOOLEAN, deploy : BOOLEAN]]
  /\ mixed \subseteq Deployments /\ undone \subseteq Deployments /\ hostingFaults \in Nat

HostingInit ==
  /\ deployment = [d \in Deployments |-> [status |-> "absent", manifest |-> {}]]
  /\ stored = [d \in Deployments |-> {}]
  /\ site = [on |-> TRUE, names |-> NoDeployment]
  /\ hosting = [r \in HostingCalls |-> NoHosting]
  /\ mixed = {} /\ undone = {} /\ hostingFaults = 0

State(d) == deployment[d].status
HostingAt(r, stage) == hosting[r].stage = stage
HostingGo(r, stage) == hosting' = [hosting EXCEPT ![r].stage = stage]
HostingEnd(r) == hosting' = [hosting EXCEPT ![r] = NoHosting]
\* An error ends the request, by way of the catch block in deploy().
HostingError(r) == IF hosting[r].deploy THEN HostingGo(r, "fail") ELSE HostingEnd(r)
Mixes(d) == mixed' = IF \E r \in HostingCalls : hosting[r].id = d /\ hosting[r].stage \in FileStages
                     THEN mixed \cup {d} ELSE mixed

-----------------------------------------------------------------------------
(* Files one by one                                                        *)

StartDeployment(d) ==
  /\ State(d) = "absent"
  /\ deployment' = [deployment EXCEPT ![d].status = "uploading"]
  /\ UNCHANGED <<stored, site, hosting, mixed, undone, hostingFaults>>

UploadFile(r, d, f) ==
  /\ HostingAt(r, "idle") /\ State(d) = "uploading"
  /\ hosting' = [hosting EXCEPT ![r] = [NoHosting EXCEPT
       !.stage = "put", !.id = d, !.file = f, !.seen = deployment[d].manifest]]
  /\ Mixes(d)
  /\ UNCHANGED <<deployment, stored, site, undone, hostingFaults>>

PutFile(r) ==
  /\ HostingAt(r, "put")
  /\ stored' = [stored EXCEPT ![hosting[r].id] = @ \cup {hosting[r].file}]
  /\ HostingGo(r, "write")
  /\ UNCHANGED <<deployment, site, mixed, undone, hostingFaults>>

\* The manifest read before the upload, and the file; whatever the status is.
WriteManifest(r) ==
  /\ HostingAt(r, "write")
  /\ deployment' = [deployment EXCEPT ![hosting[r].id].manifest = hosting[r].seen \cup {hosting[r].file}]
  /\ HostingEnd(r)
  /\ UNCHANGED <<stored, site, mixed, undone, hostingFaults>>

\* finalizeDeployment() asks for an index file; the mutant does not.
AnyManifest(d) == State(d) = "uploading"
Finalizable(d) == State(d) = "uploading" /\ IndexFile \in deployment[d].manifest
FinalizeRead(r, d) ==
  /\ HostingAt(r, "idle") /\ Finalizable(d)
  /\ \E activate \in BOOLEAN :
       hosting' = [hosting EXCEPT ![r] = [NoHosting EXCEPT
         !.stage = "setready", !.id = d, !.activate = activate]]
  /\ Mixes(d)
  /\ UNCHANGED <<deployment, stored, site, undone, hostingFaults>>

SetReady(r) ==
  /\ HostingAt(r, "setready")
  /\ deployment' = [deployment EXCEPT ![hosting[r].id].status = "ready"]
  /\ IF hosting[r].activate THEN HostingGo(r, "lookup") ELSE HostingEnd(r)
  /\ UNCHANGED <<stored, site, mixed, undone, hostingFaults>>

-----------------------------------------------------------------------------
(* deploy(): the whole deployment in one request                           *)

Deploy(r, d) ==
  /\ HostingAt(r, "idle") /\ State(d) = "absent"
  /\ deployment' = [deployment EXCEPT ![d].status = "uploading"]
  /\ hosting' = [hosting EXCEPT ![r] = [NoHosting EXCEPT !.stage = "files", !.id = d, !.deploy = TRUE]]
  /\ UNCHANGED <<stored, site, mixed, undone, hostingFaults>>

DeployFile(r) ==
  /\ HostingAt(r, "files")
  /\ \E f \in SiteFiles \ hosting[r].seen :
       /\ stored' = [stored EXCEPT ![hosting[r].id] = @ \cup {f}]
       /\ hosting' = [hosting EXCEPT ![r].seen = @ \cup {f},
            ![r].stage = IF hosting[r].seen \cup {f} = SiteFiles THEN "publish" ELSE "files"]
  /\ UNCHANGED <<deployment, site, mixed, undone, hostingFaults>>

DeployReady(r) ==
  /\ HostingAt(r, "publish")
  /\ deployment' = [deployment EXCEPT ![hosting[r].id] = [status |-> "ready", manifest |-> SiteFiles]]
  /\ HostingGo(r, "lookup")
  /\ UNCHANGED <<stored, site, mixed, undone, hostingFaults>>

DeployFailed(r) ==
  /\ HostingAt(r, "fail")
  /\ deployment' = [deployment EXCEPT ![hosting[r].id].status = "failed"]
  /\ undone' = IF site.names = hosting[r].id THEN undone \cup {hosting[r].id} ELSE undone
  /\ HostingEnd(r)
  /\ UNCHANGED <<stored, site, mixed, hostingFaults>>

-----------------------------------------------------------------------------
(* activate(), disable()                                                   *)

Activate(r, d) ==
  /\ HostingAt(r, "idle") /\ State(d) # "absent"
  /\ hosting' = [hosting EXCEPT ![r] = [NoHosting EXCEPT !.stage = "lookup", !.id = d]]
  /\ UNCHANGED <<deployment, stored, site, mixed, undone, hostingFaults>>

Activatable(d) == State(d) \in {"ready", "active", "superseded"}
ActivateLookup(r) ==
  /\ HostingAt(r, "lookup")
  /\ IF Activatable(hosting[r].id) THEN HostingGo(r, "supersede") ELSE HostingError(r)
  /\ UNCHANGED <<deployment, stored, site, mixed, undone, hostingFaults>>

\* The first statement of the transaction selects the rows to supersede.
Superseded(d) == {e \in Deployments \ {d} : State(e) = "active"}
ActivateSupersede(r) ==
  /\ HostingAt(r, "supersede")
  /\ hosting' = [hosting EXCEPT ![r].stage = "commit", ![r].seen = Superseded(hosting[r].id)]
  /\ UNCHANGED <<deployment, stored, site, mixed, undone, hostingFaults>>

ActivateCommit(r) ==
  /\ HostingAt(r, "commit")
  /\ deployment' = [d \in Deployments |->
       IF d = hosting[r].id THEN [deployment[d] EXCEPT !.status = "active"]
       ELSE IF d \in hosting[r].seen /\ State(d) = "active"
       THEN [deployment[d] EXCEPT !.status = "superseded"] ELSE deployment[d]]
  /\ site' = [on |-> TRUE, names |-> hosting[r].id]
  /\ HostingGo(r, "log")
  /\ UNCHANGED <<stored, mixed, undone, hostingFaults>>

ActivateAudit(r) ==
  /\ HostingAt(r, "log")
  /\ HostingEnd(r)
  /\ UNCHANGED <<deployment, stored, site, mixed, undone, hostingFaults>>

Disable ==
  /\ site.on
  /\ site' = [site EXCEPT !.on = FALSE]
  /\ UNCHANGED <<deployment, stored, hosting, mixed, undone, hostingFaults>>

\* A statement or a call of the storage fails, or the process ends.
HostingFails(r) ==
  /\ ~HostingAt(r, "idle") /\ hostingFaults < MaxHostingFaults
  /\ hostingFaults' = hostingFaults + 1
  /\ \/ HostingEnd(r)
     \/ ~HostingAt(r, "fail") /\ HostingError(r)
  /\ UNCHANGED <<deployment, stored, site, mixed, undone>>

HostingNext ==
  \/ \E r \in HostingCalls :
       \/ PutFile(r) \/ WriteManifest(r) \/ SetReady(r)
       \/ DeployFile(r) \/ DeployReady(r) \/ DeployFailed(r)
       \/ ActivateLookup(r) \/ ActivateSupersede(r) \/ ActivateCommit(r) \/ ActivateAudit(r)
       \/ HostingFails(r)
       \/ \E d \in Deployments :
            \/ FinalizeRead(r, d) \/ Deploy(r, d) \/ Activate(r, d)
            \/ \E f \in SiteFiles : UploadFile(r, d, f)
  \/ \E d \in Deployments : StartDeployment(d)
  \/ Disable

HostingSpec == HostingInit /\ [][HostingNext]_hostingVars
-----------------------------------------------------------------------------
(* Properties                                                              *)

\* resolveDeployment(): the deployments a visitor is served from.
Served(d) == State(d) \in {"ready", "active", "superseded"}

\* What the site names can be served: its deployment has
\* a status that is served, an index file, and every file of the manifest in
\* the storage; activations and rollbacks that overlap, requests that fail
\* half way and late finalizations included.  Two ways out are left: files of
\* one deployment sent side by side, and deploy() failing once it has activated.
SiteServesWhole ==
  site.names \notin mixed \cup undone \cup {NoDeployment} =>
    /\ Served(site.names)
    /\ IndexFile \in deployment[site.names].manifest
    /\ deployment[site.names].manifest \subseteq stored[site.names]
=============================================================================
