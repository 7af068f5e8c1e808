------------------------------ MODULE MCPlatform ------------------------------
(* Small instances of the platform's services for TLC.  They share no state,*)
(* so a behaviour is one of one service and the others stay as they start.  *)
EXTENDS Campaigns, PreviewDatabases, HostingDeployments, TLC

CONSTANTS r1, r2, o1, o2, f1, f2, m1, k1, Foci

VARIABLE focus

platformVars == <<focus, campaignVars, previewVars, hostingVars>>

PlatformInit == focus \in Foci /\ CampaignInit /\ PreviewInit /\ HostingInit

PlatformNext ==
  \/ focus = "campaigns" /\ CampaignNext /\ UNCHANGED <<focus, previewVars, hostingVars>>
  \/ focus = "previews" /\ PreviewNext /\ UNCHANGED <<focus, campaignVars, hostingVars>>
  \/ focus = "hosting" /\ HostingNext /\ UNCHANGED <<focus, campaignVars, previewVars>>

PlatformSpec == PlatformInit /\ [][PlatformNext]_platformVars

PlatformFairSpec == PlatformSpec /\ PreviewFairness

\* Requests are alike, and so are the previews and the deployments.
PlatformSymmetry == Permutations({r1, r2}) \cup Permutations({o1, o2})
=============================================================================
