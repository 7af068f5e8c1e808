SPECIFICATION PlatformFairSpec
CONSTANTS
  r1 = r1
  r2 = r2
  o1 = o1
  o2 = o2
  f1 = f1
  f2 = f2
  m1 = m1
  k1 = k1
  NoItem = NoItem
  NoPreview = NoPreview
  NoDeployment = NoDeployment
  Foci = {"previews"}
  Messages = {m1}
  CampaignIds = {k1}
  Senders = {r1, r2}
  MaxSendFaults = 1
  MaxSlowSends = 1
  Previews = {o1}
  Tables = {m1}
  PreviewInstances = {r1}
  PreviewCalls = {k1}
  MaxPreviewFaults = 1
  Deployments = {o1, o2}
  SiteFiles = {f1, f2}
  IndexFile = f1
  HostingCalls = {r1, r2}
  MaxHostingFaults = 1
CHECK_DEADLOCK FALSE
PROPERTIES
  CleanupIsRetried
