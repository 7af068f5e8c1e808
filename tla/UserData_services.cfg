SPECIFICATION UserDataSpec
CONSTANTS
  r1 = r1
  r2 = r2
  Foci = {"sessions", "storage", "multipart"}
  UserRequests = {r1, r2}
  MaxSessions = 1
  SessionCount = 2
  TokenCount = 3
  MailCount = 2
  UpdateCount = 1
  StorageCalls = {r1, r2}
  UploadCount = 3
  ObjectCount = 2
  ExportCount = 2
  RestoreCount = 2
  MaxStorageFaults = 1
  PartCalls = {r1, r2}
  PartCount = 2
  PutCount = 3
  PartLength <- OneLonger
  MaxMultipartFaults = 1
CONSTRAINTS
  BackupsAlone
  LastTokenAlone
SYMMETRY UserDataSymmetry
CHECK_DEADLOCK FALSE
INVARIANTS
  SessionsBounded
  OneTokenPerSession
  RecoveryIsAuthoritative
  CatalogMatchesBytes
  VersionsKeepUploads
  CompletedHoldsParts
  AbortIsFinal
