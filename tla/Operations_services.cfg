SPECIFICATION OperationsSpec
CONSTANTS
  r1 = r1
  r2 = r2
  o1 = o1
  o2 = o2
  Foci = {"billing", "backup"}
  Refunds = {o1, o2}
  Handlers = {r1, r2}
  SubscriptionCount = 2
  MaxDeliveries = 3
  MaxBillingFaults = 1
  Components = {o1, o2}
  BackupCalls = {r1, r2}
  BackupCount = 3
  MaxBackups = 1
  WriteCount = 1
  MaxBackupFaults = 1
CONSTRAINT LastBackupAlone
SYMMETRY OperationsSymmetry
CHECK_DEADLOCK FALSE
INVARIANTS
  RefundedWithinBalance
  RepeatsDoNotSetBack
  PayloadIsCapture
  ChainsAreWhole
