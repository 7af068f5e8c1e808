SPECIFICATION Spec
CONSTANTS
  e1 = e1
  e2 = e2
  r1 = r1
  t1 = t1
  w1 = w1
  w2 = w2
  x1 = x1
  NoId = NoId
  Events = {e1, e2}
  ReplayIds = {}
  TestIds = {}
  Workers = {w1, w2}
  Testers = {}
  Cap = 2
  Threshold = 2
  Batch = 2
  Edits <- NoEdits
  MaxAborts = 0
  MaxOverruns = 1
SYMMETRY WorkerSymmetry
CHECK_DEADLOCK FALSE
INVARIANTS
  Circulation
  RetryBudget
  OutcomeMatchesReceiver
PROPERTIES
  NoAttemptSentTwice
  ImplementsLease
