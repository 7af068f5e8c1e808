SPECIFICATION Spec
CONSTANTS
  j1 = j1
  j2 = j2
  j3 = j3
  w1 = w1
  w2 = w2
  s1 = s1
  s2 = s2
  NoJob = NoJob
  Jobs = {j1}
  Urgent = {}
  Workers = {w1, w2}
  Slots = {s1, s2}
  MaxAttempts = 2
  DefaultAttempts = 1
  MaxConcurrent = 1
  MaxRetries = 1
  MaxCrashes = 1
  MaxFaults = 1
SYMMETRY Symmetry
CHECK_DEADLOCK FALSE
INVARIANTS
  ProcessingIsInHand
  OneRunPerJob
  AttemptBudget
  OutcomeMatchesFunction
PROPERTIES
  ImplementsLease
