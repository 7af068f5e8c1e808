SPECIFICATION FairSpec
CONSTANTS
  j1 = j1
  j2 = j2
  j3 = j3
  w1 = w1
  w2 = w2
  s1 = s1
  s2 = s2
  NoJob = NoJob
  Jobs = {j1, j2}
  Urgent = {j2}
  Workers = {w1}
  Slots = {s1, s2}
  MaxAttempts = 2
  DefaultAttempts = 1
  MaxConcurrent = 2
  MaxRetries = 1
  MaxCrashes = 1
  MaxFaults = 1
CHECK_DEADLOCK FALSE
PROPERTIES
  EveryJobSettles
