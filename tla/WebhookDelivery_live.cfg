SPECIFICATION FairSpec
CONSTANTS
  e1 = e1
  e2 = e2
  r1 = r1
  t1 = t1
  w1 = w1
  w2 = w2
  x1 = x1
  NoId = NoId
  Events = {e1}
  ReplayIds = {}
  TestIds = {}
  Workers = {w1, w2}
  Testers = {}
  Cap = 2
  Threshold = 3
  Batch = 1
  Edits <- NoEdits
  MaxAborts = 1
  MaxOverruns = 1
CHECK_DEADLOCK FALSE
PROPERTIES
  EveryEventSettles
