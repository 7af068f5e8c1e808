SPECIFICATION Spec
CONSTANTS
  e1 = e1
  e2 = e2
  r1 = r1
  t1 = t1
  w1 = w1
  w2 = w2
  x1 = x1
  NoId = NoId
  Events = {}
  ReplayIds = {r1}
  TestIds = {t1}
  Workers = {w1, w2}
  Testers = {x1}
  Cap = 1
  Threshold = 2
  Batch = 2
  Edits <- FewEdits
  MaxAborts = 1
  MaxOverruns = 0
SYMMETRY WorkerSymmetry
CHECK_DEADLOCK FALSE
INVARIANTS
  TypeOK
  TestAddsOneSender
