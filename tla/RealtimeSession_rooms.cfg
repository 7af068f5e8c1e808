SPECIFICATION Spec
CONSTANTS
  c1 = c1
  c2 = c2
  n1 = n1
  n2 = n2
  n3 = n3
  r1 = r1
  r2 = r2
  p1 = p1
  p2 = p2
  NoScope = NoScope
  NoMessage = NoMessage
  Conns = {c1, c2}
  Names = {n1, n2, n3}
  Rooms = {r1, r2}
  Key <- Spelling
  Scopes = {p1}
  MaxChannels = 2
  MaxSubs = 1
  MaxWaiting = 2
CHECK_DEADLOCK FALSE
CONSTRAINT OneNameOrAlone
SYMMETRY Symmetry
INVARIANTS
  RoomsMirrorConnections
  PresentAreMembers
  SubscriptionsAgree
  RemovedLeavesNoTrace
  MembersHaveJoined
