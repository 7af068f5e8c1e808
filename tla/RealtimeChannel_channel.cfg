SPECIFICATION FairSpec
CONSTANTS
  s1 = s1
  s2 = s2
  NoSocket = NoSocket
  Sockets = {s1, s2}
  Registrations = 1
  MaxReconnects = 1
  MaxSubscribes = 2
  MaxDrops = 2
  MaxErrors = 1
CHECK_DEADLOCK FALSE
INVARIANTS
  OneConnection
PROPERTIES
  ResolvedIsServed
  SubscribeSettles
  Rejoins
