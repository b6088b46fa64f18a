SPECIFICATION ThreadSpec
CONSTANTS
  s1 = s1
  s2 = s2
  n1 = n1
  n2 = n2
  n3 = n3
  mover = mover
  peer = peer
  NoNode = NoNode
  Servers = {s1, s2}
  Nodes = {n1, n2, n3}
  Agents = {mover, peer}
  Region <- MCRegion2
  Origin <- MCOriginFar
  Movers = {mover}
  Impatient = FALSE
  MaxWaves = 1
  MaxMoves = 3
CHECK_DEADLOCK FALSE
INVARIANTS NothingDoubled StopsOffline
