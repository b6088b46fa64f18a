SPECIFICATION Spec
CONSTANTS
  s1 = s1
  s2 = s2
  s3 = s3
  n1 = n1
  n2 = n2
  n3 = n3
  mover = mover
  peer = peer
  NoNode = NoNode
  Servers = {s1, s2, s3}
  Nodes = {n1, n2, n3}
  Agents = {mover, peer}
  Region <- MCRegion3
  Origin <- MCOriginFar
  Movers = {mover}
  Impatient = FALSE
  MaxWaves = 2
  MaxMoves = 3
CHECK_DEADLOCK FALSE
INVARIANTS NothingLost TwoHops WhereItIs
