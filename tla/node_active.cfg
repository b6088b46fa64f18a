SPECIFICATION Spec
CONSTANTS
  n1 = n1
  n2 = n2
  mover = mover
  stayer = stayer
  d1 = d1
  Nodes = {n1, n2}
  Agents = {mover, stayer}
  Nobody = Nobody
  Loaded <- MCLoaded
  Designations = {d1}
  FirstShards <- MCFirstShards
  MaxMoves <- MCMoves
  MaxEdits <- MCEdits
  MaxControls <- MCControls
CHECK_DEADLOCK FALSE
INVARIANT ActiveKeepNode
