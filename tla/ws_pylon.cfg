SPECIFICATION Spec
CONSTANTS
  p1 = p1
  p2 = p2
  sender = sender
  mover = mover
  Pylons = {p1, p2}
  Agents = {sender, mover}
  Home <- MCHome
  Nobody = Nobody
  Quota <- MCQuota
  Moves <- MCMoves
  SelfMoves = FALSE
  MayClose = {p2}
  MayRestart = {mover}
CHECK_DEADLOCK FALSE
INVARIANTS CalmArrives TableFollows SenderOrder OnceOnly
