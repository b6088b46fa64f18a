SPECIFICATION FairSpec
CONSTANTS
  a = a
  ab = ab
  c = c
  d = d
  f = f
  g = g
  p1 = p1
  p2 = p2
  Entities = {a, ab, c, d, f, g}
  First = {a, ab, c, d, f}
  Busy = {a}
  Plain = {a, c, d, f, g}
  Longer <- MCLonger
  Pages = {p1, p2}
  Readers = {p1}
  Nobody = Nobody
  Columns = 2
  MaxEvents = 3
CHECK_DEADLOCK FALSE
INVARIANTS PanelsInOrder IdentifiersHold InputsInOrder
PROPERTY ListArrives
