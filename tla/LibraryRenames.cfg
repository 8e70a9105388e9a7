SPECIFICATION LibSpec
CONSTANTS
  Paths = {p1, p2, p3}
  Contents = {c1, c2}
  NoFile = NoFile
  NoRow = NoRow
  Ops = {r1, r2}
  MaxScans = 0
  MaxFaults = 0
SYMMETRY Symmetry
CHECK_DEADLOCK FALSE
PROPERTIES NeverOverwritten
