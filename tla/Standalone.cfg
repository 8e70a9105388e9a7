SPECIFICATION HomeSpec
CONSTANTS
  Mods = {m1, m2, d}
  Demo = d
  Mute = {m2}
  Removers = {r1, r2}
  NoRow = NoRow
  MaxCalls = 2
  MaxFaults = 1
CHECK_DEADLOCK FALSE
INVARIANTS HomeTypeOK RowsSound KeepsWhatItShould
PROPERTIES HomeSettles
