SPECIFICATION HomeSpec
CONSTANTS
  Mods = {m1, m2, d}
  Demo = d
  Mute = {m2}
  Removers = {r1, r2}
  NoRow = NoRow
  MaxCalls = 0
  MaxFaults = 1
CHECK_DEADLOCK FALSE
PROPERTY EvictedOnly
