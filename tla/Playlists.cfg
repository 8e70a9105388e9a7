SPECIFICATION PlSpec
CONSTANTS
  m1 = m1
  u1 = u1
  u2 = u2
  Offered <- Offers
  Lists = {l1}
  Refs = {u1, u2}
  Mods = {m1, m2}
  NoMod = NoMod
  NoRef = NoRef
  NoItem = NoItem
  Copies = 2
  MaxItems = 2
  MaxFaults = 1
INVARIANT PlTypeOK
PROPERTIES AddedLast FetchIsSafe FetchEnds
