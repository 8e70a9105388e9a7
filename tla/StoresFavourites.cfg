SPECIFICATION StoresSpec
CONSTANTS
  Tunes = {t1}
  Albums = {a1}
  States = {absent, v1}
  Absent = absent
  NoManifest = NoManifest
  Unreadable = Unreadable
  Editors = {u1}
  MaxCrashes = 1
  MaxEdits = 0
  MaxHands = 0
INVARIANTS FavouritesServed
