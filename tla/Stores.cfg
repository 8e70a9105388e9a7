SPECIFICATION StoresSpec
CONSTANTS
  Tunes = {t1}
  Albums = {a1, a2}
  States = {absent, v1}
  Absent = absent
  NoManifest = NoManifest
  Unreadable = Unreadable
  Editors = {u1, u2}
  MaxCrashes = 2
  MaxEdits = 2
  MaxHands = 1
INVARIANTS StoresTypeOK FavouritesKept EditsKept
PROPERTIES ComesUp
