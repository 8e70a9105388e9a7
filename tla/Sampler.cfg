SPECIFICATION JamSpec
CONSTANTS
  Tracks = {a, b}
  Idx = {s1, s2}
  First = s1
  Looped = {s1}
  Keys = {k1, k2}
  Plays = {p1, p2}
  None = None
  Unread = Unread
  Null = Null
  MaxCalls = 5
SYMMETRY Symmetry
CHECK_DEADLOCK FALSE
INVARIANTS JamTypeOK CacheIsTracks VoicesAreHeld SongXorPattern
