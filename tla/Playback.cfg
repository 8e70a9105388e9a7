SPECIFICATION FairSpec
CONSTANTS
  a = a
  b = b
  None = None
  Worlds <- AllWorlds
  Orders <- Orders2And1
  Gestures = {"click", "cue", "next", "prev", "seek", "toggle", "shuffle", "stop", "eject"}
  MaxCalls = 3
  MaxJobs = 2
  MaxEvents = 1
INVARIANTS TypeOK NowPlaying IndexNamesTrack
PROPERTIES GivesUp
CHECK_DEADLOCK FALSE
