SPECIFICATION FairSpec
CONSTANTS
  Songs <- MCSongs
  Unparsable <- MCUnparsable
  Length <- MCLength
  Seeks <- MCSeeks
  Decoded = {}
  PauseCalls = {"togglePause"}
  None = None
  Target = 2
  Quanta = 1
  MaxGen = 2
  MaxCalls = 2
  Causal = TRUE
INVARIANTS NoCreditLost
PROPERTIES ImplementsStream StreamEnds
