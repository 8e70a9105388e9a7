SPECIFICATION SidSpec
CONSTANTS
  Songs <- Tunes
  Unparsable = {"broken"}
  Length <- TuneLength
  Seeks = {1}
  Decoded = {}
  PauseCalls = {}
  None = None
  Target = 2
  Quanta = 1
  MaxGen = 2
  MaxCalls = 2
  Causal = TRUE
INVARIANTS SidTypeOK LastAskedPlays
PROPERTIES HeardForEver
