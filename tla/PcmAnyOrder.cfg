SPECIFICATION Spec
CONSTANTS
  Songs <- MCSongs
  Unparsable <- MCUnparsable
  Length <- MCLength
  Seeks <- MCSeeks
  Decoded = {"song"}
  PauseCalls = {"pause", "unpause"}
  None = None
  Target = 2
  Quanta = 2
  MaxGen = 2
  MaxCalls = 2
  Causal = FALSE
INVARIANTS TypeOK CreditBound RightStream
