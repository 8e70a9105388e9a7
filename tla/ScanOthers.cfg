SPECIFICATION GateSpec
CONSTANTS
  Walks = {w1, w2}
  Unclaimed = {}
  Hvsc = {}
  NoScan = NoScan
CHECK_DEADLOCK FALSE
PROPERTIES OwnOutcome
