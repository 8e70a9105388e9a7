SPECIFICATION GateSpec
CONSTANTS
  Walks = {w1, w2}
  Unclaimed = {b, h}
  Hvsc = {h}
  NoScan = NoScan
CHECK_DEADLOCK FALSE
INVARIANTS GateTypeOK FlagMeansScan
PROPERTIES OutcomeBeforeIdle PageSettles
