SPECIFICATION AssetsSpec
CONSTANTS
  b1 = b1
  b2 = b2
  plain = plain
  tuned = tuned
  Requests = {q1, q2}
  Bytes = {b1, b2}
  Recipes = {plain, tuned}
  Good <- GoodKeys
  NoFile = NoFile
  NoKey = NoKey
  MaxFaults = 2
INVARIANTS AssetsTypeOK ServedIsRight FailedForGood
SYMMETRY Symmetry
