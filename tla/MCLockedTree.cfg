SPECIFICATION LTSpec
CONSTANTS
  node4Capacity = 2
  node16Capacity = 3
  node48Capacity = 4
  node256Capacity = 5
  Procs = {g1, g2, g3}
  Keys <- OneKey
  Values = {v1}
  nil = nil
  none = none
  nobody = nobody
INVARIANTS LTTypeOK WritersExclude
PROPERTY EveryMethodReturns
