SPECIFICATION Spec
CONSTANTS
  node4Capacity = 2
  node16Capacity = 3
  node48Capacity = 4
  node256Capacity = 5
  Procs = {g1, g2}
  Keys <- SomeKeys
  Values = {v1, v2}
  nil = nil
  none = none
INVARIANT CloneIsWhole
PROPERTIES ImplementsSortedMap EveryCallReturns
