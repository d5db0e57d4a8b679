SPECIFICATION Spec
CONSTANTS
  node4Capacity = 2
  node16Capacity = 3
  node48Capacity = 4
  node256Capacity = 5
  Procs = {g1}
  Keys <- TreeKeys
  Values = {v1}
  nil = nil
  none = none
INVARIANTS TypeOK TreeInv SizeIsLeafCount NoPanic HistoryIndependent
PROPERTY ImplementsSortedMap
