SPECIFICATION Spec
CONSTANTS
  node4Capacity = 2
  node16Capacity = 3
  node48Capacity = 4
  node256Capacity = 5
  Keys <- WalkKeys
  Bounds <- WalkBounds
  nil = nil
INVARIANT ReversedBoundsYieldNothing
