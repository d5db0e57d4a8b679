SPECIFICATION Spec
CONSTANTS
  node4Capacity = 2
  node16Capacity = 3
  node48Capacity = 4
  node256Capacity = 5
  Keys <- TraceKeys
  Puts <- TracePuts
  Bounds <- TraceBounds
  Takes = {1, 2}
  nil = nil
INVARIANTS NothingReported OnlyForksRemain ArraysLaidOut Footprint
CHECK_DEADLOCK FALSE
