SPECIFICATION Spec
CONSTANTS
  node4Capacity = 2
  node16Capacity = 3
  node48Capacity = 5
  node256Capacity = 6
  Nodes = {c1, c2}
  Prefixes = {p1, p2}
  nil = nil
SYMMETRY NodeSymmetry
INVARIANTS TypeOK SortedLayout DenseLayout DirectCount CapacityBand WalksAreOrdered
PROPERTY ImplementsChildMap
