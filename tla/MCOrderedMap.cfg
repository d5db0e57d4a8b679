SPECIFICATION Spec
CONSTANTS
  ByteSize = 2
  Infinity <- TheInfinity
  Strings <- TheStrings
  Handles = {o, copy}
  Keys <- OrdinaryKeys
  Values = {v1}
  nil = nil
  none = none
SYMMETRY EitherHandle
INVARIANTS TypeOK EncodingKeepsOrder EncodingRoundTrips
PROPERTY ImplementsTypedMap
