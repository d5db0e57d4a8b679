SPECIFICATION Spec
CONSTANTS
  ByteSize = 2
  Infinity <- TheInfinity
  Strings <- TheStrings
  Handles = {o}
  Keys <- ZeroKeys
  Values = {v1}
  nil = nil
  none = none
INVARIANT ComparisonsAgree
