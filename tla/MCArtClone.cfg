SPECIFICATION Spec
CONSTANTS
  Trees = {original, copy}
  Keys <- CloneKeys
  nil = nil
INVARIANT TreesAgreeWithCallers
PROPERTY ClonesStayApart
