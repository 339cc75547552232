SPECIFICATION Spec
CONSTANTS
  p1 = p1
  p2 = p2
  none = none
  Uuids <- TwoUuids
  Paths <- OnePath
  Sizes <- TwoSizes
  NoObject <- none
  MaxCrashes = 0
INVARIANTS
  NoDanglingAccess
