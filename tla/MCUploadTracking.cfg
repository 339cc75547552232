SPECIFICATION FairSpec
CONSTANTS
  p1 = p1
  p2 = p2
  none = none
  Uuids <- TwoUuids
  Paths <- TwoPaths
  Sizes <- TwoSizes
  NoObject <- none
  MaxCrashes = 1
INVARIANTS
  TypeOK
  NoSizeLost
PROPERTIES
  MapStableUnderIteration
  SizeChangesToLength
  ImplementsUploads
  UploadIsResolved
  JobsEnd
