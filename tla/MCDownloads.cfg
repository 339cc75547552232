SPECIFICATION Spec
CONSTANTS
  c1 = c1
  c2 = c2
  g1 = g1
  u = u
  nobody = nobody
  a = a
  Calls <- TwoCalls
  Gets <- OneGet
  Users <- OneUser
  NoUser = nobody
  Paths <- OnePath
  MaxVersion = 2
SYMMETRY Symmetry
INVARIANTS
  TypeOK
  KeysWereAllowed
  RepliedKeysOpenNodes
  FileIsNotOlder
  LengthIsRight
  TokensAreFilled
CHECK_DEADLOCK FALSE
