SPECIFICATION Spec
CONSTANTS
  own = own
  adm = adm
  plus = plus
  anon = anon
  keep = keep
  q1 = q1
  q2 = q2
  Users <- MCUsers
  Plain <- MCPlain
  Owner <- own
  Admins <- MCAdmins
  Anonymous <- anon
  Requests <- TwoRequests
  Keep <- keep
  Globals <- MCGlobals
  Perms <- MCPerms
  MaxChanges = 2
SYMMETRY Symmetry
INVARIANTS
  TypeOK
  WriterKeepsPermission
  ListsWhatIsReadable
  EffectiveIsHighest
PROPERTIES
  ChangesAreAuthorized
CHECK_DEADLOCK FALSE
