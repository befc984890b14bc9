SPECIFICATION LibrarySpec
CONSTANTS
  u1 = u1
  u2 = u2
  s1 = s1
  s2 = s2
  k1 = k1
  e1 = e1
  e2 = e2
  ta = ta
  tb = tb
  Call = {u1, u2}
  Absent = Absent
  Scan = {s1, s2}
  Cv = {k1}
  Editor = {e1, e2}
  NoCv = NoCv
  Text = {ta, tb}
  MaxRevision = 3
SYMMETRY Symmetric
INVARIANTS ReadableIsChecked VersionsConfirmed
PROPERTIES NoLostEdit
CHECK_DEADLOCK FALSE
