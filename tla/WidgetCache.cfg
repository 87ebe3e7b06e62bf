SPECIFICATION Spec
CONSTANTS
  k1 = k1
  k2 = k2
  v1 = v1
  v2 = v2
  e1 = e1
  e2 = e2
  Key <- MCKey
  Visitor <- MCVisitor
  Editor <- MCEditor
  Lifetime = 2
  Timeout = 1
  MaxChanges = 3
SYMMETRY Alike
INVARIANTS
  StaleNeedsCause
  StaleIsBounded
