SPECIFICATION Spec
CONSTANTS
  d1 = d1
  d2 = d2
  d3 = d3
  d4 = d4
  d5 = d5
  r1 = r1
  r2 = r2
  Doc <- MCDoc
  Text <- MCText
  Request <- MCRequest
  Limit = 0
  MaxFiles = 2
  MaxMishaps = 1
SYMMETRY Alike
INVARIANT ZeroIsUnlimited
