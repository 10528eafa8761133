SPECIFICATION Spec
CONSTANTS
  Nonces = {n1, n2, n3}
  Keys = {k1, k2}
  NoKey = NoKey
  MaxClockSkew = 1
  Retention = 2
  Capacity = 2
  MaxTime = 4
SYMMETRY Symmetry
INVARIANTS TypeOK AtMostOnce SeenWereAccepted
PROPERTY ImplementsOneShot
