SPECIFICATION Spec
CONSTANTS
  a = a  A = A  b = b  i1 = i1  i2 = i2  c = c  p = p  q = q
  Macs = {a, A, b}
  Canonical <- TwoSpellings
  Ips = {i1, i2}
  Ports = {c}
  LocalPorts = {p, q}
  Inputs <- DashboardInputs
  MaxKey = 2
  MaxVerifying = 1
  NoPort = NoPort
  NoKey = NoKey
  Torn = Torn
INVARIANTS NoConflicts MemoryMatchesFile VerifiedKeyAnswered TimersFollowEdits
PROPERTY RevokedKeysStayRevoked
SYMMETRY Spellings
