SPECIFICATION Spec
CONSTANTS
  a = a  A = A  b = b  i1 = i1  i2 = i2  c = c  p = p  q = q
  Macs = {a}
  Canonical <- OneSpelling
  Ips = {i1, i2}
  Ports = {c}
  LocalPorts = {p}
  Inputs <- PairingInputs
  MaxKey = 2
  MaxVerifying = 1
  NoPort = NoPort
  NoKey = NoKey
  Torn = Torn
INVARIANT TimerKeyWorks
