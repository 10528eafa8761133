SPECIFICATION FairSpec
CONSTANTS
  Macs = {a}
  Ports = {p}
  Targets = {x}
  Tasks = {t1, t2}
  Disconnects = FALSE
  AcceptFails = FALSE
PROPERTY OldForwardersStop
