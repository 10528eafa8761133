SPECIFICATION FairSpec
CONSTANTS
  Macs = {a, b}
  Ports = {p, q}
  Targets = {x}
  Tasks = {t1, t2, t3}
  Disconnects = TRUE
  AcceptFails = TRUE
INVARIANT OneTaskPerForward
PROPERTIES BindFailsOnlyForStopping PortsCloseInOrder
