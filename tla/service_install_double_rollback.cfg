SPECIFICATION Spec
CONSTANTS
  Versions = {v1, v2}
  None = None
  MaxInstalls = 1
INVARIANTS
  FailedInstallKeepsCopy
