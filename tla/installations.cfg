SPECIFICATION InstallationsSpec
CONSTANTS
  Versions = {v1, v2, v3}
  Legacy = Legacy
  None = None
  MaxInstalls = 3
SYMMETRY Symmetry
INVARIANTS
  CopySurvives
  FailedInstallRestores
  SuccessIsDurable
  DescriptorHasProgram
  WindowsCopySurvives
  ServiceHasItsProgram
PROPERTY FailureRestores
