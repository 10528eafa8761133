SPECIFICATION Spec
CONSTANTS
  m1 = m1
  m2 = m2
  NoMac = NoMac
  Macs <- MCMacs
  Routes <- MCRoutes
  Registries <- MCRegistries
  MaxInputs = 1
  MaxCommands = 2
  MaxActions = 2
  MaxChecks = 2
INVARIANTS TypeOK OneCommandPerMachine NoStaleAnswers
CHECK_DEADLOCK FALSE
PROPERTIES DeletesTheChosen ConfirmationStays PanelsGoOn
