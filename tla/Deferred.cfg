CONSTANTS
  SlotMax = 3
  Window = 2
  StepSizes = {1, 3}
  Paths = {TRUE, FALSE}
  MaxSteps = 3
SPECIFICATION Spec
INVARIANTS
  TypeOK
  WindowMatchesState
  CommitMatchesPlainRun
  OutputsMatchPlainRun
  NoSpeculativeCommit
PROPERTIES
  PendingSurvives
  ImplementsVerifyLoop
CHECK_DEADLOCK FALSE
