CONSTANTS
  Profiles <- MCProfiles
  Layouts = {"fp8", "nvfp4", "mxfp8", "int8"}
  Matrices <- MCMatrices
  Activations <- MCActivations
  Groups <- MCGroups
  HeldRanks = {2}
  OtherCalls <- MCOtherCalls
SPECIFICATION Spec
INVARIANTS
  
  LinearCompletes
CHECK_DEADLOCK FALSE
