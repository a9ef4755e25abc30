CONSTANTS
  Profiles <- Ampere
  Layouts = {"int8"}
  Matrices <- RankThree
  Activations <- MCActivations
  Groups = {0}
  HeldRanks = {2, 3}
  OtherCalls <- NoCalls
SPECIFICATION Spec
INVARIANT ScalesPerRow
CHECK_DEADLOCK FALSE
