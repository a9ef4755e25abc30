CONSTANTS
  PageSize = 2
  Capacity = 9
  Sources = {6, 8, 9}
  Speculative = 1
  Rollback = 3
  MaxRounds = 4
  parameter = parameter
  data = data
  other = other
  weight = weight
  weight2 = weight2
  Threads = {t1, t2, t3}
  Callers = {t1, t2, t3}
  Keys = {k1, k2}
  MaxCalls = 4
  Tensors = {parameter, other}
  Storages = {weight, weight2}
  StorageOf <- OwnStorages
  MaxPrepared = 4
  Streams = {1, 2}
  Shapes = {a}
  Ids = {1, 2}
  MaxForwards = 3
  MaxLinears = 2
  MaxTables = 3
SPECIFICATION ProcessSpec
SYMMETRY ThreadSymmetry
INVARIANTS
  ProcessTypeOK
  EveryCallCountedOnce
  WarnedOncePerRoute
  LinearReadsConverted
  UnmarkedIsCheckpoint
  MatmulReadsItsActivation
  TableOfGivenTensor
  AttendsCommittedPrefix
  RefreshedRowsRetained
PROPERTIES
  SealedPagesKept
CHECK_DEADLOCK FALSE
