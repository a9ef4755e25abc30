CONSTANTS
  cuda = cuda
  triton = triton
  eager = eager
  t1 = t1
  quantize = quantize
  linear = linear
  None = None
  Backends = {cuda, triton, eager}
  Funcs = {quantize, linear}
  Callers = {t1}
  Provides <- ThreeBackends
  Early = {triton, eager}
  Orders <- ListOfThree
  MaxNesting = 2
SPECIFICATION Spec
INVARIANTS
  TypeOK
  NothingCapablePassedOver
  RunsEnabledImplementation
  ValidatedOnceRegistered
  InnermostOverride
CHECK_DEADLOCK FALSE
