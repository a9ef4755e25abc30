CONSTANTS
  cuda = cuda
  triton = triton
  eager = eager
  quantize = quantize
  linear = linear
  None = None
  t1 = t1
  Backends = {cuda, eager}
  Funcs = {quantize}
  Callers = {t1}
  Provides <- TwoBackends
  Early = {eager}
  Orders <- ListOfTwo
  MaxNesting = 0
SPECIFICATION Spec
INVARIANTS
  ValidatedBeforeCall
CHECK_DEADLOCK FALSE
