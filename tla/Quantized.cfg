CONSTANTS
  A = A
  B = B
  C = C
  D = D
  E = E
  Layouts = {"fp8", "nvfp4", "mxfp8", "int8", "awq", "svdquant", "convrot", "w4a8"}
  Values = {A, B, C, D, E}
  Dims <- ShapeOf
  Sources <- SourcesOf
  Granule = 4
  Devices <- DevicesOf
  Dtypes <- DtypesOf
  Home = "cuda"
  MaxObjects = 3
SPECIFICATION Spec
SYMMETRY ValueSymmetry
INVARIANTS
  TypeOK
  DequantizesToItsValue
  ProductsAgree
  SavedInStandardForm
CHECK_DEADLOCK FALSE
