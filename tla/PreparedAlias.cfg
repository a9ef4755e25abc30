CONSTANTS
  parameter = parameter
  data = data
  other = other
  weight = weight
  weight2 = weight2
  Tensors = {parameter, data}
  Storages = {weight}
  StorageOf <- SharedStorage
  MaxPrepared = 2
SPECIFICATION WeightSpec
PROPERTIES
  OneShot
CHECK_DEADLOCK FALSE
