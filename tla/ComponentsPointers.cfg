CONSTANTS
  N = 3
  NEdges = 4
  EdgeLists <- RepeatedEdge
SPECIFICATION Spec
PROPERTIES
  PointersOnlyDecrease
CHECK_DEADLOCK FALSE
