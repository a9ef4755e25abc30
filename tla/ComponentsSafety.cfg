CONSTANTS
  N = 3
  NEdges = 3
  EdgeLists <- AllLists
SPECIFICATION FairSpec
INVARIANTS
  TypeOK
  NeverJoinsComponents
  EdgesStayJoined
  LabelsCorrect
PROPERTIES
  HookedForever
  Terminates
CHECK_DEADLOCK FALSE
