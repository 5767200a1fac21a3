CONSTANTS
  PtrSize = 16
  MaxDepth = 3
  Nodes <- MCNodes
  Sequels <- MCSequels
  MaxCalls = 3
  MaxArgs = 2
  Misread = 2
  ProgramsEndPase = TRUE
SPECIFICATION CallSpec
INVARIANTS CallIsGood InputsReachTheProgram OutputsComeBack ListInOrder
PROPERTY GoodIsTaken
CHECK_DEADLOCK FALSE
