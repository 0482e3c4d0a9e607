SPECIFICATION MCSpec
CONSTANTS
  Bim = 0
  Plie = 18
  Room = 2
  Slack = 8
  Name = {"a", "L"}
  Long = {"L"}
  ElseAfterBlock = FALSE
  MaxText = 3
  StreamShift = 2
  ListShift = 2
  Prefilled <- MCPrefilled
  Constant <- MCConstant
  LateFutures = FALSE
  ShiftedWalk = FALSE
  MaxStream = 4
  MaxFutures = 3
  MaxConstants = 3
  MaxNames = 9
  MaxBlocks = 1
  MaxNest = 4
  MaxWork = 5
INVARIANTS
  RegionsApart
  InnermostBlock
  WalkInStep
PROPERTIES
  ImplementsLists
CHECK_DEADLOCK FALSE
