SPECIFICATION RefinesSpec
CONSTANTS
  Main = "main"
  Block <- AllBlock
  Path <- AllPath
  Formals <- AllFormals
  Locals <- AllLocals
  ForBlock = {"for"}
  StdFun = {"abs"}
  Actuals = {"stack","formal","value","address","function","label"}
  PassedProcs = {"p"}
  MaxTemps = 1
  MaxFrames = 3
  MaxLevel = 4
  FP_BITS = 15
  TameGoto = TRUE
VIEW LiveContexts
INVARIANTS
  NoError
  PardsPointToCaller
PROPERTIES
  ImplementsAlgol
  OperationByOperation
