SPECIFICATION Spec
CONSTANTS
  Main = "main"
  Block <- MixedBlock
  Path <- MixedPath
  Formals <- MixedFormals
  Locals <- MixedLocals
  ForBlock = {"for"}
  StdFun = {"abs"}
  Actuals = {"static","address","formal","label","formal procedure"}
  PassedProcs = {"q"}
  MaxTemps = 2
  MaxContexts = 4
INVARIANTS
  TypeOK
  StaticScoping
  PendingOperands
  StdContexts
