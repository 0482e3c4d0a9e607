SPECIFICATION RefinesSpec
CONSTANTS
  Main = "main"
  Block <- ScopeBlock
  Path <- ScopePath
  Formals <- ScopeFormals
  Locals <- ScopeLocals
  ForBlock = {}
  StdFun = {}
  Actuals = {"static"}
  PassedProcs = {"q"}
  MaxTemps = 1
  MaxFrames = 4
  MaxLevel = 4
  FP_BITS = 15
  TameGoto = TRUE
VIEW LiveContexts
INVARIANTS
  LexicalScopes
