SPECIFICATION Spec
CONSTANTS
  Main = "main"
  Block <- FrameBlock
  Path <- FramePath
  Formals <- FrameFormals
  Locals <- FrameLocals
  ForBlock = {"for"}
  StdFun = {}
  Actuals = {"static","stack","formal","function"}
  PassedProcs = {}
  MaxTemps = 1
  MaxFrames = 4
  MaxLevel = 4
  FP_BITS = 15
  TameGoto = TRUE
VIEW LiveState
INVARIANTS
  DisplayCoherent
  LocalsReached
  FramesLinked
  BaseOfCurrentBlock
