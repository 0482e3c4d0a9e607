SPECIFICATION Spec
CONSTANTS
  Casts <- MCCasts
  Arguments = 2
  SignAfterLogical = FALSE
INVARIANTS
  MeansWhatIsWritten
  OperandsArePresent
  ListsAreClosed
