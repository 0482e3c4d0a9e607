SPECIFICATION Spec
CONSTANTS
  Scripts <- MCScripts
  Output <- MCOutput
  OnDisk <- MCOnDisk
  Absent = Absent
  MaxCommands = 3
INVARIANTS RunsItsProgram NothingStale
PROPERTIES EveryCommandEnds
