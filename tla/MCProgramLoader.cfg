SPECIFICATION Spec
CONSTANTS
  Mcpb = 0
  Klie = 48
  Align = 32
  LastOnTape = 50
  LongestMcp = 1024
  Crf <- MCCrf
  Jobs <- MCJobs
INVARIANTS
  Loaded
  UnreadIntact
  CountMatches
  NoAlarm
PROPERTIES
  Terminates
