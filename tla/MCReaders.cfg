SPECIFICATION ReadersSpec
CONSTANTS
  W = 9
  X = 5
  IntBits = 15
  LateZ = FALSE
  Numbers <- NumberItems
  Names <- NameItems
  Others <- OtherItems
  Pieces <- InputPieces
  Absent = Absent
INVARIANTS
  NearestConstant
  FirstNineSymbols
  
