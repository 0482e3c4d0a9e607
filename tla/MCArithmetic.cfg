SPECIFICATION Spec
CONSTANTS
  W = 3
  P = 3
  ELow = 3
  EMax = 4
  L = 6
  IntBits = 6
  MaxPower = 7
  MaxRealPower = 3
INVARIANTS NearestResult OrderAgrees PowerIsProduct IntegerOf
