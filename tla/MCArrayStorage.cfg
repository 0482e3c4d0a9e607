SPECIFICATION Spec
CONSTANTS
  StaticLists <- MCStatic
  LocalLists <- MCLocal
  Calls <- MCCalls
  Numbers <- MCNumbers
  ConstantsAt = 20000
  MaxNames = 4
  MaxBlocks = 2
  Margin = 1
  Shifts <- Near
  Extra <- TooFew
INVARIANTS AddressesElements HoldsArrays
