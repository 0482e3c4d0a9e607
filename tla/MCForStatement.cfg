SPECIFICATION MCSpec
CONSTANTS
  Lists = 2
  Assigned = {{}, {"j"}, {"i", "a1"}}
  ForStatements <- MCFor
  Stores <- MCStores
  Address <- MCAddress
  Value <- MCValue
  Holds <- MCHolds
  Statement <- MCStatement
  MaxInt = 4
INVARIANTS
  ControlWords
  ValuesInOrder
PROPERTIES
  ImplementsForList
  Terminates
