CONSTANTS
  MaxOrder = 2
  SizeForOrder <- MCSizeForOrder
  MemoryMaps <- MCMemoryMaps
  Requests = {1, 2, 4, 5}
  Top = 12
  Garbage = {0, 7}
SPECIFICATION Spec
INVARIANTS ListsIntact
PROPERTIES EveryCallReturns RefinesBuddy
