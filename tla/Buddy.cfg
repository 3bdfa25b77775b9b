CONSTANTS
  MaxOrder = 3
  SizeForOrder <- MCSizeForOrder
  MemoryMaps <- MCMemoryMaps
  Requests = {0, 2, 3, 5, 9}
SPECIFICATION Spec
INVARIANTS NoOverlap NoPageLost CountersExact Coalesced
PROPERTY RefinesPageAllocator
