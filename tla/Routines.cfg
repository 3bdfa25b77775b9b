CONSTANTS
    Addresses <- MCAddresses
    Byte = {0, 1, 2}
    Calls <- MCCalls
    MemoryMaps <- MCMaps
    PageSize = 1
    Chips <- MCChips
    MaxTicks = 2
    Buses = 3
    Devices = 2
    Functions = 3
    Machines <- MCMachines
    MaxCommands = 2
    Words = 2
    Patience = 2
    LbaMod = 4
    Full = 3
    Requests <- MCRequests
    MaxCalls = 3
SPECIFICATION Spec
INVARIANTS
    Moved
    BitsExact
    ShownWasNow
    FindsEveryDevice
    
PROPERTIES
    AllocHonest
    EveryCallEnds
CHECK_DEADLOCK FALSE
