CONSTANTS
    Firmware <- MCFirmware
    Kernels <- MCKernels
    Modules <- MCModules
    Tables = 2
    Page = 2
    MiB = 4
    FourGiB = 20
    MaxEntries = 7
SPECIFICATION Spec
INVARIANTS
    HandedMapSound
    InUseStaysInUse
    NoPageForgotten
CHECK_DEADLOCK FALSE
