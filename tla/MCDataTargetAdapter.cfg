CONSTANTS
    NarrowBits = 8
    WideBits = 16
    HostPtrBits = 8
    TargetAddrs <- MC_TargetAddrs
    Vals = {0, 1}
    Machines <- MC_Machines
    OSes <- MC_OSes
    Regions <- MC_Regions
SPECIFICATION Spec
INVARIANT TypeOK
INVARIANT PlatformMatchesTable
INVARIANT PointerSizeAgreesWithPlatform
INVARIANT ReadsReachTarget
