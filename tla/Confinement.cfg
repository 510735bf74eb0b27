SPECIFICATION Spec

CONSTANTS
    Configs <- MCConfigs
    Kernels <- MCKernels
    Files <- FileList
    CrateCaps <- SomeCaps
    MIB = 4
    MaxU64 = 15
    MaxCalls = 2

INVARIANTS
    LandlockExact
    RefusedForAReason
    CapsWithinKeep
    KeptCapsStay
    AsConfigured
    HostUntouched

\* A call ends, and then nothing moves.
CHECK_DEADLOCK FALSE
