SPECIFICATION Spec

CONSTANTS
    Runs = {r1, r2}
    CloseFds = {}
    DieWithParent = {r1, r2}
    PidNs = {}
    SetupMayFail = {r1, r2}
    MapsMayFail = {r1, r2}
    ArmMayFail = {r1, r2}
    SuperviseMayFail = {r1, r2}
    MayInterrupt = {r1, r2}
    MayKill = {r1, r2}
    FdsHitStatus = {}
    FilterRefuses = {r1, r2}
    HostMayDie = TRUE
    HostIsInit = FALSE
    InitReaps = TRUE

SYMMETRY AnyOrder

INVARIANTS
    MapsBeforeSetup
    NoSilentSetupFailure
    NoOrphanCommand

CHECK_DEADLOCK FALSE
