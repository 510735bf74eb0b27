SPECIFICATION FairSpec

CONSTANTS
    Runs = {r1, r2}
    CloseFds = {r1, r2}
    DieWithParent = {r1, r2}
    PidNs = {}
    SetupMayFail = {}
    MapsMayFail = {r1, r2}
    ArmMayFail = {}
    SuperviseMayFail = {}
    MayInterrupt = {}
    MayKill = {}
    FdsHitStatus = {}
    FilterRefuses = {}
    HostMayDie = FALSE
    HostIsInit = FALSE
    InitReaps = TRUE

PROPERTIES
    EveryRunReturns

\* Every call ends, and then nothing moves.
CHECK_DEADLOCK FALSE
