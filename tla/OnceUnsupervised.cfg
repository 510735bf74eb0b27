SPECIFICATION Spec

CONSTANTS
    Runs = {r1}
    CloseFds = {}
    DieWithParent = {r1}
    PidNs = {}
    SetupMayFail = {r1}
    MapsMayFail = {r1}
    ArmMayFail = {}
    SuperviseMayFail = {r1}
    MayInterrupt = {}
    MayKill = {r1}
    FdsHitStatus = {}
    FilterRefuses = {}
    HostMayDie = TRUE
    HostIsInit = FALSE
    InitReaps = TRUE

INVARIANTS
    ErrorMeansNotInhabited

\* Every call ends, and then nothing moves.
CHECK_DEADLOCK FALSE
