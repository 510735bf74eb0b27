SPECIFICATION FairSpec

CONSTANTS
    Runs = {r1, r2}
    CloseFds = {r1, r2}
    DieWithParent = {r1, r2}
    PidNs = {r2}
    SetupMayFail = {r1, r2}
    MapsMayFail = {r1}
    ArmMayFail = {}
    SuperviseMayFail = {}
    MayInterrupt = {}
    MayKill = {}
    FdsHitStatus = {r1}
    FilterRefuses = {r2}
    HostMayDie = FALSE
    HostIsInit = FALSE
    InitReaps = TRUE

INVARIANTS
    CommandHoldsNoPipe
    NothingLeftBehind
    ReportReachesCaller
    ErrorMeansNotInhabited

PROPERTIES
    EveryRunReturns
    Contract

\* Every call ends, and then nothing moves.
CHECK_DEADLOCK FALSE
