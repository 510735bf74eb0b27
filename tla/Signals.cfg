SPECIFICATION FairSpec

CONSTANTS
    Forwarded = {TERM, USR1}
    CHLD = CHLD
    ForwardSettings = {TRUE, FALSE}
    CallerBlocked = {}
    CloneMayFail = TRUE
    SetupMayFail = TRUE
    SignalfdMayFail = TRUE
    PollMayFail = TRUE
    AutoReap = FALSE
    MaxRaises = 3

INVARIANTS
    NoSignalLost
    HostUndisturbed
    NothingLeftBlocked

PROPERTIES
    SignalKillsChild
    ExitIsNoticed

\* The call returns, and then nothing moves.
CHECK_DEADLOCK FALSE
