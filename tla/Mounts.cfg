SPECIFICATION Spec

CONSTANTS
    MaxEntries = 3
    Tables <- MCTables
    Vol = "v"
    Name <- NameSet
    DevNodes <- NodeList

INVARIANTS
    LastEntryWins
    ReadOnlyHolds
    HostWritesAreGranted
    HostMountsIntact

\* Setup ends in success or failure.
CHECK_DEADLOCK FALSE
