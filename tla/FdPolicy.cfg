SPECIFICATION Spec

CONSTANTS
    MaxFd = 6
    CIntMax = 7
    OpenSets <- Opens
    Mappings <- PlanLists
    Direct <- DirectLists
    ExtraKeeps <- Extras

INVARIANTS
    NothingElseOpen
    KeptStayOpen
    MappingsHonoured

PROPERTIES
    Terminates

\* The stage ends, and then nothing moves.
CHECK_DEADLOCK FALSE
