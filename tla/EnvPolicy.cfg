SPECIFICATION Spec

CONSTANTS
    A = A
    B = B
    Bad = Bad
    host = host
    other = other
    own = own
    Keys <- MCKeys
    NoKey = NoKey
    BadKeys = {Bad}
    Vals <- MCVals
    Size <- MCSize
    Configs <- MCConfigs
    Environs <- MCEnvirons

INVARIANTS
    CommandSees
    NeverOverrun
    NoSpaceForAReason

\* The environment is complete or refused, and then nothing moves.
CHECK_DEADLOCK FALSE
