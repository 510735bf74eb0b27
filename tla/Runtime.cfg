SPECIFICATION Spec

CONSTANTS
    Specs <- SinkSpecs
    MayFail <- Stages
    Filters <- AllFilters
    MayKill = TRUE

INVARIANTS
    EvidenceIsSound
    AcceptedIsConfined
    NeverPartlyInhabited
    SinkFailureIsReported
    NoPrivilegeMissing

\* The child ends, and then nothing moves.
CHECK_DEADLOCK FALSE
