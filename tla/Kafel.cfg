SPECIFICATION Spec

CONSTANTS
    Word = 4
    BitAnd <- MCBitAnd
    MaxSyscallNr = 6
    NoFilter = NoFilter
    MaxIncludeDepth = 3
    Root = Root
    Inputs <- MCInputs
    Ret <- MCRet
    MaxJump = 5
    MaxProgram = 40
    DebugAssertions = TRUE
    StartupCalls <- MCStartup
    Clone3 = 2
    NamespaceCalls <- MCNamespaces
    UnsafeNsFlags = 2
    ArgTuples <- MCArgTuples

INVARIANTS
    Faithful
    SubtreesDecide
    SourceResolved
    PnutRulesHold

\* A compilation ends, and then nothing moves.
CHECK_DEADLOCK FALSE
