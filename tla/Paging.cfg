SPECIFICATION FairSpec
CONSTANTS
    MAX_ROWS = 3
    DEFAULT_ROWS = 2
    OwnCap = 2
    U32 = 16
    MaxTable = 6
    Stmt <- PagedStmts
    MaxRowsArg <- PageArgs
    SkipArg <- SkipArgs
INVARIANT TypeOK
INVARIANT InOrder
INVARIANT Complete
INVARIANT PageBounded
INVARIANT HintIsExact
PROPERTY Ends
