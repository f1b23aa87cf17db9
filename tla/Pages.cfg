SPECIFICATION Spec
CONSTANTS
    MAX_ROWS = 3
    DEFAULT_ROWS = 2
    OwnCap = 2
    U32 = 16
    MaxTable = 6
    Stmt <- PartStmts
    MaxRowsArg <- PageArgs
    SkipArg <- SkipArgs
INVARIANT SomePagingHolds
