SPECIFICATION Spec
CONSTANTS
    World <- SmallWorld
    Start <- Starts
    upper <- MCUpper
    Calls <- AllCalls
    CAP = 2
    MaxChanges = 3
    FullNames = {2}
    format_cell <- MCFormat
    MaxNames = 2
INVARIANTS TypeOK StableIsExtracted OnlyAsked StableIsDescribed StableIsListed KeysShown
           GeneratedRight DuplicatesTold
