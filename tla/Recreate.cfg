SPECIFICATION Spec
CONSTANTS
    World <- MCWorld
    Start <- Lossy
    upper <- MCUpper
    Calls <- WholeExtract
    CAP = 2
    MaxChanges = 0
    FullNames = {}
    format_cell <- MCFormat
    MaxNames = 2
INVARIANT Recreates
