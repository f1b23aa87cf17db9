SPECIFICATION Spec
CONSTANTS
    World <- MCWorld
    Start <- MCDatabases
    upper <- MCUpper
    Calls <- WholeExtract
    CAP = 3
    MaxChanges = 0
    FullNames = {}
    format_cell <- MCFormat
    MaxNames = 2
INVARIANTS RecreatesShape RefusedExactly
