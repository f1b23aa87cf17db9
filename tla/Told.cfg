SPECIFICATION SessionSpec
CONSTANTS
    World <- MCWorld
    Start <- ToldStart
    upper <- MCUpper
    Calls <- ToldCalls
    CAP = 2
    MaxChanges = 0
    FullNames = {}
    format_cell <- MCFormat
    MaxNames = 2
INVARIANT SomeAnswerIsRight
