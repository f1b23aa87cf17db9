SPECIFICATION FairSpec
CONSTANTS
    r1 = r1
    r2 = r2
    Row = {r1, r2}
    Server = {s1}
    Call = {c1, c2}
    NoCall = NoCall
    ExtRow = {r1}
    Request <- WaitRequests
PROPERTY WaitsAsTold
