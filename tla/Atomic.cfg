SPECIFICATION FairSpec
CONSTANTS
    r1 = r1
    r2 = r2
    Row = {r1, r2}
    Server = {s1, s2}
    Call = {c1, c2}
    NoCall = NoCall
    ExtRow = {}
    Request <- AtomicRequests
INVARIANT TypeOK
INVARIANT AnswersTrue
INVARIANT NoLeak
INVARIANT NoCauselessError
PROPERTY ImplementsAtomicCalls
PROPERTY Answered
