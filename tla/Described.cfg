SPECIFICATION Spec
CONSTANTS
    r1 = r1
    r2 = r2
    Row = {r1, r2}
    Server = {s1}
    Call = {c1, c2, c3, c4, c5}
    NoCall = NoCall
    ExtRow = {}
    Request <- DescribedRequests
SYMMETRY AnyCall
CONSTRAINT OnceEach
INVARIANT SomeCallIsKept
