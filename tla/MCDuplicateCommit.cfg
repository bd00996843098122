CONSTANTS
    a1 = a1
    a2 = a2
    i1 = i1
    i2 = i2
    p1 = p1
    p2 = p2
    big = big
    t1 = t1
    t2 = t2
    Id = {i1, i2}
    Blank = Blank
    Missing = Missing
    Payload = {p1, p2, big}
    Null = Null
    Undefined = Undefined
    Unhashable = {big}
    Token = {t1, t2}
    NoToken = NoToken
    BoundTo <- MCBoundTo
    Offered <- MCLifecycle
    Actor = {a1, a2}
    NoEvaluation = NoEvaluation
    MaxResults = 2
SPECIFICATION Spec
CHECK_DEADLOCK FALSE
INVARIANTS
    NoDuplicateCommit
