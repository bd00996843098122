CONSTANTS
    r1 = r1
    r2 = r2
    s1 = s1
    s2 = s2
    s3 = s3
    i1 = i1
    i2 = i2
    RunId = {r1, r2}
    SpanId = {s1, s2, s3}
    InvariantId = {i1, i2}
    NoRun = NoRun
    NoSpan = NoSpan
    MaxLinks = 2
SPECIFICATION MCSpec
SYMMETRY Symmetry
INVARIANTS
    EndedRunHasNoOpenSpan
    ParentInSameRun
    ParentsAreAcyclic
    LinksAgree
PROPERTY EndedRunIsFrozen
