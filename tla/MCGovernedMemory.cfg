CONSTANTS
    t1 = t1
    t2 = t2
    s1 = s1
    Token = {t1, t2}
    Span = {s1}
    MaxVersions = 2
    MaxSteps = 2
SPECIFICATION Spec
SYMMETRY Symmetry
INVARIANT ReplayIsOfTheSpan
PROPERTY SpansKeepTheirBindings
