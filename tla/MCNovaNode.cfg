CONSTANTS
    s1 = s1
    s2 = s2
    replayed = replayed
    tool = tool
    verified = verified
    posted = posted
    user = user
    Trace = {s1, s2, replayed, tool, verified, posted}
    KindOf <- MCKindOf
    CallerOf <- MCCallerOf
    Caller = {user}
    Anonymous = user
    Refusable = {tool}
    Coding = {tool}
    PerMinute = 1
    PerHour = 2
    MinutesPerHour = 2
    MaxMinute = 1
    Threads = 1
    MaxCrashes = 1
SPECIFICATION Spec
SYMMETRY Symmetry
CONSTRAINT FewCalls
CHECK_DEADLOCK FALSE
INVARIANTS
    ResultIsBacked
    ToolEvidence
    GovernedRunsAreCharged
    OverrunBounded
    EventsMirrored
