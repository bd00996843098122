CONSTANTS
    code1 = code1
    code2 = code2
    uncoded = uncoded
    other = other
    blocked = blocked
    thrown = thrown
    untyped = untyped
    actor = actor
    id1 = id1
    id2 = id2
    id3 = id3
    Request = {code1, code2, uncoded, other, blocked, thrown, untyped}
    Actor = {actor}
    TraceId = {id1, id2, id3}
    ActorOf <- MCActorOf
    TraceOf <- MCTraceOf
    InputOf <- MCInputOf
    RateMax = 2
    RateWindow = 2
    MaxTime = 3
SPECIFICATION Spec
CHECK_DEADLOCK FALSE
INVARIANTS
    RateBounded
    TracesMatchAnswers
