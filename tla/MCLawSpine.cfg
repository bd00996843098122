CONSTANTS
    m1 = m1
    m2 = m2
    operations = operations
    unknown = unknown
    execute = execute
    Measurement = {m1, m2}
    Malformed = Malformed
    NoRoot = NoRoot
    BootInput <- MCBootInput
    Sealable <- MCSealable
    NamedHash <- MCNamedHash
    Instance = {ucr, blank}
    Blank = blank
    ucr = ucr
    blank = blank
    NoHandle = NoHandle
    Ttl = 1
    Unparsed = Unparsed
    Corridor = {operations, lawEvolution, unknown}
    Capability = {execute, mutate}
    mutate = mutate
    Granted <- MCGranted
    LawEvolution = lawEvolution
    lawEvolution = lawEvolution
    MaxTime = 1
    MaxTokens = 1
    MaxRestarts = 1
SPECIFICATION Spec
CONSTRAINT OneHalf
INVARIANTS
    RegisteredIsAttested
    AnomaliesStayOut
