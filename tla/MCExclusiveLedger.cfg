CONSTANTS
    l1 = l1
    l2 = l2
    plain = plain
    flat = flat
    date = date
    Instance = {l1, l2}
    Payload = {plain, flat, date}
    Volatile = {date}
    Flat = flat
    MaxAppends = 4
SPECIFICATION ExclusiveSpec
SYMMETRY Symmetry
CHECK_DEADLOCK FALSE
INVARIANTS
    AlwaysChained
    ReturnedIsKept
    SequencesUnique
PROPERTY AppendOnly
