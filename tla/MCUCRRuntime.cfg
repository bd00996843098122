CONSTANTS
    plain = plain
    patched = patched
    Runtimes = {plain, patched}
    EnablePatches = {patched}
    RunId <- MCRunId
    SpanId <- MCSpanId
    SpanOf <- MCSpanOf
    RuntimeOf <- MCRuntimeOf
    DemoSchedule <- MCDemoSchedule
    Payloads = {{"volatile"}, {"unserializable"}, {"uncloneable"}}
    RunIndexes <- MCRunIndexes
    InvariantId = {"INV_OUTPUT_SHAPE", "INV_DETERMINISM"}
    NoRun = NoRun
    NoSpan = NoSpan
    FaultKey = {"INV_OUTPUT_SHAPE", "INV_DETERMINISM", "SPAN_ORPHAN"}
    PatchId = {"PATCH_OUTPUT_SHAPE_001", "PATCH_DETERMINISM_001"}
    Approver = {"GOVERNANCE", "ARCHITECTURE"}
    FaultyEvents = {}
    MaxPatchOps = 2
    MaxClears = 0
SPECIFICATION Spec
CHECK_DEADLOCK FALSE
INVARIANTS
    OrphanMeansOpen
    VerdictIsOwn
