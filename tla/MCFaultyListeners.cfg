CONSTANTS
    plain = plain
    patched = patched
    Runtimes = {plain, patched}
    EnablePatches = {patched}
    RunId <- MCRunId
    SpanId <- MCSpanId
    SpanOf <- MCSpanOf
    RuntimeOf <- MCRuntimeOf
    DemoSchedule <- MCDemoSchedule
    Payloads = {{}, {"unserializable"}, {"volatile", "uncloneable"}}
    RunIndexes = {}
    InvariantId = {"INV_OUTPUT_SHAPE", "INV_DETERMINISM"}
    NoRun = NoRun
    NoSpan = NoSpan
    FaultKey = {"INV_OUTPUT_SHAPE", "INV_DETERMINISM", "SPAN_ORPHAN"}
    PatchId = {"PATCH_OUTPUT_SHAPE_001", "PATCH_DETERMINISM_001"}
    Approver = {"GOVERNANCE", "ARCHITECTURE"}
    FaultyEvents = {"TRACE_RUN_START", "TRACE_RUN_END", "TRACE_SPAN_START", "TRACE_SPAN_END", "TRACE_INVARIANT", "TRACE_FAULT"}
    MaxPatchOps = 0
    MaxClears = 1
SPECIFICATION Spec
CHECK_DEADLOCK FALSE
INVARIANTS
    LedgerSound
    ReturnedMeansSettled
    RecurrenceIsOrdinal
    PatternsCountFaults
    HubCountsTraced
    TraceNests
PROPERTIES
    SettledIsFinal
    ImplementsReplyBook
