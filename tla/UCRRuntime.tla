----------------------------- MODULE UCRRuntime -----------------------------
(***************************************************************************)
(* Concurrent calls of UCRRuntime.run (packages/ucr-runtime/src/           *)
(* ucrRuntime.ts) over one RunStore, one TraceBus, the process-wide fault  *)
(* journal and pattern ledger and the process-wide patch ledger.           *)
(*                                                                         *)
(* JavaScript runs a call without interruption up to its next await, so    *)
(* one action is the code between two awaits; between two actions of a     *)
(* call any other call, or an operator of the patch ledger, may run.  A    *)
(* call is named by the run id it draws (randomUUID: fresh for each call), *)
(* SpanOf gives the id of its one span.                                    *)
(*                                                                         *)
(* A listener of the trace bus may throw: emit has pushed the event to the *)
(* log by then, the hub's listener (subscribed first) has run, and the     *)
(* exception reaches the code that emitted.  The payload of a call may make *)
(* JSON.stringify and structuredClone throw: every such throw is modelled. *)
(***************************************************************************)
EXTENDS FaultJournal, Integers, FiniteSets

CONSTANTS
    Runtimes,       \* instances of UCRRuntime in the process
    RuntimeOf,      \* the instance each call is made on
    SpanOf,         \* the span each call opens
    EnablePatches,  \* the instances built with enablePatches
    DemoSchedule,   \* the demoSchedule of each instance
    Payloads,       \* the payloads callers give, each the set of its traits
    RunIndexes,     \* the run indexes callers give
    FaultyEvents,   \* the event types on which some listener may throw
    MaxPatchOps,    \* bound: operations on the patch ledger
    MaxClears       \* bound: calls of FaultJournal.clear

Modes == {"good", "string", "random", "throw"}

\* What tells payloads apart: a volatile field in them, something JSON.stringify
\* throws on (a BigInt, a cycle), something structuredClone throws on (a function).
Trait == {"volatile", "unserializable", "uncloneable"}

SHAPE == "INV_OUTPUT_SHAPE"
DETERMINISM == "INV_DETERMINISM"
SPAN_ORPHAN == "SPAN_ORPHAN"
SHAPE_PATCH == "PATCH_OUTPUT_SHAPE_001"
DETERMINISM_PATCH == "PATCH_DETERMINISM_001"

ASSUME CallsAssumption ==
    /\ RuntimeOf \in [RunId -> Runtimes]
    /\ SpanOf \in [RunId -> SpanId]
    /\ \A r, q \in RunId : SpanOf[r] = SpanOf[q] => r = q
    /\ EnablePatches \subseteq Runtimes
    /\ DemoSchedule \in [Runtimes -> Seq(Modes)]
ASSUME InputsAssumption == Payloads \subseteq SUBSET Trait /\ RunIndexes \subseteq Int
ASSUME KeysAssumption ==
    /\ {SHAPE, DETERMINISM, SPAN_ORPHAN} \subseteq FaultKey
    /\ {SHAPE_PATCH, DETERMINISM_PATCH} \subseteq PatchId
ASSUME BoundsAssumption == MaxPatchOps \in Nat /\ MaxClears \in Nat

VARIABLES
    store,       \* the RunStore
    trace,       \* the TraceBus log, run by run
    journal,     \* globalThis.faultJournal
    patterns,    \* globalThis.patternLedger
    hub,         \* the pattern ledger of a GovernanceHub subscribed to the bus
    patches,     \* globalThis.patchLedger
    runCounter,  \* of each runtime
    built,       \* the runtimes constructed so far
    pc,          \* where each call waits
    call,        \* the local variables of each call
    result,      \* what each call returned
    patchOps, clears

ledgers == <<journal, patterns, hub>>
env     == <<patches, built, patchOps, clears>>
vars    == <<store, trace, ledgers, runCounter, env, pc, call, result>>

\* plan, shape, determinism: the promise awaited in execute; evaluated, threw:
\* execute has settled and its caller has not resumed; guarded: withSpanGuard
\* has settled and run has not resumed.
PC == {"idle", "plan", "shape", "determinism", "evaluated", "threw", "guarded",
       "done", "rejected"}

\* An output is told apart by what the two invariants and the two patches look
\* at: is it a plain object, is there a volatile field at its top level, what
\* are the traits of the payload it echoes.
Output == [object : BOOLEAN, top : BOOLEAN, echo : SUBSET Trait]

NoOutput == [object |-> FALSE, top |-> FALSE, echo |-> {}]

Call == [mode : Modes, payload : SUBSET Trait, output : Output,
         error : BOOLEAN, orphan : BOOLEAN]

Event == [type : {"TRACE_RUN_START", "TRACE_RUN_END", "TRACE_SPAN_START",
                  "TRACE_SPAN_END"}]
         \cup [type : {"TRACE_INVARIANT"}, key : FaultKey, passed : BOOLEAN]
         \cup [type : {"TRACE_FAULT"}, key : FaultKey]

NoResult == [status |-> "none", faults |-> <<>>, orphan |-> FALSE]

\* The faults of a result are those GetByRun gave it.
Result(x) ==
    /\ x = [status |-> x.status, faults |-> x.faults, orphan |-> x.orphan]
    /\ x.status \in {"none", "completed", "failed"} /\ x.orphan \in BOOLEAN
    /\ \A n \in DOMAIN x.faults : n \in Nat /\ x.faults[n] \in Fault

TypeOK ==
    /\ store \in Store
    /\ trace \in [RunId -> Seq(Event)]
    /\ journal \in Journal
    /\ patterns \in Patterns
    /\ hub \in Patterns
    /\ patches \in PatchLedger
    /\ runCounter \in [Runtimes -> Nat]
    /\ built \subseteq Runtimes
    /\ pc \in [RunId -> PC]
    /\ call \in [RunId -> Call]
    /\ DOMAIN result = RunId /\ \A r \in RunId : Result(result[r])
    /\ patchOps \in 0 .. MaxPatchOps
    /\ clears \in 0 .. MaxClears

Init ==
    /\ store = EmptyStore
    /\ trace = [r \in RunId |-> <<>>]
    /\ journal = EmptyJournal
    /\ patterns = NoPatterns
    /\ hub = NoPatterns
    /\ patches = NoPatchLedger
    /\ runCounter = [t \in Runtimes |-> 0]
    /\ built = {}
    /\ pc = [r \in RunId |-> "idle"]
    /\ call = [r \in RunId |-> [mode |-> "good", payload |-> {}, output |-> NoOutput,
                                error |-> FALSE, orphan |-> FALSE]]
    /\ result = [r \in RunId |-> NoResult]
    /\ patchOps = 0
    /\ clears = 0
-----------------------------------------------------------------------------
Patched(r) == RuntimeOf[r] \in EnablePatches

\* The outcomes of emitting an event of type t: TRUE when a listener throws.
Throwing(t) == IF t \in FaultyEvents THEN BOOLEAN ELSE {FALSE}

Ev(t) == [type |-> t]

FaultEvent(k) == [type |-> "TRACE_FAULT", key |-> k]

\* resolveMode(i).  The remainder of a negative index is negative or 0 in
\* JavaScript, and there is no mode at a negative place of the schedule.
ResolveMode(t, i) ==
    LET n == Len(DemoSchedule[t])
    IN  IF n = 0 \/ (i < 0 /\ i % n # 0) THEN "good" ELSE DemoSchedule[t][(i % n) + 1]

\* executePlan: the modes that return build these outputs.
PlanOutput(mode, payload) ==
    [object |-> mode # "string",
     top    |-> mode = "random",
     echo   |-> IF mode = "string" THEN {} ELSE payload]

\* applyDeployedOutputPatches: wrap what is not an object, then strip the
\* volatile fields of the top level.  A wrapped string holds no volatile field.
ApplyShapePatch(out) == IF out.object THEN out ELSE [NoOutput EXCEPT !.object = TRUE]

SanitizeDeterminism(out) == IF out.object THEN [out EXCEPT !.top = FALSE] ELSE out

ApplyDeployedOutputPatches(out) ==
    LET shaped == IF IsPatchDeployed(patches, SHAPE_PATCH)
                  THEN ApplyShapePatch(out) ELSE out
    IN  IF IsPatchDeployed(patches, DETERMINISM_PATCH)
        THEN SanitizeDeterminism(shaped) ELSE shaped

\* The two registered invariants.
ShapePasses(out) == out.object

DeterminismPasses(out) == ~out.object \/ ~(out.top \/ "volatile" \in out.echo)

\* The details of its verdict are the output as JSON, whatever the verdict is.
DeterminismThrows(out) == out.object /\ "unserializable" \in out.echo

Passes(k, out) == IF k = SHAPE THEN ShapePasses(out) ELSE DeterminismPasses(out)
-----------------------------------------------------------------------------
(* run, from its call to its first await.                                   *)

\* startRun, runStart, startSpan, spanStart, executePlan.  startRun has stored
\* the run by the time it clones the metadata, which may throw.
Begin(r) ==
    LET t       == RuntimeOf[r]
        started == StartRun(store, r)
        inSpan  == StartSpan(started, r, SpanOf[r], NoSpan)
    IN
    /\ pc[r] = "idle"
    /\ t \in built
    /\ runCounter' = [runCounter EXCEPT ![t] = @ + 1]
    /\ \E payload \in Payloads, i \in RunIndexes \cup {runCounter[t]},
          bad \in Throwing("TRACE_SPAN_START") :
          /\ call' = [call EXCEPT ![r].mode = ResolveMode(t, i), ![r].payload = payload,
                                  ![r].error = bad]
          /\ \/ /\ store' = inSpan
                /\ trace' = [trace EXCEPT ![r] =
                                <<Ev("TRACE_RUN_START"), Ev("TRACE_SPAN_START")>>]
                /\ pc' = [pc EXCEPT ![r] = IF ~bad THEN "plan"
                                           ELSE IF Patched(r) THEN "guarded" ELSE "rejected"]
             \/ /\ TRUE \in Throwing("TRACE_RUN_START")
                /\ store' = started
                /\ trace' = [trace EXCEPT ![r] = <<Ev("TRACE_RUN_START")>>]
                /\ pc' = [pc EXCEPT ![r] = "rejected"]
             \/ /\ store' = started
                /\ pc' = [pc EXCEPT ![r] = "rejected"]
                /\ UNCHANGED trace
    /\ UNCHANGED <<ledgers, env, result>>

(* execute, after each of its awaits.                                       *)

\* The raw output is there: patch it and start evaluateAll, whose first
\* evaluate looks at the output at once.
ResumePlan(r) ==
    /\ pc[r] = "plan"
    /\ IF call[r].mode = "throw"
       THEN /\ pc' = [pc EXCEPT ![r] = "threw"]
            /\ UNCHANGED call
       ELSE /\ pc' = [pc EXCEPT ![r] = "shape"]
            /\ LET raw == PlanOutput(call[r].mode, call[r].payload)
               IN  call' = [call EXCEPT ![r].output =
                               IF Patched(r) THEN ApplyDeployedOutputPatches(raw) ELSE raw]
    /\ UNCHANGED <<store, trace, ledgers, runCounter, env, result>>

\* evaluateAll after the await of invariant k: emit TRACE_INVARIANT, and for a
\* failed one record the fault and emit TRACE_FAULT, which the hub ingests.  A
\* listener that throws on TRACE_INVARIANT leaves a failure unrecorded; a payload
\* that cannot be cloned leaves it recorded but not traced.
Evaluated(r, k, next) ==
    LET passed    == Passes(k, call[r].output)
        cloneable == "uncloneable" \notin call[r].payload
        evaluated == Append(trace[r], [type |-> "TRACE_INVARIANT", key |-> k, passed |-> passed])
    IN
    \/ /\ TRUE \in Throwing("TRACE_INVARIANT")
       /\ trace' = [trace EXCEPT ![r] = evaluated]
       /\ pc' = [pc EXCEPT ![r] = "threw"]
       /\ UNCHANGED ledgers
    \/ /\ passed
       /\ trace' = [trace EXCEPT ![r] = evaluated]
       /\ pc' = [pc EXCEPT ![r] = next]
       /\ UNCHANGED ledgers
    \/ /\ ~passed
       /\ journal' = RecordFault(journal, r, k)
       /\ patterns' = IngestFault(patterns, k)
       /\ \/ /\ cloneable
             /\ hub' = IngestFault(hub, k)
             /\ trace' = [trace EXCEPT ![r] = Append(evaluated, FaultEvent(k))]
             /\ \E bad \in Throwing("TRACE_FAULT") :
                   pc' = [pc EXCEPT ![r] = IF bad THEN "threw" ELSE next]
          \/ /\ ~cloneable
             /\ trace' = [trace EXCEPT ![r] = evaluated]
             /\ pc' = [pc EXCEPT ![r] = "threw"]
             /\ UNCHANGED hub

ResumeShape(r) ==
    /\ pc[r] = "shape"
    /\ Evaluated(r, SHAPE, "determinism")
    /\ UNCHANGED <<store, runCounter, env, call, result>>

\* An evaluation that throws leaves neither an event nor a fault.
ResumeDeterminism(r) ==
    /\ pc[r] = "determinism"
    /\ IF DeterminismThrows(call[r].output)
       THEN pc' = [pc EXCEPT ![r] = "threw"] /\ UNCHANGED <<trace, ledgers>>
       ELSE Evaluated(r, DETERMINISM, "evaluated")
    /\ UNCHANGED <<store, runCounter, env, call, result>>

\* The faults that getByRun clones hold the input of their call, but for the
\* orphan's.
Unreadable(j, r) ==
    /\ "uncloneable" \in call[r].payload
    /\ \E n \in DOMAIN j.events : j.events[n].run = r /\ j.events[n].key # SPAN_ORPHAN

(* The end of run, from the reading of the journal to the return: the run   *)
(* stays open behind an orphan span, and a throw of getByRun or of endRun   *)
(* skips what follows it.                                                   *)
Settle(r, st, j, tr, orphan, error) ==
    LET faults  == GetByRun(j, r)
        stopped == Unreadable(j, r) \/ (~orphan /\ EndRunError(st, r) # OK)
        status  == IF faults # <<>> \/ orphan \/ error THEN "failed" ELSE "completed"
    IN
    /\ store' = IF orphan \/ stopped THEN st ELSE EndRun(st, r)
    /\ trace' = [trace EXCEPT ![r] = IF stopped THEN tr ELSE Append(tr, Ev("TRACE_RUN_END"))]
    /\ call' = [call EXCEPT ![r].orphan = orphan, ![r].error = error]
    /\ \E bad \in Throwing("TRACE_RUN_END") :
          IF stopped \/ bad
          THEN pc' = [pc EXCEPT ![r] = "rejected"] /\ UNCHANGED result
          ELSE /\ pc' = [pc EXCEPT ![r] = "done"]
               /\ result' = [result EXCEPT ![r] = [status |-> status, faults |-> faults,
                                                   orphan |-> orphan]]

\* Mutant: the hub is told of the orphan without a trace event.
SettleOrphanToHub(r, st, tr) ==
    /\ journal' = RecordFault(journal, r, SPAN_ORPHAN)
    /\ patterns' = IngestFault(patterns, SPAN_ORPHAN)
    /\ hub' = IngestFault(hub, SPAN_ORPHAN)
    /\ Settle(r, st, journal', tr, TRUE, TRUE)

\* Mutant: the journal is read before the orphan is recorded.
SettleOrphanUntold(r, st, tr) ==
    /\ journal' = RecordFault(journal, r, SPAN_ORPHAN)
    /\ patterns' = IngestFault(patterns, SPAN_ORPHAN)
    /\ UNCHANGED hub
    /\ Settle(r, st, journal, tr, TRUE, TRUE)

\* The catch block of an unguarded call: the span is declared an orphan, and
\* the journal and the patterns (but no trace event, hence not the hub) say so.
SettleOrphan(r, st, tr) ==
    /\ journal' = RecordFault(journal, r, SPAN_ORPHAN)
    /\ patterns' = IngestFault(patterns, SPAN_ORPHAN)
    /\ UNCHANGED hub
    /\ Settle(r, st, journal', tr, TRUE, TRUE)

\* An unguarded call whose execute returned: endSpan and spanEnd are inside the
\* try, so a listener that throws on TRACE_SPAN_END lands in the catch block.
Finish(r) ==
    LET closed == EndSpan(store, SpanOf[r])
        tr     == Append(trace[r], Ev("TRACE_SPAN_END"))
    IN
    /\ pc[r] = "evaluated" /\ ~Patched(r)
    /\ \/ /\ Settle(r, closed, journal, tr, FALSE, FALSE)
          /\ UNCHANGED ledgers
       \/ /\ TRUE \in Throwing("TRACE_SPAN_END")
          /\ SettleOrphan(r, closed, tr)
    /\ UNCHANGED <<runCounter, env>>

\* Mutant: the catch block ends the span, and still calls it an orphan.
CatchOrphanClosing(r) ==
    /\ pc[r] = "threw" /\ ~Patched(r)
    /\ SettleOrphan(r, EndSpan(store, SpanOf[r]), trace[r])
    /\ UNCHANGED <<runCounter, env>>

\* An unguarded call whose execute threw.
CatchOrphan(r) ==
    /\ pc[r] = "threw" /\ ~Patched(r)
    /\ SettleOrphan(r, store, trace[r])
    /\ UNCHANGED <<runCounter, env>>

\* The finally block of withSpanGuard.
CloseGuard(r) ==
    /\ pc[r] \in {"evaluated", "threw"} /\ Patched(r)
    /\ store' = EndSpan(store, SpanOf[r])
    /\ trace' = [trace EXCEPT ![r] = Append(@, Ev("TRACE_SPAN_END"))]
    /\ \E bad \in Throwing("TRACE_SPAN_END") :
          call' = [call EXCEPT ![r].error = bad \/ pc[r] = "threw"]
    /\ pc' = [pc EXCEPT ![r] = "guarded"]
    /\ UNCHANGED <<ledgers, runCounter, env, result>>

\* run resumes after withSpanGuard.
ResumeGuarded(r) ==
    /\ pc[r] = "guarded"
    /\ Settle(r, store, journal, trace[r], FALSE, call[r].error)
    /\ UNCHANGED <<ledgers, runCounter, env>>
-----------------------------------------------------------------------------
(* What else runs in the process between two steps of a call.               *)

\* The constructor seeds the patch ledger only if the process has none.
Construct(t) ==
    /\ t \notin built
    /\ built' = built \cup {t}
    /\ patches' = IF t \in EnablePatches /\ ~patches.exists
                  THEN SeededPatchLedger ELSE patches
    /\ UNCHANGED <<store, trace, ledgers, runCounter, pc, call, result, patchOps, clears>>

\* The operators of the patch ledger, its clear and clearPatchGlobals.
PatchOp ==
    /\ patches.exists /\ patchOps < MaxPatchOps
    /\ \/ \E p \in PatchId :
             \/ patches' = Propose(patches, p)
             \/ Known(patches, p) /\ \E a \in Approver : patches' = Approve(patches, p, a)
             \/ Known(patches, p) /\ patches' = Reject(patches, p)
             \/ Deployable(patches, p) /\ patches' = MarkDeployed(patches, p)
       \/ patches' \in {NoPatchLedger, EmptyPatchLedger}
    /\ patchOps' = patchOps + 1
    /\ UNCHANGED <<store, trace, ledgers, runCounter, built, clears, pc, call, result>>

ClearJournal ==
    /\ clears < MaxClears
    /\ journal.events # <<>>
    /\ journal' = EmptyJournal
    /\ clears' = clears + 1
    /\ UNCHANGED <<store, trace, patterns, hub, patches, runCounter, built, patchOps,
                   pc, call, result>>

Step(r) == \/ ResumePlan(r) \/ ResumeShape(r) \/ ResumeDeterminism(r)
           \/ Finish(r) \/ CatchOrphan(r) \/ CloseGuard(r) \/ ResumeGuarded(r)

Next == \/ \E r \in RunId : Begin(r) \/ Step(r)
        \/ \E t \in Runtimes : Construct(t)
        \/ PatchOp
        \/ ClearJournal

Spec == Init /\ [][Next]_vars
-----------------------------------------------------------------------------
(* Properties.                                                              *)

Settled(r) == pc[r] \in {"done", "rejected"}

Running(r) == pc[r] \notin {"idle", "done", "rejected"}

Count(j, k) == Cardinality({n \in DOMAIN j.events : j.events[n].key = k})

\* The run ledger stays sound under concurrent calls, whatever throws: above
\* all, no run ends while its span is open.
LedgerSound == StoreInv(store)

\* The flag a caller gets and the ledger agree: an orphaned call left its span
\* and its run open, any other call left both ended.
OrphanMeansOpen ==
    \A r \in RunId : pc[r] = "done" =>
        /\ store.span[SpanOf[r]] = IF result[r].orphan THEN "open" ELSE "ended"
        /\ store.run[r] = IF result[r].orphan THEN "open" ELSE "ended"

\* The same when listeners throw: a call that returned left its run open only
\* behind an orphan, and never an open span in a run it ended.
ReturnedMeansSettled ==
    \A r \in RunId : pc[r] = "done" =>
        IF result[r].orphan THEN store.run[r] = "open"
        ELSE store.run[r] = "ended" /\ store.span[SpanOf[r]] = "ended"

\* What goes wrong in a call that returns is decided by its own mode, its own
\* payload and the output its patches left it, not by what other calls put in
\* the shared journal between its awaits: its faults are those of the invariants
\* its output fails, or, when its execution throws, the orphan of its span alone.
Threw(r) == call[r].mode = "throw" \/ DeterminismThrows(call[r].output)

Failures(r) ==
    IF Threw(r) THEN IF Patched(r) THEN {} ELSE {SPAN_ORPHAN}
    ELSE {k \in {SHAPE, DETERMINISM} : ~Passes(k, call[r].output)}

VerdictIsOwn ==
    \A r \in RunId : pc[r] = "done" =>
        /\ {result[r].faults[n].key : n \in DOMAIN result[r].faults} = Failures(r)
        /\ result[r].status = "completed" <=> Failures(r) = {} /\ ~Threw(r)

\* Every recurrence count in the journal is the ordinal of the fault among
\* those with its key, and the next one continues it, though calls interleave.
RecurrenceIsOrdinal ==
    /\ \A n \in DOMAIN journal.events :
          LET e == journal.events[n]
          IN  e.recurrence = Cardinality({m \in 1 .. n : journal.events[m].key = e.key})
    /\ \A k \in FaultKey : journal.counts[k] = Count(journal, k)

\* The pattern ledger has seen every fault of the journal exactly once; after a
\* clear of the journal it remembers more.
PatternsCountFaults ==
    \A k \in FaultKey :
        /\ patterns[k] >= Count(journal, k)
        /\ clears = 0 => patterns[k] = Count(journal, k)

\* The invariant faults a hub counts are those the traces of all runs show.
FaultsTraced(k) ==
    UNION {{<<r, n>> : n \in {m \in DOMAIN trace[r] : trace[r][m] = FaultEvent(k)}} : r \in RunId}

HubCountsTraced == \A k \in FaultKey : hub[k] = Cardinality(FaultsTraced(k))

\* A trace opens with the run and its span, closes in the opposite order, and
\* has nothing after the end of the run.
TraceNests ==
    \A r \in RunId :
        LET At(t) == {n \in DOMAIN trace[r] : trace[r][n].type = t}
        IN  /\ At("TRACE_RUN_START") \subseteq {1} /\ At("TRACE_SPAN_START") \subseteq {2}
            /\ \A t \in {"TRACE_SPAN_END", "TRACE_RUN_END"} : Cardinality(At(t)) <= 1
            /\ \A n \in At("TRACE_RUN_END") : n = Len(trace[r])
            /\ \A n \in At("TRACE_SPAN_END") :
                  At("TRACE_INVARIANT") \cup At("TRACE_FAULT") \subseteq 1 .. n - 1
            /\ At("TRACE_SPAN_END") # {} <=> store.span[SpanOf[r]] = "ended"

\* Once a call has settled nothing is journaled, traced or stored in its name:
\* the faults it returned are all there will ever be.
SettledIsFinal ==
    [][\A r \in RunId : Settled(r) =>
          /\ trace'[r] = trace[r]
          /\ store'.run[r] = store.run[r]
          /\ store'.span[SpanOf[r]] = store.span[SpanOf[r]]
          /\ result'[r] = result[r]
          /\ clears' = clears => GetByRun(journal', r) = GetByRun(journal, r)]_vars

\* The calls seen as requests of a ReplyBook.
KindsOf(faults) == {faults[n].key : n \in DOMAIN faults}

ReplyOf(place, x) ==
    CASE place = "idle" -> [state |-> "unasked"]
      [] place = "rejected" -> [state |-> "refused"]
      [] place = "done" -> [state |-> "told", status |-> x.status,
                            kinds |-> KindsOf(x.faults), orphan |-> x.orphan]
      [] OTHER -> [state |-> "pending"]

Book == INSTANCE ReplyBook WITH
            Request <- RunId, Kind <- FaultKey, Orphan <- SPAN_ORPHAN,
            reply  <- [r \in RunId |-> ReplyOf(pc[r], result[r])],
            record <- [r \in RunId |-> KindsOf(GetByRun(journal, r))],
            held   <- {r \in RunId : store.run[r] = "open"}

\* A caller cannot tell the runtime, with the journal and the run ledger its
\* calls share, from a book that keeps a record of its own for each call,
\* whatever throws and whenever the journal is cleared.
ImplementsReplyBook == Book!Spec
=============================================================================
