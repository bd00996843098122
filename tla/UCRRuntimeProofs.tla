-------------------------- MODULE UCRRuntimeProofs --------------------------
(***************************************************************************)
(* Concurrent calls of run, for any number of calls and runtimes, whatever *)
(* listeners throw: the run ledger is sound and settled by every call that *)
(* returns, journal, patterns and hub count the faults, traces nest, a     *)
(* verdict rests on the faults of its own run, and the runtime implements  *)
(* a book that keeps one record for each of its callers.                   *)
(***************************************************************************)
EXTENDS UCRRuntime, RunLedgerProofs, FiniteSetTheorems

\* What a call has done to the ledger by the time it waits at p; o is the flag
\* of the result it returned.  A span behind an orphan is open unless a listener
\* threw on the event of its end.
Phase(st, p, o, r) ==
    /\ st.span[SpanOf[r]] # "absent" => st.spanRun[SpanOf[r]] = r
    /\ p = "idle" => st.run[r] = "absent" /\ st.span[SpanOf[r]] = "absent"
    /\ p \in {"plan", "shape", "determinism", "evaluated", "threw", "guarded"} =>
           st.run[r] = "open" /\ st.span[SpanOf[r]] # "absent"
    /\ p \in {"plan", "shape", "determinism", "evaluated", "threw"} =>
           st.span[SpanOf[r]] = "open"
    /\ p = "done" => IF o THEN /\ st.run[r] = "open"
                               /\ \/ "TRACE_SPAN_END" \in FaultyEvents
                                  \/ st.span[SpanOf[r]] = "open"
                     ELSE st.run[r] = "ended" /\ st.span[SpanOf[r]] = "ended"

IInv == /\ store \in Store /\ StoreInv(store)
        /\ pc \in [RunId -> PC]
        /\ DOMAIN result = RunId
        /\ \A r \in RunId : Phase(store, pc[r], result[r].orphan, r)

\* What startRun of a new run changes.
LEMMA StartRunEffect ==
    ASSUME NEW st \in Store, NEW r \in RunId, st.run[r] = "absent"
    PROVE  /\ StartRun(st, r).run = [st.run EXCEPT ![r] = "open"]
           /\ StartRun(st, r).span = st.span
           /\ StartRun(st, r).spanRun = st.spanRun
BY DEF StartRun, StartRunError, OK, Store

\* What startSpan of a new root span changes.
LEMMA StartSpanEffect ==
    ASSUME NEW st \in Store, NEW r \in RunId, NEW s \in SpanId,
           st.run[r] = "open", st.span[s] = "absent"
    PROVE  /\ StartSpan(st, r, s, NoSpan).run = st.run
           /\ StartSpan(st, r, s, NoSpan).span = [st.span EXCEPT ![s] = "open"]
           /\ StartSpan(st, r, s, NoSpan).spanRun = [st.spanRun EXCEPT ![s] = r]
<1>1. StartSpanError(st, r, s, NoSpan) = OK
    BY DEF StartSpanError, OpenRunError, ParentError, OK
<1> QED BY <1>1 DEF StartSpan, Store

\* What endSpan of a started span changes.
LEMMA EndSpanEffect ==
    ASSUME NEW st \in Store, NEW s \in SpanId, st.span[s] # "absent"
    PROVE  /\ EndSpan(st, s).run = st.run
           /\ EndSpan(st, s).span = [st.span EXCEPT ![s] = "ended"]
           /\ EndSpan(st, s).spanRun = st.spanRun
BY DEF EndSpan, SpanError, OK, Store

\* What endRun of an open run changes: nothing while one of its spans is open.
LEMMA EndRunEffect ==
    ASSUME NEW st \in Store, NEW r \in RunId, st.run[r] = "open"
    PROVE  /\ EndRun(st, r).span = st.span
           /\ EndRun(st, r).spanRun = st.spanRun
           /\ EndRunError(st, r) # OK => EndRun(st, r).run = st.run
           /\ EndRunError(st, r) = OK =>
                  /\ EndRun(st, r).run = [st.run EXCEPT ![r] = "ended"]
                  /\ OpenSpansOf(st, r) = {}
BY DEF EndRun, EndRunError, OK, Store

\* A step of one call that touches only its own run and span keeps the phase of
\* every other call.
LEMMA OthersKeepPhase ==
    ASSUME IInv, NEW r \in RunId, NEW q \in RunId \ {r},
           store'.run[q] = store.run[q],
           store'.span[SpanOf[q]] = store.span[SpanOf[q]],
           store'.spanRun[SpanOf[q]] = store.spanRun[SpanOf[q]],
           pc'[q] = pc[q], result'[q] = result[q]
    PROVE  Phase(store', pc'[q], result'[q].orphan, q)
BY DEF IInv, Phase

\* The end of run: from an open run and a started span of its own it reaches the
\* phase of a settled call.
LEMMA SettleSound ==
    ASSUME IInv, NEW r \in RunId, NEW st \in Store, StoreInv(st),
           st.run = store.run, st.run[r] = "open",
           st.spanRun = store.spanRun, st.spanRun[SpanOf[r]] = r,
           st.span[SpanOf[r]] # "absent",
           \A s \in SpanId \ {SpanOf[r]} : st.span[s] = store.span[s],
           NEW j, NEW tr, NEW orphan \in BOOLEAN, NEW error,
           orphan => "TRACE_SPAN_END" \in FaultyEvents \/ st.span[SpanOf[r]] = "open",
           Settle(r, st, j, tr, orphan, error)
    PROVE  IInv'
<1> DEFINE found  == GetByRun(j, r)
           status == IF found # <<>> \/ orphan \/ error THEN "failed" ELSE "completed"
<1> SpanOf[r] \in SpanId /\ \A q \in RunId \ {r} : SpanOf[q] \in SpanId \ {SpanOf[r]}
    BY CallsAssumption
<1>1. store' \in {st, EndRun(st, r)}
    BY DEF Settle
<1>2. \/ pc' = [pc EXCEPT ![r] = "rejected"] /\ result' = result
      \/ /\ orphan \/ EndRunError(st, r) = OK
         /\ store' = IF orphan THEN st ELSE EndRun(st, r)
         /\ pc' = [pc EXCEPT ![r] = "done"]
         /\ result' = [result EXCEPT ![r] = [status |-> status,
                                             faults |-> found,
                                             orphan |-> orphan]]
    BY DEF Settle
<1> HIDE DEF found, status
<1>3. store' \in Store /\ StoreInv(store')
    BY <1>1, EndRunSound
<1>4. pc' \in [RunId -> PC] /\ DOMAIN result' = RunId
    <2>1. pc' \in [RunId -> PC]
        BY <1>2 DEF IInv, PC
    <2>2. DOMAIN result' = DOMAIN result
        BY <1>2
    <2> QED BY <2>1, <2>2 DEF IInv
<1>5. /\ store'.span = st.span /\ store'.spanRun = st.spanRun
      /\ \A q \in RunId \ {r} : store'.run[q] = st.run[q]
    <2>1. CASE store' = st
        BY <2>1
    <2>2. CASE store' = EndRun(st, r)
        <3>1. /\ EndRun(st, r).span = st.span
              /\ EndRun(st, r).spanRun = st.spanRun
              /\ \/ EndRun(st, r).run = st.run
                 \/ EndRun(st, r).run = [st.run EXCEPT ![r] = "ended"]
            BY EndRunEffect
        <3>2. st.run \in [RunId -> Status]
            BY DEF Store
        <3> QED BY <2>2, <3>1, <3>2
    <2> QED BY <1>1, <2>1, <2>2
<1>6. \A q \in RunId \ {r} : pc'[q] = pc[q] /\ result'[q] = result[q]
    BY <1>2 DEF IInv
<1>7. ASSUME NEW q \in RunId \ {r}
      PROVE  Phase(store', pc'[q], result'[q].orphan, q)
    BY <1>5, <1>6, OthersKeepPhase
<1>8. Phase(store', pc'[r], result'[r].orphan, r)
    <2>1. CASE pc'[r] = "rejected"
        BY <1>5, <2>1 DEF Phase
    <2>2. CASE pc'[r] # "rejected"
        <3>1. /\ pc'[r] = "done" /\ result'[r].orphan = orphan
              /\ orphan \/ EndRunError(st, r) = OK
              /\ store' = IF orphan THEN st ELSE EndRun(st, r)
            BY <1>2, <2>2 DEF IInv
        <3>2. CASE orphan
            <4>1. store'.run[r] = "open" /\ store' = st
                BY <3>1, <3>2
            <4>2. result'[r].orphan = TRUE
                BY <3>1, <3>2
            <4> QED BY <1>5, <3>1, <4>1, <4>2 DEF Phase
        <3>3. CASE ~orphan
            <4>1. EndRunError(st, r) = OK /\ store' = EndRun(st, r)
                BY <3>1, <3>3
            <4>2. store'.run[r] = "ended" /\ OpenSpansOf(st, r) = {}
                <5>1. /\ EndRun(st, r).run = [st.run EXCEPT ![r] = "ended"]
                      /\ OpenSpansOf(st, r) = {}
                    BY <4>1, EndRunEffect
                <5> QED BY <4>1, <5>1 DEF Store
            <4>3. st.span[SpanOf[r]] = "ended"
                BY <4>2 DEF OpenSpansOf, SpansOf, Store, Status
            <4>4. ~result'[r].orphan
                BY <3>1, <3>3
            <4> QED BY <1>5, <3>1, <4>2, <4>3, <4>4 DEF Phase
        <3> QED BY <3>2, <3>3
    <2> QED BY <2>1, <2>2
<1> QED BY <1>3, <1>4, <1>7, <1>8 DEF IInv
-----------------------------------------------------------------------------
\* The beginning of a call: its run opens, then its span, unless a listener
\* throws in between.
LEMMA BeginSound == ASSUME IInv, NEW r \in RunId, Begin(r) PROVE IInv'
<1> DEFINE started == StartRun(store, r)
           inSpan  == StartSpan(started, r, SpanOf[r], NoSpan)
<1> SpanOf[r] \in SpanId /\ \A q \in RunId \ {r} : SpanOf[q] \in SpanId \ {SpanOf[r]}
    BY CallsAssumption
<1>1. store.run[r] = "absent" /\ store.span[SpanOf[r]] = "absent"
    BY DEF Begin, IInv, Phase
<1>2. /\ started \in Store /\ StoreInv(started)
      /\ started.run = [store.run EXCEPT ![r] = "open"]
      /\ started.span = store.span /\ started.spanRun = store.spanRun
    BY <1>1, StartRunSound, StartRunEffect DEF IInv
<1>3. started.run[r] = "open" /\ \A q \in RunId \ {r} : started.run[q] = store.run[q]
    BY <1>2 DEF IInv, Store
<1>4. /\ inSpan \in Store /\ StoreInv(inSpan)
      /\ inSpan.run = started.run
      /\ inSpan.span = [store.span EXCEPT ![SpanOf[r]] = "open"]
      /\ inSpan.spanRun = [store.spanRun EXCEPT ![SpanOf[r]] = r]
    <2>1. inSpan \in Store /\ StoreInv(inSpan)
        BY <1>2, StartSpanSound
    <2>2. started.span[SpanOf[r]] = "absent"
        BY <1>1, <1>2
    <2> HIDE DEF started
    <2>3. /\ inSpan.run = started.run
          /\ inSpan.span = [started.span EXCEPT ![SpanOf[r]] = "open"]
          /\ inSpan.spanRun = [started.spanRun EXCEPT ![SpanOf[r]] = r]
        <3>1. started \in Store /\ started.run[r] = "open"
            BY <1>2, <1>3
        <3> QED BY <2>2, <3>1, StartSpanEffect
    <2> QED BY <1>2, <2>1, <2>3
<1>5. /\ UNCHANGED result
      /\ \/ /\ store' = inSpan
            /\ \E p \in {"plan", "guarded", "rejected"} : pc' = [pc EXCEPT ![r] = p]
         \/ store' = started /\ pc' = [pc EXCEPT ![r] = "rejected"]
    BY DEF Begin
<1> HIDE DEF started, inSpan
<1>6. /\ store' \in Store /\ StoreInv(store')
      /\ pc' \in [RunId -> PC] /\ DOMAIN result' = RunId
    BY <1>2, <1>4, <1>5 DEF IInv, PC
<1>7. ASSUME NEW q \in RunId \ {r}
      PROVE  Phase(store', pc'[q], result'[q].orphan, q)
    <2>1. /\ store'.run[q] = store.run[q]
          /\ store'.span[SpanOf[q]] = store.span[SpanOf[q]]
          /\ store'.spanRun[SpanOf[q]] = store.spanRun[SpanOf[q]]
        BY <1>2, <1>3, <1>4, <1>5 DEF IInv, Store
    <2>2. pc'[q] = pc[q] /\ result'[q] = result[q]
        BY <1>5 DEF IInv
    <2> QED BY <2>1, <2>2, OthersKeepPhase
<1>8. Phase(store', pc'[r], result'[r].orphan, r)
    <2>1. pc'[r] \in {"plan", "guarded", "rejected"}
        BY <1>5 DEF IInv
    <2>2. CASE store' = inSpan
        <3>1. /\ store'.run[r] = "open" /\ store'.span[SpanOf[r]] = "open"
              /\ store'.spanRun[SpanOf[r]] = r
            BY <1>3, <1>4, <2>2 DEF IInv, Store
        <3> QED BY <2>1, <3>1 DEF Phase
    <2>3. CASE store' = started /\ pc'[r] = "rejected"
        <3>1. store'.span[SpanOf[r]] = "absent"
            BY <1>1, <1>2, <2>3
        <3> QED BY <2>3, <3>1 DEF Phase
    <2> QED BY <1>5, <2>2, <2>3 DEF IInv
<1> QED BY <1>6, <1>7, <1>8 DEF IInv

\* The steps of execute leave the ledger alone.
LEMMA ExecuteSound ==
    ASSUME IInv, NEW r \in RunId, ResumePlan(r) \/ ResumeShape(r) \/ ResumeDeterminism(r)
    PROVE  IInv'
<1>1. /\ pc[r] \in {"plan", "shape", "determinism"}
      /\ UNCHANGED <<store, result>>
      /\ \E p \in {"shape", "determinism", "evaluated", "threw"} : pc' = [pc EXCEPT ![r] = p]
    <2>1. CASE ResumePlan(r)
        BY <2>1 DEF ResumePlan
    <2>2. CASE ResumeShape(r)
        BY <2>2 DEF ResumeShape, Evaluated
    <2>3. CASE ResumeDeterminism(r)
        BY <2>3 DEF ResumeDeterminism, Evaluated
    <2> QED BY <2>1, <2>2, <2>3
<1> QED BY <1>1 DEF IInv, PC, Phase

\* The three ways to the end of run.
LEMMA ClosingSound ==
    ASSUME IInv, NEW r \in RunId,
           Finish(r) \/ CatchOrphan(r) \/ CloseGuard(r) \/ ResumeGuarded(r)
    PROVE  IInv'
<1> DEFINE closed == EndSpan(store, SpanOf[r])
<1> SpanOf[r] \in SpanId /\ \A q \in RunId \ {r} : SpanOf[q] \in SpanId \ {SpanOf[r]}
    BY CallsAssumption
<1>1. /\ pc[r] \in {"evaluated", "threw", "guarded"}
      /\ store.run[r] = "open" /\ store.span[SpanOf[r]] # "absent"
      /\ store.spanRun[SpanOf[r]] = r
    <2>1. pc[r] \in {"evaluated", "threw", "guarded"}
        BY DEF Finish, CatchOrphan, CloseGuard, ResumeGuarded
    <2> QED BY <2>1 DEF IInv, Phase
<1>2. /\ closed \in Store /\ StoreInv(closed)
      /\ closed.run = store.run /\ closed.spanRun = store.spanRun
      /\ closed.span = [store.span EXCEPT ![SpanOf[r]] = "ended"]
    BY <1>1, EndSpanSound, EndSpanEffect DEF IInv
<1>3. /\ closed.span[SpanOf[r]] = "ended"
      /\ \A s \in SpanId \ {SpanOf[r]} : closed.span[s] = store.span[s]
    BY <1>2 DEF IInv, Store
<1> HIDE DEF closed
<1>4. CASE Finish(r)
    <2>1. \/ \E tr : Settle(r, closed, journal, tr, FALSE, FALSE)
          \/ /\ "TRACE_SPAN_END" \in FaultyEvents
             /\ \E tr : Settle(r, closed, journal', tr, TRUE, TRUE)
        BY <1>4 DEF Finish, SettleOrphan, Throwing, closed
    <2> QED BY <1>1, <1>2, <1>3, <2>1, SettleSound
<1>5. CASE CatchOrphan(r)
    <2>1. \E j, tr : Settle(r, store, j, tr, TRUE, TRUE)
        BY <1>5 DEF CatchOrphan, SettleOrphan
    <2>2. store \in Store /\ StoreInv(store) /\ store.span[SpanOf[r]] = "open"
        BY <1>5 DEF IInv, Phase, CatchOrphan
    <2> QED BY <1>1, <2>1, <2>2, SettleSound
<1>6. CASE CloseGuard(r)
    <2>1. /\ store' = closed /\ pc' = [pc EXCEPT ![r] = "guarded"]
          /\ result' = result
        BY <1>6 DEF CloseGuard, closed
    <2>2. ASSUME NEW q \in RunId \ {r}
          PROVE  Phase(store', pc'[q], result'[q].orphan, q)
        BY <1>2, <1>3, <2>1, OthersKeepPhase DEF IInv
    <2>3. Phase(store', pc'[r], result'[r].orphan, r)
        BY <1>1, <1>2, <1>3, <2>1 DEF IInv, Phase
    <2> QED BY <1>2, <2>1, <2>2, <2>3 DEF IInv, PC
<1>7. CASE ResumeGuarded(r)
    <2>1. Settle(r, store, journal, trace[r], FALSE, call[r].error)
        BY <1>7 DEF ResumeGuarded
    <2>2. store \in Store /\ StoreInv(store)
        BY DEF IInv
    <2> QED BY <1>1, <2>1, <2>2, SettleSound
<1> QED BY <1>4, <1>5, <1>6, <1>7
-----------------------------------------------------------------------------
\* The invariant holds of every behaviour.
THEOREM Invariance == Spec => []IInv
<1>1. Init => IInv
    BY EmptyStoreSound, CallsAssumption DEF Init, IInv, EmptyStore, Phase, PC
<1>2. IInv /\ [Next]_vars => IInv'
    <2> SUFFICES ASSUME IInv, [Next]_vars PROVE IInv'
        OBVIOUS
    <2>1. ASSUME NEW r \in RunId, Begin(r) PROVE IInv'
        BY <2>1, BeginSound
    <2>2. ASSUME NEW r \in RunId, Step(r) PROVE IInv'
        BY <2>2, ExecuteSound, ClosingSound DEF Step
    <2>3. CASE UNCHANGED <<store, pc, result>>
        BY <2>3 DEF IInv, Phase
    <2>4. ASSUME NEW t \in Runtimes, Construct(t) PROVE UNCHANGED <<store, pc, result>>
        BY <2>4 DEF Construct
    <2>5. CASE PatchOp
        BY <2>3, <2>5 DEF PatchOp
    <2>6. CASE ClearJournal
        BY <2>3, <2>6 DEF ClearJournal
    <2>7. CASE UNCHANGED vars
        BY <2>3, <2>7 DEF vars
    <2> QED BY <2>1, <2>2, <2>3, <2>4, <2>5, <2>6, <2>7 DEF Next
<1> QED BY <1>1, <1>2, PTL DEF Spec

\* Concurrent calls keep the run ledger sound.
THEOREM LedgerStaysSound == Spec => []LedgerSound
<1>1. IInv => LedgerSound
    BY DEF IInv, LedgerSound
<1> QED BY <1>1, Invariance, PTL

\* A call that returns has ended its run and its span, or says orphan and left
\* its run open.
THEOREM ReturnsAreSettled == Spec => []ReturnedMeansSettled
<1>1. IInv => ReturnedMeansSettled
    BY DEF IInv, Phase, ReturnedMeansSettled
<1> QED BY <1>1, Invariance, PTL

\* An orphan's span and run are both open, unless a listener threw on the event
\* of the span's end: the flag the caller of run gets is the state of the ledger.
THEOREM OrphansStayOpen ==
    ASSUME "TRACE_SPAN_END" \notin FaultyEvents
    PROVE  Spec => []OrphanMeansOpen
<1>1. IInv => OrphanMeansOpen
    BY DEF IInv, Phase, OrphanMeansOpen
<1> QED BY <1>1, Invariance, PTL
-----------------------------------------------------------------------------
(* Types.                                                                   *)

\* recordFault and ingestFault keep the journal and the pattern ledgers typed.
LEMMA RecordTyped ==
    ASSUME NEW j \in Journal, NEW r \in RunId, NEW k \in FaultKey
    PROVE  RecordFault(j, r, k) \in Journal
<1> DEFINE e == [run |-> r, key |-> k, recurrence |-> j.counts[k] + 1]
<1>1. j.events \in Seq(Fault) /\ j.counts \in [FaultKey -> Nat] /\ j.counts[k] + 1 \in Nat
    BY DEF Journal
<1>2. e \in Fault
    BY <1>1 DEF Fault
<1>3. RecordFault(j, r, k) = [events |-> Append(j.events, e),
                              counts |-> [j.counts EXCEPT ![k] = j.counts[k] + 1]]
    BY DEF RecordFault
<1> HIDE DEF e
<1>4. /\ Append(j.events, e) \in Seq(Fault)
      /\ [j.counts EXCEPT ![k] = j.counts[k] + 1] \in [FaultKey -> Nat]
    BY <1>1, <1>2
<1> QED BY <1>3, <1>4 DEF Journal

LEMMA IngestTyped ==
    ASSUME NEW p \in Patterns, NEW k \in FaultKey
    PROVE  IngestFault(p, k) \in Patterns
BY DEF IngestFault, Patterns

\* The mode a call draws from its runtime's schedule, whatever its index.
LEMMA ModeTyped ==
    ASSUME NEW t \in Runtimes, NEW i \in Int
    PROVE  ResolveMode(t, i) \in Modes
<1>1. PICK n \in Nat : n = Len(DemoSchedule[t]) /\ \A m \in 1 .. n : DemoSchedule[t][m] \in Modes
    BY CallsAssumption
<1>2. CASE n = 0
    BY <1>1, <1>2 DEF ResolveMode, Modes
<1>3. CASE n # 0
    <2>1. (i % n) + 1 \in 1 .. n
        BY <1>3
    <2> QED BY <1>1, <2>1 DEF ResolveMode, Modes
<1> QED BY <1>2, <1>3

\* What execute returns, as the plan made it or as the patches left it.
LEMMA OutputTyped ==
    ASSUME NEW m \in Modes, NEW b \in SUBSET Trait
    PROVE  /\ PlanOutput(m, b) \in Output
           /\ ApplyDeployedOutputPatches(PlanOutput(m, b)) \in Output
<1>1. PlanOutput(m, b) \in Output
    BY DEF PlanOutput, Output
<1>2. ASSUME NEW out \in Output
      PROVE  ApplyShapePatch(out) \in Output /\ SanitizeDeterminism(out) \in Output
    BY DEF ApplyShapePatch, SanitizeDeterminism, NoOutput, Output
<1> QED BY <1>1, <1>2 DEF ApplyDeployedOutputPatches

\* The events the runtime and the engine emit.
LEMMA EventsTyped ==
    /\ \A t \in {"TRACE_RUN_START", "TRACE_RUN_END", "TRACE_SPAN_START", "TRACE_SPAN_END"} :
          Ev(t) \in Event
    /\ \A k \in FaultKey, b \in BOOLEAN :
          [type |-> "TRACE_INVARIANT", key |-> k, passed |-> b] \in Event
    /\ \A k \in FaultKey : FaultEvent(k) \in Event
BY DEF Ev, FaultEvent, Event

LEMMA PassesTyped ==
    ASSUME NEW k, NEW out \in Output
    PROVE  Passes(k, out) \in BOOLEAN /\ DeterminismThrows(out) \in BOOLEAN
BY DEF Passes, ShapePasses, DeterminismPasses, DeterminismThrows, Output

\* The end of run leaves what it touches typed.
LEMMA SettleTyped ==
    ASSUME TypeOK, NEW r \in RunId, NEW st, NEW j \in Journal, NEW tr \in Seq(Event),
           NEW orphan \in BOOLEAN, NEW error \in BOOLEAN,
           Settle(r, st, j, tr, orphan, error)
    PROVE  /\ trace' \in [RunId -> Seq(Event)]
           /\ call' \in [RunId -> Call]
           /\ DOMAIN result' = RunId /\ \A q \in RunId : Result(result'[q])
<1> DEFINE found  == GetByRun(j, r)
           status == IF found # <<>> \/ orphan \/ error THEN "failed" ELSE "completed"
           answer == [status |-> status, faults |-> found, orphan |-> orphan]
<1>1. trace' \in [RunId -> Seq(Event)]
    <2>1. tr \in Seq(Event) /\ Append(tr, Ev("TRACE_RUN_END")) \in Seq(Event)
        BY EventsTyped
    <2>2. \/ trace' = [trace EXCEPT ![r] = tr]
          \/ trace' = [trace EXCEPT ![r] = Append(tr, Ev("TRACE_RUN_END"))]
        BY DEF Settle
    <2> QED BY <2>1, <2>2 DEF TypeOK
<1>2. call' \in [RunId -> Call]
    <2>1. call' = [call EXCEPT ![r].orphan = orphan, ![r].error = error]
        BY DEF Settle
    <2> QED BY <2>1 DEF TypeOK, Call
<1>3. result' = result \/ result' = [result EXCEPT ![r] = answer]
    BY DEF Settle
<1>4. Result(answer)
    <2>1. \A n \in DOMAIN found : n \in Nat /\ found[n] \in Fault
        BY DEF GetByRun, Journal
    <2> HIDE DEF found
    <2> QED BY <2>1 DEF Result
<1> HIDE DEF answer
<1> QED BY <1>1, <1>2, <1>3, <1>4 DEF TypeOK

LEMMA SettleOrphanTyped ==
    ASSUME TypeOK, NEW r \in RunId, NEW st, NEW tr \in Seq(Event), SettleOrphan(r, st, tr)
    PROVE  /\ journal' \in Journal /\ patterns' \in Patterns /\ hub' \in Patterns
           /\ trace' \in [RunId -> Seq(Event)]
           /\ call' \in [RunId -> Call]
           /\ DOMAIN result' = RunId /\ \A q \in RunId : Result(result'[q])
<1>1. SPAN_ORPHAN \in FaultKey
    BY KeysAssumption
<1>2. journal' \in Journal /\ patterns' \in Patterns /\ hub' \in Patterns
    BY <1>1, RecordTyped, IngestTyped DEF SettleOrphan, TypeOK
<1>3. Settle(r, st, journal', tr, TRUE, TRUE)
    BY DEF SettleOrphan
<1> QED BY <1>2, <1>3, SettleTyped

\* The steps of execute.
LEMMA EvaluatedTyped ==
    ASSUME TypeOK, NEW r \in RunId, NEW k \in FaultKey, NEW next, Evaluated(r, k, next)
    PROVE  /\ journal' \in Journal /\ patterns' \in Patterns /\ hub' \in Patterns
           /\ trace' \in [RunId -> Seq(Event)]
<1> DEFINE inv == [type |-> "TRACE_INVARIANT", key |-> k,
                   passed |-> Passes(k, call[r].output)]
           evaluated == Append(trace[r], inv)
<1>1. inv \in Event /\ FaultEvent(k) \in Event
    BY EventsTyped, PassesTyped DEF TypeOK, Call
<1>2. trace[r] \in Seq(Event)
    BY DEF TypeOK
<1>3. /\ trace' \in {[trace EXCEPT ![r] = evaluated],
                      [trace EXCEPT ![r] = Append(evaluated, FaultEvent(k))]}
      /\ \/ UNCHANGED ledgers
         \/ /\ journal' = RecordFault(journal, r, k)
            /\ patterns' = IngestFault(patterns, k)
            /\ hub' = IngestFault(hub, k) \/ UNCHANGED hub
    BY DEF Evaluated
<1> HIDE DEF inv
<1>4. evaluated \in Seq(Event)
    BY <1>1, <1>2
<1> HIDE DEF evaluated
<1>5. Append(evaluated, FaultEvent(k)) \in Seq(Event)
    BY <1>1, <1>4
<1>6. trace' \in [RunId -> Seq(Event)]
    BY <1>3, <1>4, <1>5 DEF TypeOK
<1> QED BY <1>3, <1>6, RecordTyped, IngestTyped DEF TypeOK, ledgers

LEMMA BeginTyped ==
    ASSUME TypeOK, NEW r \in RunId, Begin(r)
    PROVE  /\ trace' \in [RunId -> Seq(Event)]
           /\ call' \in [RunId -> Call]
           /\ runCounter' \in [Runtimes -> Nat]
<1> DEFINE t == RuntimeOf[r]
<1>1. t \in Runtimes /\ \A i \in RunIndexes \cup {runCounter[t]} : ResolveMode(t, i) \in Modes
    BY CallsAssumption, InputsAssumption, ModeTyped DEF TypeOK
<1>2. runCounter' \in [Runtimes -> Nat]
    BY <1>1 DEF Begin, TypeOK
<1>3. call' \in [RunId -> Call]
    <2>1. PICK payload \in Payloads, i \in RunIndexes \cup {runCounter[t]},
               bad \in Throwing("TRACE_SPAN_START") :
              call' = [call EXCEPT ![r].mode = ResolveMode(t, i), ![r].payload = payload,
                                   ![r].error = bad]
        BY DEF Begin
    <2>2. ResolveMode(t, i) \in Modes /\ payload \in SUBSET Trait /\ bad \in BOOLEAN
        BY <1>1, InputsAssumption DEF Throwing
    <2> QED BY <2>1, <2>2 DEF TypeOK, Call
<1>4. trace' \in [RunId -> Seq(Event)]
    <2>1. PICK a, b \in Event : a = Ev("TRACE_RUN_START") /\ b = Ev("TRACE_SPAN_START")
        BY EventsTyped
    <2>2. <<a>> \in Seq(Event) /\ <<a, b>> \in Seq(Event)
        OBVIOUS
    <2>3. \/ trace' = trace
          \/ trace' = [trace EXCEPT ![r] = <<a>>]
          \/ trace' = [trace EXCEPT ![r] = <<a, b>>]
        BY <2>1 DEF Begin
    <2> QED BY <2>2, <2>3 DEF TypeOK
<1> QED BY <1>2, <1>3, <1>4

\* The patch ledger under its operators and under a construction.
LEMMA PatchesTyped ==
    ASSUME TypeOK, PatchOp \/ \E t \in Runtimes : Construct(t)
    PROVE  patches' \in PatchLedger
<1>1. /\ patches \in PatchLedger /\ NoPatchLedger \in PatchLedger
      /\ EmptyPatchLedger \in PatchLedger /\ SeededPatchLedger \in PatchLedger
    BY DEF TypeOK, PatchLedger, PatchStatus, NoPatchLedger, EmptyPatchLedger, SeededPatchLedger
<1>2. ASSUME NEW p \in PatchId, NEW a \in Approver
      PROVE  Approve(patches, p, a) \in PatchLedger
    <2> DEFINE more == patches.approvedBy[p] \cup {a}
    <2>1. more \in SUBSET Approver
        BY <1>1 DEF PatchLedger
    <2>2. Approve(patches, p, a)
             = [patches EXCEPT !.status[p] = "APPROVED", !.approvedBy[p] = more]
        BY DEF Approve
    <2> HIDE DEF more
    <2>3. /\ [patches.status EXCEPT ![p] = "APPROVED"] \in [PatchId -> PatchStatus]
          /\ [patches.approvedBy EXCEPT ![p] = more] \in [PatchId -> SUBSET Approver]
        BY <1>1, <2>1 DEF PatchLedger, PatchStatus
    <2> QED BY <1>1, <2>2, <2>3 DEF PatchLedger
<1>3. ASSUME NEW p \in PatchId
      PROVE  /\ Propose(patches, p) \in PatchLedger
             /\ Reject(patches, p) \in PatchLedger
             /\ MarkDeployed(patches, p) \in PatchLedger
    BY <1>1 DEF PatchLedger, PatchStatus, Propose, Reject, MarkDeployed
<1>4. CASE PatchOp
    BY <1>1, <1>2, <1>3, <1>4 DEF PatchOp
<1>5. CASE \E t \in Runtimes : Construct(t)
    BY <1>1, <1>5 DEF Construct
<1> QED BY <1>4, <1>5

\* Every step of a call.
LEMMA StepTyped ==
    ASSUME TypeOK, IInv', NEW r \in RunId, Begin(r) \/ Step(r)
    PROVE  TypeOK'
<1>1. store' \in Store /\ pc' \in [RunId -> PC]
    BY DEF IInv
<1>2. UNCHANGED env
    BY DEF Begin, Step, ResumePlan, ResumeShape, ResumeDeterminism, Finish, CatchOrphan,
           CloseGuard, ResumeGuarded
<1>3. trace[r] \in Seq(Event) /\ Append(trace[r], Ev("TRACE_SPAN_END")) \in Seq(Event)
    BY EventsTyped DEF TypeOK
<1>4. SHAPE \in FaultKey /\ DETERMINISM \in FaultKey
    BY KeysAssumption
<1>5. CASE Begin(r)
    BY <1>1, <1>2, <1>5, BeginTyped DEF Begin, TypeOK, ledgers, env
<1>6. CASE ResumePlan(r)
    <2>1. call' \in [RunId -> Call]
        <3> DEFINE raw == PlanOutput(call[r].mode, call[r].payload)
                   out == IF Patched(r) THEN ApplyDeployedOutputPatches(raw) ELSE raw
        <3>1. out \in Output
            BY OutputTyped DEF TypeOK, Call
        <3>2. call' = call \/ call' = [call EXCEPT ![r].output = out]
            BY <1>6 DEF ResumePlan
        <3> HIDE DEF out
        <3> QED BY <3>1, <3>2 DEF TypeOK, Call
    <2> QED BY <1>1, <1>2, <1>6, <2>1 DEF ResumePlan, TypeOK, ledgers, env
<1>7. CASE ResumeShape(r)
    <2>1. Evaluated(r, SHAPE, "determinism") /\ UNCHANGED <<runCounter, call, result>>
        BY <1>7 DEF ResumeShape
    <2> QED BY <1>1, <1>2, <1>4, <2>1, EvaluatedTyped DEF TypeOK, env
<1>8. CASE ResumeDeterminism(r)
    <2>1. /\ UNCHANGED <<runCounter, call, result>>
          /\ Evaluated(r, DETERMINISM, "evaluated") \/ UNCHANGED <<trace, ledgers>>
        BY <1>8 DEF ResumeDeterminism
    <2> QED BY <1>1, <1>2, <1>4, <2>1, EvaluatedTyped DEF TypeOK, ledgers, env
<1>9. CASE Finish(r)
    <2> DEFINE closed == EndSpan(store, SpanOf[r])
               tr == Append(trace[r], Ev("TRACE_SPAN_END"))
    <2>1. UNCHANGED runCounter
        BY <1>9 DEF Finish
    <2>2. \/ Settle(r, closed, journal, tr, FALSE, FALSE) /\ UNCHANGED ledgers
          \/ SettleOrphan(r, closed, tr)
        BY <1>9 DEF Finish
    <2> HIDE DEF closed, tr
    <2>3. tr \in Seq(Event) /\ journal \in Journal
        BY <1>3 DEF tr, TypeOK
    <2> QED BY <1>1, <1>2, <2>1, <2>2, <2>3, SettleTyped, SettleOrphanTyped
            DEF TypeOK, ledgers, env
<1>10. CASE CatchOrphan(r)
    <2>1. SettleOrphan(r, store, trace[r]) /\ UNCHANGED runCounter
        BY <1>10 DEF CatchOrphan
    <2> QED BY <1>1, <1>2, <1>3, <2>1, SettleOrphanTyped DEF TypeOK, env
<1>11. CASE CloseGuard(r)
    <2>1. call' \in [RunId -> Call]
        <3>1. PICK bad \in BOOLEAN : call' = [call EXCEPT ![r].error = bad]
            BY <1>11 DEF CloseGuard, Throwing
        <3> QED BY <3>1 DEF TypeOK, Call
    <2>2. trace' = [trace EXCEPT ![r] = Append(trace[r], Ev("TRACE_SPAN_END"))]
        BY <1>11 DEF CloseGuard
    <2>3. trace' \in [RunId -> Seq(Event)]
        BY <1>3, <2>2 DEF TypeOK
    <2> QED BY <1>1, <1>2, <1>11, <2>1, <2>3 DEF CloseGuard, TypeOK, ledgers, env
<1>12. CASE ResumeGuarded(r)
    <2>1. /\ Settle(r, store, journal, trace[r], FALSE, call[r].error)
          /\ UNCHANGED <<ledgers, runCounter>>
        BY <1>12 DEF ResumeGuarded
    <2>2. call[r].error \in BOOLEAN /\ journal \in Journal
        BY DEF TypeOK, Call
    <2>3. /\ trace' \in [RunId -> Seq(Event)] /\ call' \in [RunId -> Call]
          /\ DOMAIN result' = RunId /\ \A q \in RunId : Result(result'[q])
        BY <1>3, <2>1, <2>2, SettleTyped
    <2> QED BY <1>1, <1>2, <2>1, <2>3 DEF TypeOK, ledgers, env
<1> QED BY <1>5, <1>6, <1>7, <1>8, <1>9, <1>10, <1>11, <1>12 DEF Step

LEMMA InitTyped == Init => TypeOK
<1> SUFFICES ASSUME Init PROVE TypeOK
    OBVIOUS
<1>1. store \in Store
    BY EmptyStoreSound DEF Init
<1>2. journal \in Journal /\ patterns \in Patterns /\ hub \in Patterns
    BY DEF Init, EmptyJournal, Journal, NoPatterns, Patterns
<1>3. patches \in PatchLedger
    BY DEF Init, NoPatchLedger, PatchLedger, PatchStatus
<1>4. call \in [RunId -> Call]
    BY DEF Init, Call, NoOutput, Output, Modes
<1>5. DOMAIN result = RunId /\ \A r \in RunId : Result(result[r])
    <2>1. Result(NoResult)
        BY DEF NoResult, Result
    <2>2. DOMAIN result = RunId /\ \A r \in RunId : result[r] = NoResult
        BY DEF Init
    <2>3. ASSUME NEW r \in RunId PROVE Result(result[r])
        BY <2>1, <2>2, Zenon
    <2> QED BY <2>2, <2>3, Zenon
<1>6. /\ trace \in [RunId -> Seq(Event)] /\ runCounter \in [Runtimes -> Nat]
      /\ built \subseteq Runtimes /\ pc \in [RunId -> PC]
      /\ patchOps \in 0 .. MaxPatchOps /\ clears \in 0 .. MaxClears
    BY BoundsAssumption DEF Init, PC
<1> QED BY <1>1, <1>2, <1>3, <1>4, <1>5, <1>6 DEF TypeOK

\* The types of the whole runtime: above all, a mode is drawn inside the
\* schedule and every fault in the journal names a run that was called.
THEOREM TypeCorrect == Spec => []TypeOK
<1>1. TypeOK /\ IInv' /\ [Next]_vars => TypeOK'
    <2> SUFFICES ASSUME TypeOK, IInv', [Next]_vars PROVE TypeOK'
        OBVIOUS
    <2>1. ASSUME NEW r \in RunId, Begin(r) \/ Step(r) PROVE TypeOK'
        BY <2>1, StepTyped
    <2>2. ASSUME NEW t \in Runtimes, Construct(t) PROVE TypeOK'
        <3>1. patches' \in PatchLedger
            BY <2>2, PatchesTyped
        <3> QED BY <2>2, <3>1 DEF Construct, TypeOK, ledgers
    <2>3. CASE PatchOp
        <3>1. patches' \in PatchLedger
            BY <2>3, PatchesTyped
        <3>2. patchOps' \in 0 .. MaxPatchOps
            BY <2>3, BoundsAssumption DEF PatchOp, TypeOK
        <3> QED BY <2>3, <3>1, <3>2 DEF PatchOp, TypeOK, ledgers
    <2>4. CASE ClearJournal
        <3>1. journal' \in Journal
            BY <2>4 DEF ClearJournal, EmptyJournal, Journal
        <3>2. clears' \in 0 .. MaxClears
            BY <2>4, BoundsAssumption DEF ClearJournal, TypeOK
        <3> QED BY <2>4, <3>1, <3>2 DEF ClearJournal, TypeOK
    <2>5. CASE UNCHANGED vars
        BY <2>5 DEF vars, TypeOK, ledgers, env
    <2> QED BY <2>1, <2>2, <2>3, <2>4, <2>5 DEF Next
<1> QED BY <1>1, InitTyped, Invariance, PTL DEF Spec

-----------------------------------------------------------------------------
(* The journal and the pattern ledger.                                      *)

\* What a step of a call adds to the journal is a fault of its own run, and the
\* pattern ledger is told of it in the same step.
LEMMA CallJournal ==
    ASSUME NEW r \in RunId, Begin(r) \/ Step(r)
    PROVE  /\ UNCHANGED clears
           /\ \/ UNCHANGED <<journal, patterns>>
              \/ \E k \in FaultKey : /\ journal' = RecordFault(journal, r, k)
                                     /\ patterns' = IngestFault(patterns, k)
<1>1. SHAPE \in FaultKey /\ DETERMINISM \in FaultKey /\ SPAN_ORPHAN \in FaultKey
    BY KeysAssumption
<1>2. CASE Begin(r) \/ ResumePlan(r) \/ CloseGuard(r) \/ ResumeGuarded(r)
    BY <1>2 DEF Begin, ResumePlan, CloseGuard, ResumeGuarded, ledgers, env
<1>3. CASE ResumeShape(r)
    BY <1>1, <1>3 DEF ResumeShape, Evaluated, ledgers, env
<1>4. CASE ResumeDeterminism(r)
    BY <1>1, <1>4 DEF ResumeDeterminism, Evaluated, ledgers, env
<1>5. CASE Finish(r) \/ CatchOrphan(r)
    BY <1>1, <1>5 DEF Finish, CatchOrphan, SettleOrphan, ledgers, env
<1> QED BY <1>2, <1>3, <1>4, <1>5 DEF Step

LEMMA JournalSteps ==
    ASSUME [Next]_vars
    PROVE  \/ UNCHANGED <<journal, patterns, clears>>
           \/ /\ UNCHANGED clears
              /\ \E r \in RunId, k \in FaultKey :
                    /\ journal' = RecordFault(journal, r, k)
                    /\ patterns' = IngestFault(patterns, k)
           \/ journal' = EmptyJournal /\ UNCHANGED patterns /\ clears' = clears + 1
<1>1. CASE \E r \in RunId : Begin(r) \/ Step(r)
    BY <1>1, CallJournal
<1>2. CASE \E t \in Runtimes : Construct(t)
    BY <1>2 DEF Construct, ledgers
<1>3. CASE PatchOp
    BY <1>3 DEF PatchOp, ledgers
<1>4. CASE ClearJournal
    BY <1>4 DEF ClearJournal
<1>5. CASE UNCHANGED vars
    BY <1>5 DEF vars, ledgers, env
<1> QED BY <1>1, <1>2, <1>3, <1>4, <1>5 DEF Next

\* The places up to n of the faults with key k.
Places(j, k, n) == {m \in 1 .. n : j.events[m].key = k}

LEMMA PlacesFinite ==
    ASSUME NEW j, NEW k, NEW n \in Nat
    PROVE  IsFiniteSet(Places(j, k, n)) /\ Cardinality(Places(j, k, n)) \in Nat
<1>1. IsFiniteSet(1 .. n)
    BY FS_Interval
<1>2. Places(j, k, n) \in SUBSET (1 .. n)
    BY DEF Places
<1>3. IsFiniteSet(Places(j, k, n))
    BY <1>1, <1>2, FS_Subset
<1> QED BY <1>3, FS_CardinalityType

LEMMA CountIsPlaces ==
    ASSUME NEW j \in Journal, NEW k
    PROVE  Count(j, k) = Cardinality(Places(j, k, Len(j.events)))
<1>1. j.events \in Seq(Fault)
    BY DEF Journal
<1>2. DOMAIN j.events = 1 .. Len(j.events)
    BY <1>1
<1> QED BY <1>2 DEF Count, Places

\* recordFault leaves the faults before it where they are, and adds one.
LEMMA RecordAppends ==
    ASSUME NEW j \in Journal, NEW r \in RunId, NEW k \in FaultKey
    PROVE  \E n \in Nat :
              /\ n = Len(j.events) /\ DOMAIN j.events = 1 .. n
              /\ Len(RecordFault(j, r, k).events) = n + 1
              /\ DOMAIN RecordFault(j, r, k).events = 1 .. (n + 1)
              /\ \A m \in 1 .. n : RecordFault(j, r, k).events[m] = j.events[m]
              /\ RecordFault(j, r, k).events[n + 1]
                    = [run |-> r, key |-> k, recurrence |-> j.counts[k] + 1]
<1> DEFINE e == [run |-> r, key |-> k, recurrence |-> j.counts[k] + 1]
<1>1. j.events \in Seq(Fault) /\ Len(j.events) \in Nat
    BY DEF Journal
<1>2. e \in Fault
    BY DEF Fault, Journal
<1>3. RecordFault(j, r, k).events = Append(j.events, e)
    BY DEF RecordFault
<1> HIDE DEF e
<1>4. PICK n \in Nat : n = Len(j.events)
    BY <1>1
<1>5. /\ DOMAIN j.events = 1 .. n
      /\ Len(RecordFault(j, r, k).events) = n + 1
      /\ DOMAIN RecordFault(j, r, k).events = 1 .. (n + 1)
      /\ \A m \in 1 .. n : RecordFault(j, r, k).events[m] = j.events[m]
      /\ RecordFault(j, r, k).events[n + 1] = e
    BY <1>1, <1>2, <1>3, <1>4
<1> QED BY <1>4, <1>5 DEF e

\* recordFault raises the number of the faults with its key by one, and that of
\* no other key.
LEMMA RecordCounts ==
    ASSUME NEW j \in Journal, NEW r \in RunId, NEW k \in FaultKey, NEW q \in FaultKey
    PROVE  /\ Count(j, q) \in Nat
           /\ Count(RecordFault(j, r, k), q) = Count(j, q) + (IF q = k THEN 1 ELSE 0)
<1> DEFINE j2 == RecordFault(j, r, k)
<1>1. j2 \in Journal
    BY RecordTyped
<1>2. PICK n \in Nat : /\ n = Len(j.events)
                       /\ Len(j2.events) = n + 1
                       /\ \A m \in 1 .. n : j2.events[m] = j.events[m]
                       /\ j2.events[n + 1]
                             = [run |-> r, key |-> k, recurrence |-> j.counts[k] + 1]
    BY RecordAppends
<1> HIDE DEF j2
<1>3. Places(j2, q, n + 1) = IF q = k THEN Places(j, q, n) \cup {n + 1} ELSE Places(j, q, n)
    BY <1>2 DEF Places
<1>4. n + 1 \notin Places(j, q, n)
    BY DEF Places
<1>5. /\ IsFiniteSet(Places(j, q, n)) /\ Cardinality(Places(j, q, n)) \in Nat
      /\ Cardinality(Places(j, q, n) \cup {n + 1}) = Cardinality(Places(j, q, n)) + 1
    BY <1>4, PlacesFinite, FS_AddElement
<1>6. /\ Count(j, q) = Cardinality(Places(j, q, n))
      /\ Count(j2, q) = Cardinality(Places(j2, q, n + 1))
    BY <1>1, <1>2, CountIsPlaces
<1> QED BY <1>3, <1>5, <1>6 DEF j2

JournalInv == TypeOK /\ RecurrenceIsOrdinal /\ PatternsCountFaults

LEMMA EmptyJournalCounts == EmptyJournal \in Journal /\ \A k : Count(EmptyJournal, k) = 0
<1>1. EmptyJournal \in Journal
    BY DEF EmptyJournal, Journal
<1>2. ASSUME NEW k PROVE Count(EmptyJournal, k) = 0
    <2>1. {n \in DOMAIN EmptyJournal.events : EmptyJournal.events[n].key = k} = {}
        BY DEF EmptyJournal
    <2> QED BY <2>1, FS_EmptySet DEF Count
<1> QED BY <1>1, <1>2

\* A fault gets the number of those with its key before it, plus one.
LEMMA RecordKeepsOrdinal ==
    ASSUME JournalInv, NEW r \in RunId, NEW k \in FaultKey,
           journal' = RecordFault(journal, r, k)
    PROVE  RecurrenceIsOrdinal'
<1>1. journal \in Journal /\ journal' \in Journal
    BY RecordTyped DEF JournalInv, TypeOK
<1>2. PICK n \in Nat : /\ n = Len(journal.events) /\ DOMAIN journal.events = 1 .. n
                       /\ DOMAIN journal'.events = 1 .. (n + 1)
                       /\ \A m \in 1 .. n : journal'.events[m] = journal.events[m]
                       /\ journal'.events[n + 1]
                             = [run |-> r, key |-> k, recurrence |-> journal.counts[k] + 1]
    BY <1>1, RecordAppends
<1>3. \A q \in FaultKey : journal.counts[q] = Count(journal, q)
    BY DEF JournalInv, RecurrenceIsOrdinal
<1>4. ASSUME NEW q \in FaultKey PROVE journal'.counts[q] = Count(journal', q)
    <2>1. journal'.counts[q] = journal.counts[q] + (IF q = k THEN 1 ELSE 0)
        BY <1>1 DEF RecordFault, Journal
    <2> QED BY <1>1, <1>3, <2>1, RecordCounts
<1>5. ASSUME NEW m \in 1 .. n + 1
      PROVE  journal'.events[m].recurrence
                = Cardinality({i \in 1 .. m : journal'.events[i].key = journal'.events[m].key})
    <2>1. CASE m \in 1 .. n
        <3>1. {i \in 1 .. m : journal'.events[i].key = journal'.events[m].key}
                 = {i \in 1 .. m : journal.events[i].key = journal.events[m].key}
            BY <1>2, <2>1
        <3>2. journal'.events[m] = journal.events[m]
            BY <1>2, <2>1
        <3>3. journal.events[m].recurrence
                 = Cardinality({i \in 1 .. m : journal.events[i].key = journal.events[m].key})
            BY <1>2, <2>1 DEF JournalInv, RecurrenceIsOrdinal
        <3> QED BY <3>1, <3>2, <3>3
    <2>2. CASE m = n + 1
        <3>1. /\ journal'.events[m].key = k
              /\ journal'.events[m].recurrence = journal.counts[k] + 1
            BY <1>2, <2>2
        <3>2. {i \in 1 .. m : journal'.events[i].key = k} = Places(journal, k, n) \cup {m}
            BY <1>2, <2>2, <3>1 DEF Places
        <3>3. m \notin Places(journal, k, n)
            BY <2>2 DEF Places
        <3>4. Cardinality(Places(journal, k, n) \cup {m}) = Cardinality(Places(journal, k, n)) + 1
            BY <3>3, PlacesFinite, FS_AddElement
        <3>5. journal.counts[k] = Cardinality(Places(journal, k, n))
            BY <1>1, <1>2, <1>3, CountIsPlaces
        <3> QED BY <3>1, <3>2, <3>4, <3>5
    <2> QED BY <2>1, <2>2
<1> QED BY <1>2, <1>4, <1>5 DEF RecurrenceIsOrdinal

LEMMA JournalStep == ASSUME JournalInv, TypeOK', [Next]_vars PROVE JournalInv'
<1>1. /\ journal \in Journal /\ patterns \in Patterns /\ clears \in Nat
      /\ RecurrenceIsOrdinal /\ PatternsCountFaults
    BY BoundsAssumption DEF JournalInv, TypeOK
<1>2. CASE UNCHANGED <<journal, patterns, clears>>
    BY <1>2 DEF JournalInv, RecurrenceIsOrdinal, PatternsCountFaults, Count
<1>3. ASSUME UNCHANGED clears,
             NEW r \in RunId, NEW k \in FaultKey, journal' = RecordFault(journal, r, k),
             patterns' = IngestFault(patterns, k)
      PROVE  JournalInv'
    <2>1. RecurrenceIsOrdinal'
        BY <1>3, RecordKeepsOrdinal
    <2>2. ASSUME NEW q \in FaultKey
          PROVE  /\ patterns'[q] >= Count(journal', q)
                 /\ clears' = 0 => patterns'[q] = Count(journal', q)
        <3>1. patterns'[q] = patterns[q] + (IF q = k THEN 1 ELSE 0) /\ patterns[q] \in Nat
            BY <1>1, <1>3 DEF IngestFault, Patterns
        <3>2. /\ Count(journal, q) \in Nat
              /\ Count(journal', q) = Count(journal, q) + (IF q = k THEN 1 ELSE 0)
            BY <1>1, <1>3, RecordCounts
        <3>3. /\ patterns[q] >= Count(journal, q)
              /\ clears = 0 => patterns[q] = Count(journal, q)
            BY <1>1 DEF PatternsCountFaults
        <3> QED BY <1>3, <3>1, <3>2, <3>3
    <2> QED BY <2>1, <2>2 DEF JournalInv, PatternsCountFaults
<1>4. CASE journal' = EmptyJournal /\ UNCHANGED patterns /\ clears' = clears + 1
    <2>1. RecurrenceIsOrdinal'
        <3>1. \A q \in FaultKey : journal'.counts[q] = Count(journal', q)
            BY <1>4, EmptyJournalCounts DEF EmptyJournal
        <3>2. DOMAIN journal'.events = {}
            BY <1>4 DEF EmptyJournal
        <3> QED BY <3>1, <3>2 DEF RecurrenceIsOrdinal
    <2>2. \A q \in FaultKey : Count(journal', q) = 0 /\ patterns'[q] \in Nat
        BY <1>1, <1>4, EmptyJournalCounts DEF Patterns
    <2> QED BY <1>1, <1>4, <2>1, <2>2 DEF JournalInv, PatternsCountFaults
<1> QED BY <1>2, <1>3, <1>4, JournalSteps

LEMMA JournalInvariance == Spec => []JournalInv
<1>1. Init => JournalInv
    <2> SUFFICES ASSUME Init PROVE JournalInv
        OBVIOUS
    <2>1. journal = EmptyJournal /\ patterns = NoPatterns
        BY DEF Init
    <2>2. RecurrenceIsOrdinal
        <3>1. \A q \in FaultKey : journal.counts[q] = Count(journal, q)
            BY <2>1, EmptyJournalCounts DEF EmptyJournal
        <3>2. DOMAIN journal.events = {}
            BY <2>1 DEF EmptyJournal
        <3> QED BY <3>1, <3>2 DEF RecurrenceIsOrdinal
    <2>3. PatternsCountFaults
        BY <2>1, EmptyJournalCounts DEF NoPatterns, PatternsCountFaults
    <2> QED BY <2>2, <2>3, InitTyped DEF JournalInv
<1>2. JournalInv /\ TypeOK' /\ [Next]_vars => JournalInv'
    BY JournalStep
<1> QED BY <1>1, <1>2, TypeCorrect, PTL DEF Spec

\* The recurrence count a fault is given is its ordinal among the faults with its
\* key, however the calls of run interleave and whenever the journal is cleared.
THEOREM RecurrencesAreOrdinals == Spec => []RecurrenceIsOrdinal
<1>1. JournalInv => RecurrenceIsOrdinal
    BY DEF JournalInv
<1> QED BY <1>1, JournalInvariance, PTL

\* The pattern ledger counts each fault of the journal once, and after a clear
\* never fewer than the journal has.
THEOREM PatternsFollowJournal == Spec => []PatternsCountFaults
<1>1. JournalInv => PatternsCountFaults
    BY DEF JournalInv
<1> QED BY <1>1, JournalInvariance, PTL

-----------------------------------------------------------------------------
(* A step of one call leaves every other call alone.                        *)

\* Outside call r and its span, the two stores say the same.
Same(st2, st, r) ==
    \A q \in RunId \ {r} : /\ st2.run[q] = st.run[q]
                           /\ st2.span[SpanOf[q]] = st.span[SpanOf[q]]

LEMMA MethodsAreLocal ==
    ASSUME NEW st \in Store, NEW r \in RunId
    PROVE  /\ Same(StartRun(st, r), st, r)
           /\ Same(StartSpan(st, r, SpanOf[r], NoSpan), st, r)
           /\ Same(EndSpan(st, SpanOf[r]), st, r)
           /\ Same(EndRun(st, r), st, r)
<1>1. SpanOf[r] \in SpanId /\ \A q \in RunId \ {r} : SpanOf[q] \in SpanId \ {SpanOf[r]}
    BY CallsAssumption
<1>2. st.run \in [RunId -> Status] /\ st.span \in [SpanId -> Status]
    BY DEF Store
<1>3. StartRun(st, r).span = st.span /\ EndRun(st, r).span = st.span
    BY DEF StartRun, EndRun, Store
<1>4. \A q \in RunId \ {r} : /\ StartRun(st, r).run[q] = st.run[q]
                             /\ EndRun(st, r).run[q] = st.run[q]
    BY <1>2 DEF StartRun, EndRun, Store
<1>5. /\ StartSpan(st, r, SpanOf[r], NoSpan).run = st.run
      /\ EndSpan(st, SpanOf[r]).run = st.run
    BY DEF StartSpan, EndSpan, Store
<1>6. \A s \in SpanId \ {SpanOf[r]} :
          /\ StartSpan(st, r, SpanOf[r], NoSpan).span[s] = st.span[s]
          /\ EndSpan(st, SpanOf[r]).span[s] = st.span[s]
    BY <1>1, <1>2 DEF StartSpan, EndSpan, Store
<1> QED BY <1>1, <1>3, <1>4, <1>5, <1>6 DEF Same

\* What Settle(r, st, ...) changes, it changes at r.
LEMMA SettleIsLocal ==
    ASSUME TypeOK, NEW r \in RunId, NEW st \in Store, Same(st, store, r),
           NEW j, NEW tr, NEW orphan, NEW error, Settle(r, st, j, tr, orphan, error),
           NEW q \in RunId \ {r}
    PROVE  /\ Same(store', store, r)
           /\ trace'[q] = trace[q] /\ call'[q] = call[q]
           /\ pc'[q] = pc[q] /\ result'[q] = result[q]
<1>1. store' = st \/ store' = EndRun(st, r)
    BY DEF Settle
<1>2. Same(store', store, r)
    BY <1>1, MethodsAreLocal DEF Same
<1>3. \E e : trace' = [trace EXCEPT ![r] = e]
    BY DEF Settle
<1>4. call' = [call EXCEPT ![r].orphan = orphan, ![r].error = error]
    BY DEF Settle
<1>5. /\ \E p : pc' = [pc EXCEPT ![r] = p]
      /\ result' = result \/ \E x : result' = [result EXCEPT ![r] = x]
    <2> DEFINE found  == GetByRun(j, r)
               status == IF found # <<>> \/ orphan \/ error THEN "failed" ELSE "completed"
               answer == [status |-> status, faults |-> found, orphan |-> orphan]
    <2>1. \/ pc' = [pc EXCEPT ![r] = "rejected"] /\ result' = result
          \/ pc' = [pc EXCEPT ![r] = "done"] /\ result' = [result EXCEPT ![r] = answer]
        BY DEF Settle
    <2> HIDE DEF answer
    <2> QED BY <2>1
<1> QED BY <1>2, <1>3, <1>4, <1>5 DEF TypeOK

LEMMA CallIsLocal ==
    ASSUME TypeOK, NEW r \in RunId, Begin(r) \/ Step(r), NEW q \in RunId \ {r}
    PROVE  /\ Same(store', store, r)
           /\ trace'[q] = trace[q] /\ call'[q] = call[q]
           /\ pc'[q] = pc[q] /\ result'[q] = result[q]
<1>1. store \in Store /\ Same(store, store, r)
    BY DEF TypeOK, Same
<1>2. CASE Begin(r)
    <2> DEFINE started == StartRun(store, r)
               inSpan  == StartSpan(started, r, SpanOf[r], NoSpan)
    <2>1. started \in Store /\ Same(started, store, r)
        <3>1. StartRun(store, r) \in Store
            BY <1>1 DEF StartRun, StartRunError, OK, Store, Status
        <3> QED BY <1>1, <3>1, MethodsAreLocal
    <2>2. store' = started \/ store' = inSpan
        BY <1>2 DEF Begin
    <2> HIDE DEF started
    <2>3. Same(inSpan, started, r)
        BY <2>1, MethodsAreLocal
    <2>4. Same(store', store, r)
        BY <2>1, <2>2, <2>3 DEF Same
    <2>5. /\ trace' = trace \/ \E e : trace' = [trace EXCEPT ![r] = e]
          /\ \E p : pc' = [pc EXCEPT ![r] = p]
          /\ result' = result
        BY <1>2 DEF Begin
    <2>6. call'[q] = call[q]
        <3>1. PICK payload \in Payloads, i \in RunIndexes \cup {runCounter[RuntimeOf[r]]},
                   bad \in Throwing("TRACE_SPAN_START") :
                  call' = [call EXCEPT ![r].mode = ResolveMode(RuntimeOf[r], i),
                                       ![r].payload = payload, ![r].error = bad]
            BY <1>2 DEF Begin
        <3> QED BY <3>1 DEF TypeOK
    <2> QED BY <2>4, <2>5, <2>6 DEF TypeOK
<1>3. CASE ResumePlan(r)
    <2>1. /\ \E p : pc' = [pc EXCEPT ![r] = p]
          /\ call' = call \/ \E out : call' = [call EXCEPT ![r].output = out]
          /\ UNCHANGED <<store, trace, result>>
        BY <1>3 DEF ResumePlan
    <2> QED BY <1>1, <2>1 DEF TypeOK
<1>4. CASE ResumeShape(r) \/ ResumeDeterminism(r)
    <2>1. /\ \E p : pc' = [pc EXCEPT ![r] = p]
          /\ trace' = trace \/ \E e : trace' = [trace EXCEPT ![r] = e]
          /\ UNCHANGED <<store, call, result>>
        BY <1>4 DEF ResumeShape, ResumeDeterminism, Evaluated
    <2> QED BY <1>1, <2>1 DEF TypeOK
<1>5. EndSpan(store, SpanOf[r]) \in Store /\ Same(EndSpan(store, SpanOf[r]), store, r)
    <2>1. EndSpan(store, SpanOf[r]) \in Store
        <3>1. SpanOf[r] \in SpanId
            BY CallsAssumption
        <3> QED BY <1>1, <3>1 DEF EndSpan, SpanError, OK, Store, Status
    <2> QED BY <1>1, <2>1, MethodsAreLocal
<1>6. CASE Finish(r)
    <2>1. \E j, tr, orphan, error : Settle(r, EndSpan(store, SpanOf[r]), j, tr, orphan, error)
        BY <1>6 DEF Finish, SettleOrphan
    <2> QED BY <1>5, <2>1, SettleIsLocal
<1>7. CASE CatchOrphan(r) \/ ResumeGuarded(r)
    <2>1. \E j, tr, orphan, error : Settle(r, store, j, tr, orphan, error)
        BY <1>7 DEF CatchOrphan, SettleOrphan, ResumeGuarded
    <2> QED BY <1>1, <2>1, SettleIsLocal
<1>8. CASE CloseGuard(r)
    <2>1. /\ \E p : pc' = [pc EXCEPT ![r] = p]
          /\ \E e : trace' = [trace EXCEPT ![r] = e]
          /\ \E b : call' = [call EXCEPT ![r].error = b]
          /\ store' = EndSpan(store, SpanOf[r]) /\ UNCHANGED result
        BY <1>8 DEF CloseGuard
    <2> QED BY <1>5, <2>1 DEF TypeOK
<1> QED BY <1>2, <1>3, <1>4, <1>6, <1>7, <1>8 DEF Step

\* recordFault for one run adds nothing to what getByRun finds of another.
LEMMA RecordIsLocal ==
    ASSUME NEW j \in Journal, NEW r \in RunId, NEW k \in FaultKey, NEW q \in RunId \ {r}
    PROVE  GetByRun(RecordFault(j, r, k), q) = GetByRun(j, q)
<1> DEFINE j2 == RecordFault(j, r, k)
<1>1. PICK n \in Nat : /\ DOMAIN j.events = 1 .. n /\ DOMAIN j2.events = 1 .. (n + 1)
                       /\ \A m \in 1 .. n : j2.events[m] = j.events[m]
                       /\ j2.events[n + 1]
                             = [run |-> r, key |-> k, recurrence |-> j.counts[k] + 1]
    BY RecordAppends
<1> HIDE DEF j2
<1>2. {m \in DOMAIN j2.events : j2.events[m].run = q}
         = {m \in DOMAIN j.events : j.events[m].run = q}
    BY <1>1
<1> QED BY <1>1, <1>2 DEF GetByRun, j2

\* Once a call of run has returned, the run ledger, the trace and (short of a
\* clear) the journal hold nothing new in its name.
THEOREM SettledCallsAreFinal == Spec => SettledIsFinal
<1> DEFINE Still(r) == /\ trace'[r] = trace[r]
                       /\ store'.run[r] = store.run[r]
                       /\ store'.span[SpanOf[r]] = store.span[SpanOf[r]]
                       /\ result'[r] = result[r]
                       /\ clears' = clears => GetByRun(journal', r) = GetByRun(journal, r)
<1>1. ASSUME TypeOK, [Next]_vars, NEW q \in RunId, Settled(q) PROVE Still(q)
    <2>1. ASSUME NEW r \in RunId, Begin(r) \/ Step(r) PROVE Still(q)
        <3>1. r # q
            BY <1>1, <2>1 DEF Begin, Step, ResumePlan, ResumeShape, ResumeDeterminism, Finish,
                              CatchOrphan, CloseGuard, ResumeGuarded, Settled
        <3>2. /\ Same(store', store, r)
              /\ trace'[q] = trace[q] /\ result'[q] = result[q]
            BY <1>1, <2>1, <3>1, CallIsLocal
        <3>3. GetByRun(journal', q) = GetByRun(journal, q)
            <4>1. journal \in Journal
                BY <1>1 DEF TypeOK
            <4> QED BY <2>1, <3>1, <4>1, CallJournal, RecordIsLocal
        <3> QED BY <3>1, <3>2, <3>3 DEF Same
    <2>2. CASE (\E t \in Runtimes : Construct(t)) \/ PatchOp
        BY <2>2 DEF Construct, PatchOp, ledgers
    <2>3. CASE ClearJournal
        <3>1. UNCHANGED <<store, trace, result>> /\ clears' # clears
            BY <1>1, <2>3, BoundsAssumption DEF ClearJournal, TypeOK
        <3> QED BY <3>1
    <2>4. CASE UNCHANGED vars
        BY <2>4 DEF vars, ledgers
    <2> QED BY <1>1, <2>1, <2>2, <2>3, <2>4 DEF Next
<1>2. TypeOK /\ [Next]_vars => [\A r \in RunId : Settled(r) => Still(r)]_vars
    BY <1>1
<1> QED BY <1>2, TypeCorrect, PTL DEF Spec, SettledIsFinal

-----------------------------------------------------------------------------
(* Traces.                                                                  *)

Has(t, type) == \E n \in DOMAIN t : t[n].type = type

\* The order of a trace; over tells whether its span has ended.
Nested(t, over) ==
    /\ \A n \in DOMAIN t :
          /\ t[n].type = "TRACE_RUN_START" => n = 1
          /\ t[n].type = "TRACE_SPAN_START" => n = 2
          /\ t[n].type = "TRACE_RUN_END" => n = Len(t)
          /\ t[n].type = "TRACE_SPAN_END" =>
                \A m \in DOMAIN t : m > n => t[m].type = "TRACE_RUN_END"
    /\ Has(t, "TRACE_SPAN_END") <=> over

\* A running call has not traced its end, and a call that was not made nothing.
TraceInv ==
    \A r \in RunId :
        /\ Nested(trace[r], store.span[SpanOf[r]] = "ended")
        /\ pc[r] = "idle" => trace[r] = <<>>
        /\ Running(r) => ~Has(trace[r], "TRACE_RUN_END")

\* Push keeps what is in the log and adds one event at its end.
LEMMA LogAppends ==
    ASSUME NEW t \in Seq(Event), NEW e \in Event
    PROVE  \E n \in Nat :
              /\ n = Len(t) /\ DOMAIN t = 1 .. n
              /\ Append(t, e) \in Seq(Event)
              /\ Len(Append(t, e)) = n + 1 /\ DOMAIN Append(t, e) = 1 .. (n + 1)
              /\ \A m \in 1 .. n : Append(t, e)[m] = t[m]
              /\ Append(t, e)[n + 1] = e
<1>1. PICK n \in Nat : n = Len(t)
    OBVIOUS
<1>2. /\ DOMAIN t = 1 .. n
      /\ Append(t, e) \in Seq(Event)
      /\ Len(Append(t, e)) = n + 1 /\ DOMAIN Append(t, e) = 1 .. (n + 1)
      /\ \A m \in 1 .. n : Append(t, e)[m] = t[m]
      /\ Append(t, e)[n + 1] = e
    BY <1>1
<1> QED BY <1>1, <1>2

\* A log that is not at the end of its run takes any event but a start, and the
\* events of invariants and of the span's end only while the span is open.
LEMMA AppendNests ==
    ASSUME NEW t \in Seq(Event), NEW e \in Event, NEW over \in BOOLEAN,
           Nested(t, over), ~Has(t, "TRACE_RUN_END"),
           e.type \notin {"TRACE_RUN_START", "TRACE_SPAN_START"},
           e.type # "TRACE_RUN_END" => ~over
    PROVE  /\ Nested(Append(t, e), over \/ e.type = "TRACE_SPAN_END")
           /\ e.type # "TRACE_RUN_END" => ~Has(Append(t, e), "TRACE_RUN_END")
<1> DEFINE u == Append(t, e)
<1>1. PICK n \in Nat :
          /\ n = Len(t) /\ DOMAIN t = 1 .. n
          /\ Len(u) = n + 1 /\ DOMAIN u = 1 .. (n + 1)
          /\ \A m \in 1 .. n : u[m] = t[m]
          /\ u[n + 1] = e
    BY LogAppends
<1> HIDE DEF u
<1>2. \A m \in 1 .. n : u[m].type # "TRACE_RUN_END"
    BY <1>1 DEF Has
<1>3. Has(u, "TRACE_SPAN_END") <=> over \/ e.type = "TRACE_SPAN_END"
    BY <1>1 DEF Has, Nested
<1>4. ASSUME NEW m \in 1 .. n + 1
      PROVE  /\ u[m].type = "TRACE_RUN_START" => m = 1
             /\ u[m].type = "TRACE_SPAN_START" => m = 2
             /\ u[m].type = "TRACE_RUN_END" => m = n + 1
             /\ u[m].type = "TRACE_SPAN_END" =>
                    \A i \in 1 .. n + 1 : i > m => u[i].type = "TRACE_RUN_END"
    <2>1. CASE m = n + 1
        BY <1>1, <2>1
    <2>2. CASE m \in 1 .. n
        <3>1. /\ u[m].type = "TRACE_RUN_START" => m = 1
              /\ u[m].type = "TRACE_SPAN_START" => m = 2
              /\ u[m].type = "TRACE_RUN_END" => m = n + 1
            BY <1>1, <1>2, <2>2 DEF Nested
        <3>2. ASSUME u[m].type = "TRACE_SPAN_END", NEW i \in 1 .. n + 1, i > m
              PROVE  u[i].type = "TRACE_RUN_END"
            <4>1. over
                BY <1>1, <2>2, <3>2 DEF Nested, Has
            <4>2. i \in 1 .. n => u[i].type = "TRACE_RUN_END"
                BY <1>1, <2>2, <3>2 DEF Nested
            <4> QED BY <1>1, <4>1, <4>2
        <3> QED BY <3>1, <3>2
    <2> QED BY <2>1, <2>2
<1>5. e.type # "TRACE_RUN_END" => ~Has(u, "TRACE_RUN_END")
    BY <1>1, <1>2 DEF Has
<1> QED BY <1>1, <1>3, <1>4, <1>5 DEF Nested, u

\* The end of run closes a log that is nested.
LEMMA SettleNests ==
    ASSUME TypeOK, NEW r \in RunId, NEW st \in Store, st.run[r] = "open",
           NEW j, NEW tr \in Seq(Event), NEW orphan, NEW error,
           Nested(tr, st.span[SpanOf[r]] = "ended"), ~Has(tr, "TRACE_RUN_END"),
           Settle(r, st, j, tr, orphan, error)
    PROVE  /\ Nested(trace'[r], store'.span[SpanOf[r]] = "ended")
           /\ pc'[r] \in {"done", "rejected"}
<1> DEFINE over == st.span[SpanOf[r]] = "ended"
           ended == Append(tr, Ev("TRACE_RUN_END"))
<1>1. store'.span = st.span
    <2>1. store' = st \/ store' = EndRun(st, r)
        BY DEF Settle
    <2> QED BY <2>1, EndRunEffect
<1>2. trace'[r] = tr \/ trace'[r] = ended
    BY DEF Settle, TypeOK
<1>3. pc'[r] \in {"done", "rejected"}
    <2>1. pc' = [pc EXCEPT ![r] = "rejected"] \/ pc' = [pc EXCEPT ![r] = "done"]
        BY DEF Settle
    <2> QED BY <2>1 DEF TypeOK
<1>4. Ev("TRACE_RUN_END") \in Event /\ Ev("TRACE_RUN_END").type = "TRACE_RUN_END"
    BY EventsTyped DEF Ev
<1>5. Nested(ended, over)
    <2>1. over \in BOOLEAN /\ (over \/ "TRACE_RUN_END" = "TRACE_SPAN_END") = over
        OBVIOUS
    <2> HIDE DEF over
    <2>2. Nested(ended, over \/ Ev("TRACE_RUN_END").type = "TRACE_SPAN_END")
        BY <1>4, <2>1, AppendNests DEF over
    <2> QED BY <1>4, <2>1, <2>2
<1> QED BY <1>1, <1>2, <1>3, <1>5

LEMMA BeginNests ==
    ASSUME TypeOK, IInv, TraceInv, NEW r \in RunId, Begin(r)
    PROVE  /\ Nested(trace'[r], store'.span[SpanOf[r]] = "ended")
           /\ pc'[r] # "idle" /\ ~Has(trace'[r], "TRACE_RUN_END")
<1> DEFINE started == StartRun(store, r)
           inSpan  == StartSpan(started, r, SpanOf[r], NoSpan)
<1>1. store.run[r] = "absent" /\ store.span[SpanOf[r]] = "absent" /\ SpanOf[r] \in SpanId
    BY CallsAssumption DEF Begin, IInv, Phase
<1>2. started.span = store.span
    BY <1>1, StartRunEffect DEF TypeOK
<1>3. inSpan.span = started.span \/ inSpan.span = [started.span EXCEPT ![SpanOf[r]] = "open"]
    BY DEF StartSpan
<1>4. store' = started \/ store' = inSpan
    BY DEF Begin
<1> HIDE DEF started, inSpan
<1>5. store'.span[SpanOf[r]] # "ended"
    BY <1>1, <1>2, <1>3, <1>4 DEF TypeOK, Store
<1>6. PICK a, b : a = Ev("TRACE_RUN_START") /\ b = Ev("TRACE_SPAN_START")
    OBVIOUS
<1>7. trace'[r] = <<>> \/ trace'[r] = <<a>> \/ trace'[r] = <<a, b>>
    BY <1>6 DEF Begin, TypeOK, TraceInv
<1>8. a.type = "TRACE_RUN_START" /\ b.type = "TRACE_SPAN_START"
    BY <1>6 DEF Ev
<1>9. pc'[r] # "idle"
    BY DEF Begin, TypeOK
<1> QED BY <1>5, <1>7, <1>8, <1>9 DEF Nested, Has

LEMMA EvaluatedNests ==
    ASSUME TypeOK, NEW r \in RunId, NEW k \in FaultKey, NEW next, Evaluated(r, k, next),
           Nested(trace[r], FALSE), ~Has(trace[r], "TRACE_RUN_END")
    PROVE  Nested(trace'[r], FALSE) /\ ~Has(trace'[r], "TRACE_RUN_END")
<1> DEFINE inv == [type |-> "TRACE_INVARIANT", key |-> k,
                   passed |-> Passes(k, call[r].output)]
           evaluated == Append(trace[r], inv)
<1>1. /\ inv \in Event /\ inv.type = "TRACE_INVARIANT"
      /\ FaultEvent(k) \in Event /\ FaultEvent(k).type = "TRACE_FAULT"
    BY EventsTyped, PassesTyped DEF TypeOK, Call, FaultEvent
<1>2. trace[r] \in Seq(Event)
    BY DEF TypeOK
<1>3. trace'[r] = evaluated \/ trace'[r] = Append(evaluated, FaultEvent(k))
    BY DEF Evaluated, TypeOK
<1> HIDE DEF inv
<1>4. evaluated \in Seq(Event) /\ Nested(evaluated, FALSE) /\ ~Has(evaluated, "TRACE_RUN_END")
    <2>1. /\ Nested(evaluated, FALSE \/ inv.type = "TRACE_SPAN_END")
          /\ ~Has(evaluated, "TRACE_RUN_END")
        BY <1>1, <1>2, AppendNests
    <2>2. (FALSE \/ inv.type = "TRACE_SPAN_END") = FALSE
        BY <1>1
    <2>3. evaluated \in Seq(Event)
        BY <1>1, <1>2
    <2> QED BY <2>1, <2>2, <2>3
<1> HIDE DEF evaluated
<1>5. /\ Nested(Append(evaluated, FaultEvent(k)), FALSE)
      /\ ~Has(Append(evaluated, FaultEvent(k)), "TRACE_RUN_END")
    <2>1. /\ Nested(Append(evaluated, FaultEvent(k)),
                    FALSE \/ FaultEvent(k).type = "TRACE_SPAN_END")
          /\ ~Has(Append(evaluated, FaultEvent(k)), "TRACE_RUN_END")
        BY <1>1, <1>4, AppendNests
    <2>2. (FALSE \/ FaultEvent(k).type = "TRACE_SPAN_END") = FALSE
        BY <1>1
    <2> QED BY <2>1, <2>2
<1> QED BY <1>3, <1>4, <1>5

\* Every step of a call keeps its own trace nested.
LEMMA CallNests ==
    ASSUME TypeOK, IInv, TraceInv, NEW r \in RunId, Begin(r) \/ Step(r)
    PROVE  /\ Nested(trace'[r], store'.span[SpanOf[r]] = "ended")
           /\ pc'[r] # "idle"
           /\ pc'[r] \notin {"done", "rejected"} => ~Has(trace'[r], "TRACE_RUN_END")
<1> DEFINE s == SpanOf[r]
           tr == Append(trace[r], Ev("TRACE_SPAN_END"))
<1>1. CASE Begin(r)
    BY <1>1, BeginNests
<1>2. ASSUME Step(r)
      PROVE  /\ Nested(trace[r], store.span[s] = "ended") /\ ~Has(trace[r], "TRACE_RUN_END")
             /\ trace[r] \in Seq(Event) /\ store \in Store /\ s \in SpanId
             /\ store.run[r] = "open" /\ store.span[s] # "absent"
    <2>1. pc[r] \in {"plan", "shape", "determinism", "evaluated", "threw", "guarded"}
        BY <1>2 DEF Step, ResumePlan, ResumeShape, ResumeDeterminism, Finish, CatchOrphan,
                    CloseGuard, ResumeGuarded
    <2> QED BY <2>1, CallsAssumption DEF TraceInv, Running, TypeOK, IInv, Phase
<1>3. ASSUME Step(r), pc[r] # "guarded" PROVE store.span[s] = "open"
    <2>1. pc[r] \in {"plan", "shape", "determinism", "evaluated", "threw"}
        BY <1>3 DEF Step, ResumePlan, ResumeShape, ResumeDeterminism, Finish, CatchOrphan,
                    CloseGuard, ResumeGuarded
    <2> QED BY <2>1 DEF IInv, Phase
<1>4. ASSUME Step(r), pc[r] # "guarded"
      PROVE  /\ tr \in Seq(Event) /\ Nested(tr, TRUE) /\ ~Has(tr, "TRACE_RUN_END")
             /\ EndSpan(store, s) \in Store
             /\ EndSpan(store, s).run[r] = "open" /\ EndSpan(store, s).span[s] = "ended"
    <2>1. Nested(trace[r], FALSE)
        <3>1. (store.span[s] = "ended") = FALSE
            BY <1>3, <1>4
        <3> QED BY <1>2, <1>4, <3>1
    <2>2. PICK e \in Event : e = Ev("TRACE_SPAN_END") /\ e.type = "TRACE_SPAN_END"
        BY EventsTyped DEF Ev
    <2>3. Nested(tr, FALSE \/ e.type = "TRACE_SPAN_END") /\ ~Has(tr, "TRACE_RUN_END")
        BY <1>2, <1>4, <2>1, <2>2, AppendNests
    <2>4. (FALSE \/ e.type = "TRACE_SPAN_END") = TRUE
        BY <2>2
    <2>5. EndSpan(store, s) \in Store
        BY <1>2, <1>4, EndSpanSound DEF IInv
    <2>6. EndSpan(store, s).run = store.run
          /\ EndSpan(store, s).span = [store.span EXCEPT ![s] = "ended"]
        BY <1>2, <1>4, EndSpanEffect
    <2>7. EndSpan(store, s).run[r] = "open" /\ EndSpan(store, s).span[s] = "ended"
        BY <1>2, <1>4, <2>6 DEF Store
    <2>8. tr \in Seq(Event)
        BY <1>2, <1>4, <2>2
    <2> HIDE DEF tr
    <2> QED BY <2>3, <2>4, <2>5, <2>7, <2>8
<1>5. CASE ResumePlan(r)
    <2>1. /\ UNCHANGED <<store, trace>>
          /\ pc' = [pc EXCEPT ![r] = "threw"] \/ pc' = [pc EXCEPT ![r] = "shape"]
        BY <1>5 DEF ResumePlan
    <2> QED BY <1>2, <1>5, <2>1 DEF Step, TypeOK
<1>6. CASE ResumeShape(r) \/ ResumeDeterminism(r)
    <2>1. Step(r) /\ pc[r] # "guarded"
        BY <1>6 DEF Step, ResumeShape, ResumeDeterminism
    <2>2. /\ UNCHANGED store
          /\ (\E k \in FaultKey : \E next : Evaluated(r, k, next)) \/ UNCHANGED trace
        BY <1>6, KeysAssumption DEF ResumeShape, ResumeDeterminism
    <2>3. (store.span[s] = "ended") = FALSE
        BY <1>3, <2>1
    <2>4. Nested(trace'[r], FALSE) /\ ~Has(trace'[r], "TRACE_RUN_END")
        <3>1. Nested(trace[r], FALSE) /\ ~Has(trace[r], "TRACE_RUN_END")
            BY <1>2, <2>1, <2>3
        <3> QED BY <2>2, <3>1, EvaluatedNests
    <2>5. pc'[r] # "idle"
        BY <1>6 DEF ResumeShape, ResumeDeterminism, Evaluated, TypeOK
    <2> QED BY <2>2, <2>3, <2>4, <2>5
<1>7. CASE Finish(r)
    <2>1. Step(r) /\ pc[r] # "guarded"
        BY <1>7 DEF Step, Finish
    <2>2. \E j, orphan, error : Settle(r, EndSpan(store, s), j, tr, orphan, error)
        BY <1>7 DEF Finish, SettleOrphan
    <2>3. (EndSpan(store, s).span[s] = "ended") = TRUE
        BY <1>4, <2>1
    <2> HIDE DEF s, tr
    <2>4. Nested(tr, EndSpan(store, s).span[s] = "ended")
        BY <1>4, <2>1, <2>3
    <2>5. /\ Nested(trace'[r], store'.span[s] = "ended")
          /\ pc'[r] \in {"done", "rejected"}
        BY <1>4, <2>1, <2>2, <2>4, SettleNests DEF s
    <2> QED BY <2>5 DEF s
<1>8. CASE CatchOrphan(r) \/ ResumeGuarded(r)
    <2>1. Step(r)
        BY <1>8 DEF Step
    <2>2. \E j, orphan, error : Settle(r, store, j, trace[r], orphan, error)
        BY <1>8 DEF CatchOrphan, SettleOrphan, ResumeGuarded
    <2> QED BY <1>2, <2>1, <2>2, SettleNests
<1>9. CASE CloseGuard(r)
    <2>1. Step(r) /\ pc[r] # "guarded"
        BY <1>9 DEF Step, CloseGuard
    <2>2. store' = EndSpan(store, s) /\ trace'[r] = tr /\ pc'[r] = "guarded"
        BY <1>9 DEF CloseGuard, TypeOK
    <2>3. (store'.span[s] = "ended") = TRUE
        BY <1>4, <2>1, <2>2
    <2> QED BY <1>4, <2>1, <2>2, <2>3
<1> QED BY <1>1, <1>5, <1>6, <1>7, <1>8, <1>9 DEF Step

LEMMA TraceStep ==
    ASSUME TypeOK, IInv, TraceInv, [Next]_vars
    PROVE  TraceInv'
<1>1. ASSUME NEW r \in RunId, Begin(r) \/ Step(r) PROVE TraceInv'
    <2>1. ASSUME NEW q \in RunId \ {r}
          PROVE  /\ Nested(trace'[q], store'.span[SpanOf[q]] = "ended")
                 /\ pc'[q] = "idle" => trace'[q] = <<>>
                 /\ Running(q)' => ~Has(trace'[q], "TRACE_RUN_END")
        <3>1. /\ trace'[q] = trace[q] /\ pc'[q] = pc[q]
              /\ store'.span[SpanOf[q]] = store.span[SpanOf[q]]
            BY <1>1, CallIsLocal DEF Same
        <3> QED BY <3>1 DEF TraceInv, Running
    <2>2. /\ Nested(trace'[r], store'.span[SpanOf[r]] = "ended")
          /\ pc'[r] = "idle" => trace'[r] = <<>>
          /\ Running(r)' => ~Has(trace'[r], "TRACE_RUN_END")
        BY <1>1, CallNests DEF Running
    <2> QED BY <2>1, <2>2 DEF TraceInv
<1>2. CASE UNCHANGED <<store, trace, pc>>
    BY <1>2 DEF TraceInv, Running
<1>3. CASE (\E t \in Runtimes : Construct(t)) \/ PatchOp \/ ClearJournal \/ UNCHANGED vars
    BY <1>2, <1>3 DEF Construct, PatchOp, ClearJournal, vars
<1> QED BY <1>1, <1>3 DEF Next

\* The order of every trace.
THEOREM TraceInvariance == Spec => []TraceInv
<1>1. Init => TraceInv
    <2> SUFFICES ASSUME Init, NEW r \in RunId
                 PROVE  /\ Nested(trace[r], store.span[SpanOf[r]] = "ended")
                        /\ trace[r] = <<>> /\ pc[r] = "idle"
        BY DEF TraceInv, Running
    <2>1. trace[r] = <<>> /\ pc[r] = "idle" /\ store.span[SpanOf[r]] = "absent"
        BY CallsAssumption DEF Init, EmptyStore
    <2> QED BY <2>1 DEF Nested, Has
<1>2. TypeOK /\ IInv /\ TraceInv /\ [Next]_vars => TraceInv'
    BY TraceStep
<1> QED BY <1>1, <1>2, TypeCorrect, Invariance, PTL DEF Spec

\* A trace opens with its run and its span, closes in the opposite order and
\* shows the end of the span exactly when the ledger does, whatever listeners of
\* the bus throw.
THEOREM TracesNest == Spec => []TraceNests
<1>1. TypeOK /\ TraceInv => TraceNests
    <2> SUFFICES ASSUME TypeOK, TraceInv, NEW r \in RunId
                 PROVE  LET At(t) == {n \in DOMAIN trace[r] : trace[r][n].type = t}
                        IN  /\ At("TRACE_RUN_START") \subseteq {1}
                            /\ At("TRACE_SPAN_START") \subseteq {2}
                            /\ \A t \in {"TRACE_SPAN_END", "TRACE_RUN_END"} : Cardinality(At(t)) <= 1
                            /\ \A n \in At("TRACE_RUN_END") : n = Len(trace[r])
                            /\ \A n \in At("TRACE_SPAN_END") :
                                  At("TRACE_INVARIANT") \cup At("TRACE_FAULT") \subseteq 1 .. n - 1
                            /\ At("TRACE_SPAN_END") # {} <=> store.span[SpanOf[r]] = "ended"
        BY DEF TraceNests
    <2> DEFINE At(t) == {n \in DOMAIN trace[r] : trace[r][n].type = t}
    <2>1. PICK len \in Nat : len = Len(trace[r]) /\ DOMAIN trace[r] = 1 .. len
        BY DEF TypeOK
    <2>2. Nested(trace[r], store.span[SpanOf[r]] = "ended")
        BY DEF TraceInv
    <2>3. ASSUME NEW t \in {"TRACE_SPAN_END", "TRACE_RUN_END"} PROVE Cardinality(At(t)) <= 1
        <3>1. \A m, n \in At(t) : m = n
            BY <2>1, <2>2 DEF Nested
        <3> HIDE DEF At
        <3>2. At(t) = {} \/ \E n : At(t) = {n}
            BY <3>1
        <3> QED BY <3>2, FS_EmptySet, FS_Singleton
    <2>4. At("TRACE_RUN_START") \subseteq {1} /\ At("TRACE_SPAN_START") \subseteq {2}
        BY <2>2 DEF Nested
    <2>5. \A n \in At("TRACE_RUN_END") : n = Len(trace[r])
        BY <2>2 DEF Nested
    <2>6. \A n \in At("TRACE_SPAN_END") :
             At("TRACE_INVARIANT") \cup At("TRACE_FAULT") \subseteq 1 .. n - 1
        BY <2>1, <2>2 DEF Nested
    <2>7. At("TRACE_SPAN_END") # {} <=> store.span[SpanOf[r]] = "ended"
        BY <2>2 DEF Nested, Has
    <2> QED BY <2>3, <2>4, <2>5, <2>6, <2>7
<1> QED BY <1>1, TypeCorrect, TraceInvariance, PTL
-----------------------------------------------------------------------------
(* The hub's pattern ledger and the traces.                                 *)

FaultPlaces(t, k) == {n \in DOMAIN t : t[n] = FaultEvent(k)}

\* An event adds a place of a fault exactly when it is that fault's event.
LEMMA AppendPlaces ==
    ASSUME NEW t \in Seq(Event), NEW e \in Event, NEW k
    PROVE  /\ e # FaultEvent(k) => FaultPlaces(Append(t, e), k) = FaultPlaces(t, k)
           /\ e = FaultEvent(k) =>
                 FaultPlaces(Append(t, e), k) = FaultPlaces(t, k) \cup {Len(t) + 1}
<1> DEFINE u == Append(t, e)
<1>1. PICK n \in Nat : /\ n = Len(t) /\ DOMAIN t = 1 .. n /\ DOMAIN u = 1 .. (n + 1)
                       /\ \A m \in 1 .. n : u[m] = t[m]
                       /\ u[n + 1] = e
    BY LogAppends
<1> HIDE DEF u
<1> QED BY <1>1 DEF FaultPlaces, u

\* No other event is a fault's.
LEMMA EventsDiffer ==
    /\ \A k : \A t \in {"TRACE_RUN_START", "TRACE_RUN_END", "TRACE_SPAN_START", "TRACE_SPAN_END"} :
          Ev(t) # FaultEvent(k)
    /\ \A k, q, b : [type |-> "TRACE_INVARIANT", key |-> k, passed |-> b] # FaultEvent(q)
    /\ \A k, q : FaultEvent(k) = FaultEvent(q) => k = q
<1>1. \A t : Ev(t).type = t
    BY DEF Ev
<1>2. \A k : FaultEvent(k).type = "TRACE_FAULT" /\ FaultEvent(k).key = k
    BY DEF FaultEvent
<1>3. \A k : \A t \in {"TRACE_RUN_START", "TRACE_RUN_END", "TRACE_SPAN_START", "TRACE_SPAN_END"} :
          Ev(t) # FaultEvent(k)
    <2> SUFFICES ASSUME NEW t \in {"TRACE_RUN_START", "TRACE_RUN_END", "TRACE_SPAN_START",
                                   "TRACE_SPAN_END"}, NEW k, Ev(t) = FaultEvent(k)
                 PROVE  FALSE
        OBVIOUS
    <2>1. t = "TRACE_FAULT"
        BY <1>1, <1>2, Zenon
    <2> QED BY <2>1
<1>4. \A k, q, b : [type |-> "TRACE_INVARIANT", key |-> k, passed |-> b] # FaultEvent(q)
    <2> SUFFICES ASSUME NEW k, NEW q, NEW b, NEW inv,
                        inv = [type |-> "TRACE_INVARIANT", key |-> k, passed |-> b],
                        inv = FaultEvent(q)
                 PROVE  FALSE
        OBVIOUS
    <2>1. inv.type = "TRACE_INVARIANT"
        OBVIOUS
    <2>2. inv.type = "TRACE_FAULT"
        BY <1>2, Zenon
    <2> QED BY <2>1, <2>2
<1>5. ASSUME NEW k, NEW q, FaultEvent(k) = FaultEvent(q) PROVE k = q
    <2>1. k = FaultEvent(k).key /\ q = FaultEvent(q).key
        BY <1>2
    <2> QED BY <1>5, <2>1
<1> QED BY <1>3, <1>4, <1>5

\* The trace of call r shows no new fault, or one new fault of key k.
Quiet(r) == \A q \in FaultKey : FaultPlaces(trace'[r], q) = FaultPlaces(trace[r], q)

Shown(r, k) ==
    \E n : /\ n \notin DOMAIN trace[r]
           /\ FaultPlaces(trace'[r], k) = FaultPlaces(trace[r], k) \cup {n}
           /\ \A q \in FaultKey \ {k} :
                 FaultPlaces(trace'[r], q) = FaultPlaces(trace[r], q)

LEMMA EvaluatedShows ==
    ASSUME TypeOK, NEW r \in RunId, NEW k \in FaultKey, NEW next, Evaluated(r, k, next)
    PROVE  \/ Quiet(r) /\ UNCHANGED hub
           \/ Shown(r, k) /\ hub' = IngestFault(hub, k)
<1> DEFINE inv == [type |-> "TRACE_INVARIANT", key |-> k,
                   passed |-> Passes(k, call[r].output)]
           evaluated == Append(trace[r], inv)
<1>1. inv \in Event /\ FaultEvent(k) \in Event /\ \A q : inv # FaultEvent(q)
    BY EventsTyped, EventsDiffer, PassesTyped DEF TypeOK, Call
<1>2. trace[r] \in Seq(Event)
    BY DEF TypeOK
<1>3. \/ trace'[r] = evaluated /\ UNCHANGED hub
      \/ trace'[r] = Append(evaluated, FaultEvent(k)) /\ hub' = IngestFault(hub, k)
    BY DEF Evaluated, TypeOK, ledgers
<1> HIDE DEF inv
<1>4. PICK n \in Nat : n = Len(trace[r])
    BY <1>2
<1>5. /\ evaluated \in Seq(Event) /\ Len(evaluated) = n + 1
      /\ DOMAIN trace[r] = 1 .. n
    BY <1>1, <1>2, <1>4, LogAppends
<1>6. \A q : FaultPlaces(evaluated, q) = FaultPlaces(trace[r], q)
    BY <1>1, <1>2, AppendPlaces
<1> HIDE DEF evaluated
<1>7. CASE trace'[r] = evaluated /\ UNCHANGED hub
    BY <1>6, <1>7 DEF Quiet
<1>8. CASE trace'[r] = Append(evaluated, FaultEvent(k)) /\ hub' = IngestFault(hub, k)
    <2>1. FaultPlaces(trace'[r], k) = FaultPlaces(trace[r], k) \cup {n + 2}
        <3>1. FaultPlaces(trace'[r], k) = FaultPlaces(evaluated, k) \cup {Len(evaluated) + 1}
            BY <1>1, <1>5, <1>8, AppendPlaces
        <3>2. Len(evaluated) + 1 = n + 2
            BY <1>5
        <3> QED BY <1>6, <3>1, <3>2
    <2>2. \A q \in FaultKey \ {k} : FaultPlaces(trace'[r], q) = FaultPlaces(trace[r], q)
        BY <1>1, <1>5, <1>6, <1>8, AppendPlaces, EventsDiffer
    <2>3. n + 2 \notin DOMAIN trace[r]
        BY <1>5
    <2> QED BY <1>8, <2>1, <2>2, <2>3 DEF Shown
<1> QED BY <1>3, <1>7, <1>8

\* An event of a run or a span shows no fault.
LEMMA EvIsQuiet ==
    ASSUME NEW t \in Seq(Event), NEW q,
           NEW type \in {"TRACE_RUN_END", "TRACE_SPAN_END"}
    PROVE  /\ Append(t, Ev(type)) \in Seq(Event)
           /\ FaultPlaces(Append(t, Ev(type)), q) = FaultPlaces(t, q)
<1>1. Ev(type) \in Event /\ Ev(type) # FaultEvent(q)
    BY EventsTyped, EventsDiffer
<1> QED BY <1>1, AppendPlaces

LEMMA SettleIsQuiet ==
    ASSUME TypeOK, NEW r \in RunId, NEW st, NEW j, NEW tr \in Seq(Event),
           \A q \in FaultKey : FaultPlaces(tr, q) = FaultPlaces(trace[r], q),
           NEW orphan, NEW error, Settle(r, st, j, tr, orphan, error)
    PROVE  Quiet(r)
<1>1. trace'[r] = tr \/ trace'[r] = Append(tr, Ev("TRACE_RUN_END"))
    BY DEF Settle, TypeOK
<1>2. \A q : FaultPlaces(Append(tr, Ev("TRACE_RUN_END")), q) = FaultPlaces(tr, q)
    BY EvIsQuiet
<1> QED BY <1>1, <1>2 DEF Quiet

\* A step of a call tells the hub exactly of the faults it traces.
LEMMA CallShows ==
    ASSUME TypeOK, TraceInv, NEW r \in RunId, Begin(r) \/ Step(r)
    PROVE  \/ Quiet(r) /\ UNCHANGED hub
           \/ \E k \in FaultKey : Shown(r, k) /\ hub' = IngestFault(hub, k)
<1> DEFINE tr == Append(trace[r], Ev("TRACE_SPAN_END"))
<1>1. trace[r] \in Seq(Event) /\ tr \in Seq(Event)
      /\ \A q \in FaultKey : FaultPlaces(tr, q) = FaultPlaces(trace[r], q)
    BY EvIsQuiet DEF TypeOK
<1>2. CASE Begin(r)
    <2>1. PICK a, b : a = Ev("TRACE_RUN_START") /\ b = Ev("TRACE_SPAN_START")
        OBVIOUS
    <2>2. /\ trace[r] = <<>>
          /\ trace'[r] = <<>> \/ trace'[r] = <<a>> \/ trace'[r] = <<a, b>>
        BY <1>2, <2>1 DEF Begin, TypeOK, TraceInv
    <2>3. \A q : a # FaultEvent(q) /\ b # FaultEvent(q)
        BY <2>1, EventsDiffer
    <2>4. Quiet(r)
        BY <2>2, <2>3 DEF Quiet, FaultPlaces
    <2> QED BY <1>2, <2>4 DEF Begin, ledgers
<1>3. CASE ResumePlan(r)
    BY <1>3 DEF ResumePlan, Quiet, ledgers
<1>4. CASE ResumeShape(r) \/ ResumeDeterminism(r)
    <2>1. \/ \E k \in FaultKey : \E next : Evaluated(r, k, next)
          \/ UNCHANGED <<trace, ledgers>>
        BY <1>4, KeysAssumption DEF ResumeShape, ResumeDeterminism
    <2> QED BY <2>1, EvaluatedShows DEF Quiet, ledgers
<1>5. CASE Finish(r)
    <2>1. /\ UNCHANGED hub
          /\ \E j, orphan, error : Settle(r, EndSpan(store, SpanOf[r]), j, tr, orphan, error)
        BY <1>5 DEF Finish, SettleOrphan, ledgers
    <2> HIDE DEF tr
    <2> QED BY <1>1, <2>1, SettleIsQuiet
<1>6. CASE CatchOrphan(r) \/ ResumeGuarded(r)
    <2>1. /\ UNCHANGED hub
          /\ \E j, orphan, error : Settle(r, store, j, trace[r], orphan, error)
        BY <1>6 DEF CatchOrphan, SettleOrphan, ResumeGuarded, ledgers
    <2> QED BY <1>1, <2>1, SettleIsQuiet
<1>7. CASE CloseGuard(r)
    <2>1. UNCHANGED hub /\ trace'[r] = tr
        BY <1>7 DEF CloseGuard, ledgers, TypeOK
    <2> QED BY <1>1, <2>1 DEF Quiet
<1> QED BY <1>2, <1>3, <1>4, <1>5, <1>6, <1>7 DEF Step

HubInv == \A k \in FaultKey :
             IsFiniteSet(FaultsTraced(k)) /\ hub[k] = Cardinality(FaultsTraced(k))

\* Membership in the faults of all traces.
LEMMA TracedMembers ==
    \A k, x : x \in FaultsTraced(k) <=>
                  \E r \in RunId : \E n \in FaultPlaces(trace[r], k) : x = <<r, n>>
BY DEF FaultsTraced, FaultPlaces

LEMMA HubStep ==
    ASSUME TypeOK, TraceInv, HubInv, [Next]_vars
    PROVE  HubInv'
<1>1. \A k, x : x \in FaultsTraced(k)' <=>
                  \E r \in RunId : \E n \in FaultPlaces(trace'[r], k) : x = <<r, n>>
    BY DEF FaultsTraced, FaultPlaces
<1>2. ASSUME NEW r \in RunId, Begin(r) \/ Step(r) PROVE HubInv'
    <2>1. \A q \in RunId \ {r} : trace'[q] = trace[q]
        BY <1>2, CallIsLocal
    <2>2. ASSUME NEW k \in FaultKey, FaultPlaces(trace'[r], k) = FaultPlaces(trace[r], k)
          PROVE  FaultsTraced(k)' = FaultsTraced(k)
        <3>1. \A q \in RunId : FaultPlaces(trace'[q], k) = FaultPlaces(trace[q], k)
            BY <2>1, <2>2
        <3>2. \A x : x \in FaultsTraced(k)' <=> x \in FaultsTraced(k)
            BY <1>1, <3>1, TracedMembers
        <3> QED BY <3>2
    <2>3. CASE Quiet(r) /\ UNCHANGED hub
        BY <2>2, <2>3 DEF Quiet, HubInv
    <2>4. ASSUME NEW k \in FaultKey, Shown(r, k), hub' = IngestFault(hub, k) PROVE HubInv'
        <3>1. PICK n : /\ n \notin DOMAIN trace[r]
                       /\ FaultPlaces(trace'[r], k) = FaultPlaces(trace[r], k) \cup {n}
                       /\ \A q \in FaultKey \ {k} :
                             FaultPlaces(trace'[r], q) = FaultPlaces(trace[r], q)
            BY <2>4 DEF Shown
        <3>2. FaultsTraced(k)' = FaultsTraced(k) \cup {<<r, n>>}
            <4>1. \A q \in RunId \ {r} : FaultPlaces(trace'[q], k) = FaultPlaces(trace[q], k)
                BY <2>1
            <4>2. \A x : x \in FaultsTraced(k)' <=> x \in FaultsTraced(k) \/ x = <<r, n>>
                BY <1>1, <3>1, <4>1, TracedMembers
            <4> QED BY <4>2
        <3>3. <<r, n>> \notin FaultsTraced(k)
            BY <3>1, TracedMembers DEF FaultPlaces
        <3>4. /\ IsFiniteSet(FaultsTraced(k)')
              /\ Cardinality(FaultsTraced(k)') = Cardinality(FaultsTraced(k)) + 1
            BY <3>2, <3>3, FS_AddElement DEF HubInv
        <3>5. hub'[k] = hub[k] + 1 /\ \A q \in FaultKey \ {k} : hub'[q] = hub[q]
            BY <2>4 DEF IngestFault, TypeOK, Patterns
        <3>6. ASSUME NEW q \in FaultKey \ {k} PROVE FaultsTraced(q)' = FaultsTraced(q)
            BY <2>2, <3>1
        <3>7. hub'[k] = Cardinality(FaultsTraced(k)')
            BY <3>4, <3>5 DEF HubInv
        <3> QED BY <3>4, <3>5, <3>6, <3>7 DEF HubInv
    <2> QED BY <1>2, <2>3, <2>4, CallShows
<1>3. CASE UNCHANGED <<trace, hub>>
    BY <1>3 DEF HubInv, FaultsTraced
<1>4. CASE (\E t \in Runtimes : Construct(t)) \/ PatchOp \/ ClearJournal \/ UNCHANGED vars
    BY <1>3, <1>4 DEF Construct, PatchOp, ClearJournal, vars, ledgers
<1> QED BY <1>2, <1>4 DEF Next

\* A governance hub counts exactly the invariant faults the traces show: none is
\* ingested twice and none is lost, even when a listener behind it throws.
THEOREM HubCounts == Spec => []HubCountsTraced
<1>1. Init => HubInv
    <2> SUFFICES ASSUME Init, NEW k \in FaultKey
                 PROVE  IsFiniteSet(FaultsTraced(k)) /\ hub[k] = Cardinality(FaultsTraced(k))
        BY DEF HubInv
    <2>1. FaultsTraced(k) = {}
        BY DEF Init, FaultsTraced
    <2> QED BY <2>1, FS_EmptySet DEF Init, NoPatterns
<1>2. HubInv => HubCountsTraced
    BY DEF HubInv, HubCountsTraced
<1>3. TypeOK /\ TraceInv /\ HubInv /\ [Next]_vars => HubInv'
    BY HubStep
<1> QED BY <1>1, <1>2, <1>3, TypeCorrect, TraceInvariance, PTL DEF Spec

-----------------------------------------------------------------------------
(* Verdicts, while no listener throws and the journal is not cleared.       *)

\* The keys of the faults getByRun finds of r.
Found(j, r) == KindsOf(GetByRun(j, r))

Failed(keys, out) == {k \in keys : ~Passes(k, out)}

\* What the journal holds of a call by the time it waits at pc[r].
Verdict(r) ==
    /\ pc[r] \in {"idle", "plan", "shape"} => Found(journal, r) = {}
    /\ pc[r] = "determinism" => Found(journal, r) = Failed({SHAPE}, call[r].output)
    /\ pc[r] = "evaluated" => /\ Found(journal, r) = Failed({SHAPE, DETERMINISM}, call[r].output)
                              /\ ~DeterminismThrows(call[r].output)
    /\ pc[r] \in {"shape", "determinism", "evaluated"} => call[r].mode # "throw"
    /\ pc[r] = "threw" => Unreadable(journal, r) \/ (Threw(r) /\ Found(journal, r) = {})
    /\ pc[r] = "guarded" => /\ Patched(r)
                            /\ \/ Unreadable(journal, r)
                               \/ /\ Found(journal, r) = Failures(r)
                                  /\ call[r].error <=> Threw(r)
    /\ pc[r] = "done" =>
          /\ {result[r].faults[n].key : n \in DOMAIN result[r].faults} = Failures(r)
          /\ result[r].status = "completed" <=> Failures(r) = {} /\ ~Threw(r)

VerdictInv == clears = 0 => \A r \in RunId : Verdict(r)

\* recordFault adds its key to what getByRun finds of its run.
LEMMA RecordFound ==
    ASSUME NEW j \in Journal, NEW r \in RunId, NEW k \in FaultKey
    PROVE  Found(RecordFault(j, r, k), r) = Found(j, r) \cup {k}
<1> DEFINE j2 == RecordFault(j, r, k)
<1>1. PICK n \in Nat : /\ DOMAIN j.events = 1 .. n /\ DOMAIN j2.events = 1 .. (n + 1)
                       /\ \A m \in 1 .. n : j2.events[m] = j.events[m]
                       /\ j2.events[n + 1]
                             = [run |-> r, key |-> k, recurrence |-> j.counts[k] + 1]
    BY RecordAppends
<1>2. j2.events[n + 1].run = r /\ j2.events[n + 1].key = k
    BY <1>1
<1> HIDE DEF j2
<1>3. /\ \A x : x \in Found(j, r) <=> \E m \in 1 .. n : j.events[m].run = r /\ x = j.events[m].key
      /\ \A x : x \in Found(j2, r) <=>
                    \E m \in 1 .. (n + 1) : j2.events[m].run = r /\ x = j2.events[m].key
    BY <1>1 DEF Found, KindsOf, GetByRun
<1>4. \A x : x \in Found(j2, r) <=> x \in Found(j, r) \/ x = k
    BY <1>1, <1>2, <1>3
<1> QED BY <1>4 DEF j2

\* The list getByRun returns is empty when it finds no fault.
LEMMA FoundNone ==
    ASSUME NEW j, NEW r
    PROVE  GetByRun(j, r) # <<>> <=> Found(j, r) # {}
<1> DEFINE D == {m \in DOMAIN j.events : j.events[m].run = r}
<1>1. GetByRun(j, r) = [n \in D |-> j.events[n]]
    BY DEF GetByRun
<1>2. DOMAIN GetByRun(j, r) = D
    BY <1>1
<1> HIDE DEF D
<1>3. Found(j, r) = {} <=> D = {}
    BY <1>2 DEF Found, KindsOf
<1>4. D = {} => GetByRun(j, r) = <<>>
    BY <1>1
<1>5. GetByRun(j, r) = <<>> => D = {}
    BY <1>2
<1> QED BY <1>3, <1>4, <1>5

\* A call whose input cannot be cloned cannot read its own invariant faults.
LEMMA UnreadableFound ==
    ASSUME NEW j, NEW r
    PROVE  Unreadable(j, r) <=> /\ "uncloneable" \in call[r].payload
                                /\ \E k \in Found(j, r) : k # SPAN_ORPHAN
<1>1. \A k : k \in Found(j, r) <=> \E n \in DOMAIN j.events : j.events[n].run = r
                                                            /\ k = j.events[n].key
    BY DEF Found, KindsOf, GetByRun
<1> QED BY <1>1 DEF Unreadable

\* The steps of execute record what the invariants find in the call's own
\* output, and go on unless the fault cannot be cloned.
LEMMA EvaluatedVerdict ==
    ASSUME FaultyEvents = {}, TypeOK, NEW r \in RunId, NEW k \in {SHAPE, DETERMINISM}, NEW next,
           Evaluated(r, k, next)
    PROVE  \/ /\ pc'[r] = next
              /\ Found(journal', r) = Found(journal, r) \cup Failed({k}, call[r].output)
           \/ pc'[r] = "threw" /\ Unreadable(journal', r)
<1> DEFINE passed == Passes(k, call[r].output)
<1>1. \A t : Throwing(t) = {FALSE}
    BY DEF Throwing
<1>2. \/ passed /\ pc' = [pc EXCEPT ![r] = next] /\ journal' = journal
      \/ ~passed /\ pc' = [pc EXCEPT ![r] = next] /\ journal' = RecordFault(journal, r, k)
      \/ /\ "uncloneable" \in call[r].payload
         /\ pc' = [pc EXCEPT ![r] = "threw"] /\ journal' = RecordFault(journal, r, k)
    BY <1>1 DEF Evaluated, ledgers
<1>3. Failed({k}, call[r].output) = IF passed THEN {} ELSE {k}
    BY DEF Failed
<1>4. journal \in Journal /\ k \in FaultKey /\ k # SPAN_ORPHAN
    BY KeysAssumption DEF TypeOK, SHAPE, DETERMINISM, SPAN_ORPHAN
<1>5. Found(RecordFault(journal, r, k), r) = Found(journal, r) \cup {k}
    BY <1>4, RecordFound
<1> HIDE DEF passed
<1>6. CASE /\ "uncloneable" \in call[r].payload
           /\ pc' = [pc EXCEPT ![r] = "threw"] /\ journal' = RecordFault(journal, r, k)
    <2>1. Unreadable(journal', r)
        BY <1>4, <1>5, <1>6, UnreadableFound
    <2> QED BY <1>6, <2>1 DEF TypeOK
<1>7. CASE pc' = [pc EXCEPT ![r] = next]
    <2>1. pc'[r] = next
        BY <1>7 DEF TypeOK
    <2>2. CASE passed /\ journal' = journal
        BY <1>3, <2>1, <2>2
    <2>3. CASE ~passed /\ journal' = RecordFault(journal, r, k)
        BY <1>3, <1>5, <2>1, <2>3
    <2> QED BY <1>2, <1>6, <2>2, <2>3
<1> QED BY <1>2, <1>6, <1>7

\* The answer of a call that can read its faults: they are those of its run, and
\* it is completed when there is none, no orphan and no error.
LEMMA SettleVerdict ==
    ASSUME TypeOK, NEW r \in RunId, NEW st, NEW j, NEW tr, NEW orphan \in BOOLEAN,
           NEW error \in BOOLEAN,
           Settle(r, st, j, tr, orphan, error),
           \/ Unreadable(j, r)
           \/ Found(j, r) = Failures(r) /\ (orphan \/ error <=> Threw(r))
    PROVE  Verdict(r)'
<1> DEFINE found  == GetByRun(j, r)
           status == IF found # <<>> \/ orphan \/ error THEN "failed" ELSE "completed"
           answer == [status |-> status, faults |-> found, orphan |-> orphan]
<1>1. \/ pc' = [pc EXCEPT ![r] = "rejected"]
      \/ /\ ~Unreadable(j, r)
         /\ pc' = [pc EXCEPT ![r] = "done"] /\ result' = [result EXCEPT ![r] = answer]
    BY DEF Settle
<1>2. call' = [call EXCEPT ![r].orphan = orphan, ![r].error = error]
    BY DEF Settle
<1>3. call'[r].mode = call[r].mode /\ call'[r].output = call[r].output
    BY <1>2 DEF TypeOK, Call
<1>4. Failures(r)' = Failures(r) /\ Threw(r)' = Threw(r)
    BY <1>3 DEF Failures, Threw
<1>5. CASE pc' = [pc EXCEPT ![r] = "rejected"]
    <2>1. pc'[r] = "rejected"
        BY <1>5 DEF TypeOK
    <2> QED BY <2>1 DEF Verdict
<1>6. CASE /\ ~Unreadable(j, r)
           /\ pc' = [pc EXCEPT ![r] = "done"] /\ result' = [result EXCEPT ![r] = answer]
    <2>1. pc'[r] = "done" /\ result'[r] = answer
        BY <1>6 DEF TypeOK
    <2>2. result'[r].faults = found /\ result'[r].status = status
        BY <2>1
    <2>3. {result'[r].faults[n].key : n \in DOMAIN result'[r].faults} = Failures(r)
        BY <1>6, <2>2 DEF Found, KindsOf
    <2>4. status = "completed" <=> Failures(r) = {} /\ ~Threw(r)
        BY <1>6, FoundNone
    <2> HIDE DEF answer, status, found
    <2> QED BY <1>4, <2>1, <2>2, <2>3, <2>4 DEF Verdict
<1> QED BY <1>1, <1>5, <1>6

\* Every step of a call keeps its own verdict on the way.
LEMMA CallVerdict ==
    ASSUME FaultyEvents = {}, TypeOK, NEW r \in RunId, Verdict(r), Begin(r) \/ Step(r)
    PROVE  Verdict(r)'
<1>1. \A t : Throwing(t) = {FALSE}
    BY DEF Throwing
<1>2. CASE Begin(r)
    <2>1. pc'[r] \in {"plan", "rejected"} /\ UNCHANGED journal
        BY <1>1, <1>2 DEF Begin, TypeOK, ledgers
    <2>2. Found(journal, r) = {}
        BY <1>2 DEF Begin, Verdict
    <2> QED BY <2>1, <2>2 DEF Verdict
<1>3. CASE ResumePlan(r)
    <2>1. Found(journal, r) = {} /\ UNCHANGED journal
        BY <1>3 DEF ResumePlan, Verdict, ledgers
    <2>2. CASE call[r].mode = "throw"
        <3>1. pc'[r] = "threw" /\ call' = call
            BY <1>3, <2>2 DEF ResumePlan, TypeOK
        <3> QED BY <2>1, <2>2, <3>1 DEF Verdict, Threw
    <2>3. CASE call[r].mode # "throw"
        <3>1. pc'[r] = "shape" /\ \E out : call' = [call EXCEPT ![r].output = out]
            BY <1>3, <2>3 DEF ResumePlan, TypeOK
        <3>2. call'[r].mode = call[r].mode
            BY <3>1 DEF TypeOK, Call
        <3> QED BY <2>1, <2>3, <3>1, <3>2 DEF Verdict
    <2> QED BY <2>2, <2>3
<1>4. CASE ResumeShape(r)
    <2>1. /\ pc[r] = "shape" /\ UNCHANGED call
          /\ Evaluated(r, SHAPE, "determinism")
        BY <1>4 DEF ResumeShape
    <2>2. \/ /\ pc'[r] = "determinism"
             /\ Found(journal', r) = Found(journal, r) \cup Failed({SHAPE}, call[r].output)
          \/ pc'[r] = "threw" /\ Unreadable(journal', r)
        BY <2>1, EvaluatedVerdict
    <2>3. Found(journal, r) = {} /\ call[r].mode # "throw"
        BY <2>1 DEF Verdict
    <2>4. Unreadable(journal', r) => Unreadable(journal, r)'
        BY <2>1 DEF Unreadable
    <2> QED BY <2>1, <2>2, <2>3, <2>4 DEF Verdict
<1>5. CASE ResumeDeterminism(r)
    <2>1. /\ pc[r] = "determinism" /\ UNCHANGED call
          /\ Found(journal, r) = Failed({SHAPE}, call[r].output) /\ call[r].mode # "throw"
        BY <1>5 DEF ResumeDeterminism, Verdict
    <2>2. CASE DeterminismThrows(call[r].output)
        <3>1. pc'[r] = "threw" /\ UNCHANGED journal
            BY <1>5, <2>2 DEF ResumeDeterminism, TypeOK, ledgers
        <3>2. Found(journal, r) = {}
            BY <2>1, <2>2 DEF Failed, Passes, ShapePasses, DeterminismThrows
        <3> QED BY <2>1, <2>2, <3>1, <3>2 DEF Verdict, Threw
    <2>3. CASE ~DeterminismThrows(call[r].output)
        <3>1. Evaluated(r, DETERMINISM, "evaluated")
            BY <1>5, <2>3 DEF ResumeDeterminism
        <3>2. \/ /\ pc'[r] = "evaluated"
                 /\ Found(journal', r)
                       = Found(journal, r) \cup Failed({DETERMINISM}, call[r].output)
              \/ pc'[r] = "threw" /\ Unreadable(journal', r)
            BY <3>1, EvaluatedVerdict
        <3>3. Failed({SHAPE}, call[r].output) \cup Failed({DETERMINISM}, call[r].output)
                 = Failed({SHAPE, DETERMINISM}, call[r].output)
            BY DEF Failed
        <3>4. Unreadable(journal', r) => Unreadable(journal, r)'
            BY <2>1 DEF Unreadable
        <3> QED BY <2>1, <2>3, <3>2, <3>3, <3>4 DEF Verdict
    <2> QED BY <2>2, <2>3
<1>6. pc[r] = "evaluated" => Found(journal, r) = Failures(r) /\ ~Threw(r)
    BY DEF Verdict, Failures, Failed, Threw
<1>7. CASE Finish(r)
    <2>1. /\ pc[r] = "evaluated"
          /\ \E st, tr : Settle(r, st, journal, tr, FALSE, FALSE)
        BY <1>1, <1>7 DEF Finish
    <2> QED BY <1>6, <2>1, SettleVerdict
<1>8. CASE CatchOrphan(r)
    <2>1. /\ pc[r] = "threw" /\ ~Patched(r)
          /\ journal' = RecordFault(journal, r, SPAN_ORPHAN)
          /\ Settle(r, store, journal', trace[r], TRUE, TRUE)
        BY <1>8 DEF CatchOrphan, SettleOrphan
    <2>2. Found(journal', r) = Found(journal, r) \cup {SPAN_ORPHAN}
        BY <2>1, KeysAssumption, RecordFound DEF TypeOK
    <2>3. Unreadable(journal, r) => Unreadable(journal', r)
        BY <2>2, UnreadableFound
    <2>4. Unreadable(journal, r) \/ (Threw(r) /\ Found(journal, r) = {})
        BY <2>1 DEF Verdict
    <2>5. Threw(r) => Failures(r) = {SPAN_ORPHAN}
        BY <2>1 DEF Failures
    <2> QED BY <2>1, <2>2, <2>3, <2>4, <2>5, SettleVerdict
<1>9. CASE CloseGuard(r)
    <2>1. /\ pc[r] \in {"evaluated", "threw"} /\ Patched(r) /\ pc'[r] = "guarded"
          /\ call' = [call EXCEPT ![r].error = FALSE \/ pc[r] = "threw"]
          /\ UNCHANGED journal
        BY <1>1, <1>9 DEF CloseGuard, ledgers, TypeOK
    <2>2. /\ call'[r].mode = call[r].mode /\ call'[r].output = call[r].output
          /\ call'[r].payload = call[r].payload
          /\ call'[r].error <=> pc[r] = "threw"
        BY <2>1 DEF TypeOK, Call
    <2>3. Failures(r)' = Failures(r) /\ Threw(r)' = Threw(r)
        BY <2>2 DEF Failures, Threw
    <2>4. Unreadable(journal, r)' <=> Unreadable(journal, r)
        BY <2>1, <2>2 DEF Unreadable
    <2>5. \/ Unreadable(journal, r)
          \/ Found(journal, r) = Failures(r) /\ (pc[r] = "threw" <=> Threw(r))
        BY <1>6, <2>1 DEF Verdict, Failures
    <2> QED BY <2>1, <2>2, <2>3, <2>4, <2>5 DEF Verdict, Patched
<1>10. CASE ResumeGuarded(r)
    <2>1. /\ pc[r] = "guarded"
          /\ Settle(r, store, journal, trace[r], FALSE, call[r].error)
        BY <1>10 DEF ResumeGuarded
    <2>2. /\ call[r].error \in BOOLEAN
          /\ \/ Unreadable(journal, r)
             \/ Found(journal, r) = Failures(r) /\ (call[r].error <=> Threw(r))
        BY <2>1 DEF Verdict, TypeOK, Call
    <2> QED BY <2>1, <2>2, SettleVerdict
<1> QED BY <1>2, <1>3, <1>4, <1>5, <1>7, <1>8, <1>9, <1>10 DEF Step

LEMMA VerdictStep ==
    ASSUME FaultyEvents = {}, TypeOK, VerdictInv, [Next]_vars
    PROVE  VerdictInv'
<1> SUFFICES ASSUME clears' = 0 PROVE \A q \in RunId : Verdict(q)'
    BY DEF VerdictInv
<1>1. CASE UNCHANGED <<journal, pc, call, result, clears>>
    <2> SUFFICES ASSUME NEW q \in RunId PROVE Verdict(q)'
        OBVIOUS
    <2>1. /\ Failures(q)' = Failures(q) /\ Threw(q)' = Threw(q)
          /\ Unreadable(journal, q)' = Unreadable(journal, q)
        BY <1>1 DEF Failures, Threw, Unreadable
    <2>2. Verdict(q)
        BY <1>1 DEF VerdictInv
    <2> QED BY <1>1, <2>1, <2>2 DEF Verdict, Patched
<1>2. ASSUME NEW r \in RunId, Begin(r) \/ Step(r) PROVE \A q \in RunId : Verdict(q)'
    <2>1. \A q \in RunId : Verdict(q)
        BY <1>2, CallJournal DEF VerdictInv
    <2>2. ASSUME NEW q \in RunId \ {r} PROVE Verdict(q)'
        <3>1. pc'[q] = pc[q] /\ call'[q] = call[q] /\ result'[q] = result[q]
            BY <1>2, CallIsLocal
        <3>2. Found(journal', q) = Found(journal, q)
            <4>1. journal' = journal \/ \E k \in FaultKey : journal' = RecordFault(journal, r, k)
                BY <1>2, CallJournal
            <4>2. GetByRun(journal', q) = GetByRun(journal, q)
                BY <4>1, RecordIsLocal DEF TypeOK
            <4> QED BY <4>2 DEF Found
        <3>3. Verdict(q) /\ Failures(q)' = Failures(q) /\ Threw(q)' = Threw(q)
            BY <2>1, <3>1 DEF Failures, Threw
        <3>4. Unreadable(journal, q) => Unreadable(journal, q)'
            <4>1. Unreadable(journal, q) <=> /\ "uncloneable" \in call[q].payload
                                             /\ \E k \in Found(journal, q) : k # SPAN_ORPHAN
                BY UnreadableFound
            <4>2. Unreadable(journal', q) <=> /\ "uncloneable" \in call[q].payload
                                              /\ \E k \in Found(journal', q) : k # SPAN_ORPHAN
                BY UnreadableFound
            <4>3. Unreadable(journal', q) <=> Unreadable(journal, q)'
                BY <3>1 DEF Unreadable
            <4> QED BY <3>2, <4>1, <4>2, <4>3
        <3> QED BY <3>1, <3>2, <3>3, <3>4 DEF Verdict, Patched
    <2>3. Verdict(r)'
        BY <1>2, <2>1, CallVerdict
    <2> QED BY <2>2, <2>3
<1>3. CASE (\E t \in Runtimes : Construct(t)) \/ PatchOp \/ UNCHANGED vars
    BY <1>1, <1>3 DEF Construct, PatchOp, vars, ledgers, env
<1>4. CASE ClearJournal
    BY <1>4, BoundsAssumption DEF ClearJournal, TypeOK
<1> QED BY <1>2, <1>3, <1>4 DEF Next

\* While no listener throws and nobody clears the shared journal, the verdict of
\* a call that returns is decided by its own mode, payload and output alone,
\* execute and the determinism invariant throwing or not: what other calls put in
\* the journal between its awaits neither adds a fault to it nor hides one.
THEOREM VerdictsAreOwn ==
    ASSUME FaultyEvents = {}
    PROVE  Spec => [](clears = 0 => VerdictIsOwn)
<1>1. Init => VerdictInv
    <2> SUFFICES ASSUME Init, NEW r \in RunId PROVE Verdict(r)
        BY DEF VerdictInv
    <2>1. pc[r] = "idle" /\ journal.events = <<>>
        BY DEF Init, EmptyJournal
    <2>2. DOMAIN GetByRun(journal, r) = {}
        BY <2>1 DEF GetByRun
    <2> QED BY <2>1, <2>2 DEF Verdict, Found, KindsOf
<1>2. VerdictInv => (clears = 0 => VerdictIsOwn)
    BY DEF VerdictInv, Verdict, VerdictIsOwn
<1>3. TypeOK /\ VerdictInv /\ [Next]_vars => VerdictInv'
    BY VerdictStep
<1> QED BY <1>1, <1>2, <1>3, TypeCorrect, PTL DEF Spec

-----------------------------------------------------------------------------
(* The reply book.                                                          *)

\* Only its last step records the orphan of a call.
LEMMA CallRecords ==
    ASSUME TypeOK, NEW r \in RunId, Begin(r) \/ Step(r)
    PROVE  \/ pc'[r] \in {"done", "rejected"}
           \/ UNCHANGED journal
           \/ \E k \in {SHAPE, DETERMINISM} : journal' = RecordFault(journal, r, k)
<1>1. CASE Begin(r) \/ ResumePlan(r) \/ CloseGuard(r) \/ ResumeGuarded(r)
    BY <1>1 DEF Begin, ResumePlan, CloseGuard, ResumeGuarded, ledgers
<1>2. CASE ResumeShape(r) \/ ResumeDeterminism(r)
    BY <1>2 DEF ResumeShape, ResumeDeterminism, Evaluated, ledgers
<1>3. CASE Finish(r) \/ CatchOrphan(r)
    <2>1. \E st, j, tr, orphan, error : Settle(r, st, j, tr, orphan, error)
        BY <1>3 DEF Finish, CatchOrphan, SettleOrphan
    <2>2. \/ pc' = [pc EXCEPT ![r] = "rejected"]
          \/ pc' = [pc EXCEPT ![r] = "done"]
        BY <2>1 DEF Settle
    <2> QED BY <2>2 DEF TypeOK
<1> QED BY <1>1, <1>2, <1>3 DEF Step

\* What the journal holds of the others stays.
LEMMA OthersKeepFound ==
    ASSUME TypeOK, NEW r \in RunId, Begin(r) \/ Step(r), NEW q \in RunId \ {r}
    PROVE  Found(journal', q) = Found(journal, q)
<1>1. journal' = journal \/ \E k \in FaultKey : journal' = RecordFault(journal, r, k)
    BY CallJournal
<1>2. GetByRun(journal', q) = GetByRun(journal, q)
    BY <1>1, RecordIsLocal DEF TypeOK
<1> QED BY <1>2 DEF Found

\* No call that is under way has an orphan in the journal.
NoOrphanYet ==
    \A r \in RunId : ~Settled(r) => SPAN_ORPHAN \notin Found(journal, r)

LEMMA NothingFound == \A r : Found(EmptyJournal, r) = {}
<1> SUFFICES ASSUME NEW r PROVE Found(EmptyJournal, r) = {}
    OBVIOUS
<1>1. DOMAIN GetByRun(EmptyJournal, r) = {}
    BY DEF GetByRun, EmptyJournal
<1> QED BY <1>1 DEF Found, KindsOf

LEMMA NoOrphanStep ==
    ASSUME TypeOK, NoOrphanYet, [Next]_vars
    PROVE  NoOrphanYet'
<1>1. ASSUME NEW r \in RunId, Begin(r) \/ Step(r) PROVE NoOrphanYet'
    <2>1. ASSUME NEW q \in RunId \ {r}, ~Settled(q)' PROVE SPAN_ORPHAN \notin Found(journal', q)
        <3>1. pc'[q] = pc[q] /\ Found(journal', q) = Found(journal, q)
            BY <1>1, CallIsLocal, OthersKeepFound
        <3> QED BY <2>1, <3>1 DEF NoOrphanYet, Settled
    <2>2. ASSUME ~Settled(r)' PROVE SPAN_ORPHAN \notin Found(journal', r)
        <3>1. ~Settled(r)
            BY <1>1 DEF Begin, Step, ResumePlan, ResumeShape, ResumeDeterminism, Finish,
                        CatchOrphan, CloseGuard, ResumeGuarded, Settled
        <3>2. SPAN_ORPHAN \notin Found(journal, r)
            BY <3>1 DEF NoOrphanYet
        <3>3. \/ UNCHANGED journal
              \/ \E k \in {SHAPE, DETERMINISM} : journal' = RecordFault(journal, r, k)
            BY <1>1, <2>2, CallRecords DEF Settled
        <3>4. ASSUME NEW k \in {SHAPE, DETERMINISM}
              PROVE  Found(RecordFault(journal, r, k), r) = Found(journal, r) \cup {k}
            BY KeysAssumption, RecordFound DEF TypeOK
        <3>5. \A k \in {SHAPE, DETERMINISM} : k # SPAN_ORPHAN
            BY DEF SHAPE, DETERMINISM, SPAN_ORPHAN
        <3> QED BY <3>2, <3>3, <3>4, <3>5
    <2> QED BY <2>1, <2>2 DEF NoOrphanYet
<1>2. CASE UNCHANGED <<journal, pc>>
    BY <1>2 DEF NoOrphanYet, Settled
<1>3. CASE (\E t \in Runtimes : Construct(t)) \/ PatchOp \/ UNCHANGED vars
    BY <1>2, <1>3 DEF Construct, PatchOp, vars, ledgers
<1>4. CASE ClearJournal
    BY <1>4, NothingFound DEF ClearJournal, NoOrphanYet
<1> QED BY <1>1, <1>3, <1>4 DEF Next

\* A call with an orphan on record has settled in the step that recorded it.
LEMMA NoOrphanInvariance == Spec => []NoOrphanYet
<1>1. Init => NoOrphanYet
    BY NothingFound DEF Init, NoOrphanYet
<1>2. TypeOK /\ NoOrphanYet /\ [Next]_vars => NoOrphanYet'
    BY NoOrphanStep
<1> QED BY <1>1, <1>2, TypeCorrect, PTL DEF Spec

\* The mapped state, under names.
Replies == [r \in RunId |-> ReplyOf(pc[r], result[r])]
Records == [r \in RunId |-> Found(journal, r)]
OpenRuns == {r \in RunId : store.run[r] = "open"}

LEMMA ReplyFacts ==
    /\ \A x : ReplyOf("idle", x) = Book!Unasked
    /\ \A x : ReplyOf("rejected", x) = Book!Refused
    /\ \A x : ReplyOf("done", x) = Book!Told(x.status, KindsOf(x.faults), x.orphan)
    /\ \A x : \A p \in PC \ {"idle", "rejected", "done"} : ReplyOf(p, x) = Book!Pending
BY DEF ReplyOf, PC, Book!Unasked, Book!Refused, Book!Told, Book!Pending

\* A step of a call changes its own line of the book.
LEMMA BookFrame ==
    ASSUME TypeOK, NEW r \in RunId, Begin(r) \/ Step(r)
    PROVE  /\ Replies' = [Replies EXCEPT ![r] = ReplyOf(pc'[r], result'[r])]
           /\ Records' = [Records EXCEPT ![r] = Found(journal', r)]
           /\ OpenRuns' = IF store'.run[r] = "open" THEN OpenRuns \cup {r} ELSE OpenRuns \ {r}
<1>1. \A q \in RunId \ {r} : /\ pc'[q] = pc[q] /\ result'[q] = result[q]
                             /\ store'.run[q] = store.run[q]
    BY CallIsLocal DEF Same
<1>2. \A q \in RunId \ {r} : Found(journal', q) = Found(journal, q)
    BY OthersKeepFound
<1>3. Replies' = [Replies EXCEPT ![r] = ReplyOf(pc'[r], result'[r])]
    BY <1>1 DEF Replies
<1>4. Records' = [Records EXCEPT ![r] = Found(journal', r)]
    BY <1>2 DEF Records
<1>5. OpenRuns' = IF store'.run[r] = "open" THEN OpenRuns \cup {r} ELSE OpenRuns \ {r}
    BY <1>1 DEF OpenRuns
<1> QED BY <1>3, <1>4, <1>5

\* The actions of the book, read on the mapped state.
LEMMA BookActions ==
    /\ UNCHANGED <<Replies, Records, OpenRuns>> => UNCHANGED Book!vars
    /\ /\ Records' = [q \in RunId |-> {}]
       /\ UNCHANGED <<Replies, OpenRuns>>
       => Book!Forget
    /\ \A r \in RunId :
          /\ /\ Replies[r] = Book!Unasked
             /\ \E x \in {Book!Pending, Book!Refused} : Replies' = [Replies EXCEPT ![r] = x]
             /\ OpenRuns' = OpenRuns \cup {r}
             /\ UNCHANGED Records
             => Book!Ask(r)
          /\ \A k \in FaultKey :
                /\ Replies[r] = Book!Pending /\ k # SPAN_ORPHAN
                /\ Records' = [Records EXCEPT ![r] = @ \cup {k}]
                /\ UNCHANGED <<Replies, OpenRuns>>
                => Book!Find(r, k)
          /\ /\ Replies[r] = Book!Pending /\ SPAN_ORPHAN \notin Records[r]
             /\ \E status \in {"completed", "failed"} :
                   /\ status = "completed" => Records[r] = {}
                   /\ Replies' = [Replies EXCEPT ![r] = Book!Told(status, Records[r], FALSE)]
             /\ OpenRuns' = OpenRuns \ {r}
             /\ UNCHANGED Records
             => Book!Close(r)
          /\ /\ Replies[r] = Book!Pending /\ SPAN_ORPHAN \notin Records[r]
             /\ Records' = [Records EXCEPT ![r] = @ \cup {SPAN_ORPHAN}]
             /\ Replies' = [Replies EXCEPT
                               ![r] = Book!Told("failed", Records[r] \cup {SPAN_ORPHAN}, TRUE)]
             /\ UNCHANGED OpenRuns
             => Book!Abandon(r)
          /\ /\ Replies[r] = Book!Pending
             /\ Replies' = [Replies EXCEPT ![r] = Book!Refused]
             /\ Records' \in {Records, [Records EXCEPT ![r] = @ \cup {SPAN_ORPHAN}]}
             /\ OpenRuns' \in {OpenRuns, OpenRuns \ {r}}
             => Book!Refuse(r)
BY DEF Book!vars, Book!Forget, Book!Ask, Book!Find, Book!Close, Book!Abandon, Book!Refuse,
       Replies, Records, OpenRuns, Found

\* Where every own line of the book stands, by the call's place.
LEMMA BookLines ==
    ASSUME IInv, NoOrphanYet, NEW r \in RunId
    PROVE  /\ Replies[r] = ReplyOf(pc[r], result[r])
           /\ Records[r] = Found(journal, r)
           /\ r \in OpenRuns <=> store.run[r] = "open"
           /\ pc[r] = "idle" => Replies[r] = Book!Unasked /\ r \notin OpenRuns
           /\ ~Settled(r) /\ pc[r] # "idle" =>
                 /\ Replies[r] = Book!Pending /\ r \in OpenRuns
                 /\ SPAN_ORPHAN \notin Records[r]
<1>1. Replies[r] = ReplyOf(pc[r], result[r]) /\ Records[r] = Found(journal, r)
    BY DEF Replies, Records
<1>2. r \in OpenRuns <=> store.run[r] = "open"
    BY DEF OpenRuns
<1>3. pc[r] = "idle" => Replies[r] = Book!Unasked /\ r \notin OpenRuns
    BY <1>1, <1>2, ReplyFacts DEF IInv, Phase
<1>4. ASSUME ~Settled(r), pc[r] # "idle"
      PROVE  pc[r] \in PC \ {"idle", "rejected", "done"} /\ store.run[r] = "open"
    BY <1>4 DEF IInv, Phase, PC, Settled
<1>5. ~Settled(r) => SPAN_ORPHAN \notin Found(journal, r)
    BY DEF NoOrphanYet
<1> QED BY <1>1, <1>2, <1>3, <1>4, <1>5, ReplyFacts

\* run up to its first await asks for a reply.
LEMMA BeginAsks ==
    ASSUME TypeOK, IInv, NoOrphanYet, NEW r \in RunId, Begin(r)
    PROVE  Book!Ask(r)
<1>1. pc[r] = "idle" /\ store.run[r] = "absent" /\ store.span[SpanOf[r]] = "absent"
    BY DEF Begin, IInv, Phase
<1>2. store'.run[r] = "open"
    <2> DEFINE started == StartRun(store, r)
               inSpan  == StartSpan(started, r, SpanOf[r], NoSpan)
    <2>1. store' = started \/ store' = inSpan
        BY DEF Begin
    <2>2. started.run = [store.run EXCEPT ![r] = "open"]
        BY <1>1, StartRunEffect DEF TypeOK
    <2>3. inSpan.run = started.run
        BY DEF StartSpan
    <2>4. started.run[r] = "open"
        BY <2>2 DEF TypeOK, Store
    <2> HIDE DEF inSpan, started
    <2> QED BY <2>1, <2>3, <2>4
<1>3. pc'[r] \in {"plan", "guarded", "rejected"} /\ UNCHANGED <<journal, result>>
    BY DEF Begin, TypeOK, ledgers
<1>4. ReplyOf(pc'[r], result'[r]) \in {Book!Pending, Book!Refused}
    BY <1>3, ReplyFacts DEF PC
<1>5. /\ Replies' = [Replies EXCEPT ![r] = ReplyOf(pc'[r], result'[r])]
      /\ OpenRuns' = OpenRuns \cup {r} /\ Records' = Records
    <2>1. Records' = [Records EXCEPT ![r] = Found(journal, r)]
        BY <1>3, BookFrame
    <2>2. Records' = Records
        BY <2>1 DEF Records
    <2> QED BY <1>2, <2>2, BookFrame
<1>6. Replies[r] = Book!Unasked
    BY <1>1, BookLines
<1> QED BY <1>4, <1>5, <1>6, BookActions

\* A step of execute finds a fault in its own call's name, or shows nothing.
LEMMA ExecuteFinds ==
    ASSUME TypeOK, IInv, NoOrphanYet, NEW r \in RunId,
           ResumePlan(r) \/ ResumeShape(r) \/ ResumeDeterminism(r) \/ CloseGuard(r)
    PROVE  (\E k \in FaultKey : Book!Find(r, k)) \/ UNCHANGED Book!vars
<1>1. /\ pc[r] \in PC \ {"idle", "rejected", "done"}
      /\ pc'[r] \in PC \ {"idle", "rejected", "done"}
      /\ UNCHANGED result
    <2>1. CASE ResumePlan(r)
        BY <2>1 DEF ResumePlan, TypeOK, PC
    <2>2. CASE ResumeShape(r)
        BY <2>2 DEF ResumeShape, Evaluated, TypeOK, PC
    <2>3. CASE ResumeDeterminism(r)
        BY <2>3 DEF ResumeDeterminism, Evaluated, TypeOK, PC
    <2>4. CASE CloseGuard(r)
        BY <2>4 DEF CloseGuard, TypeOK, PC
    <2> QED BY <2>1, <2>2, <2>3, <2>4
<1>2. store'.run = store.run
    BY DEF ResumePlan, ResumeShape, ResumeDeterminism, CloseGuard, EndSpan, TypeOK, Store
<1>3. ReplyOf(pc'[r], result'[r]) = Book!Pending /\ Replies[r] = Book!Pending
    BY <1>1, ReplyFacts DEF Replies
<1>4. Replies' = Replies /\ OpenRuns' = OpenRuns
    <2>1. Replies' = [Replies EXCEPT ![r] = Replies[r]]
        BY <1>3, BookFrame DEF Step
    <2>2. Replies' = Replies
        BY <2>1 DEF Replies
    <2> QED BY <1>2, <2>2 DEF OpenRuns
<1>5. Records' = [Records EXCEPT ![r] = Found(journal', r)]
    BY BookFrame DEF Step
<1>6. CASE UNCHANGED journal
    <2>1. Records' = Records
        BY <1>6 DEF Records
    <2> QED BY <1>4, <2>1, BookActions
<1>7. ASSUME NEW k \in {SHAPE, DETERMINISM}, journal' = RecordFault(journal, r, k)
      PROVE  Book!Find(r, k) /\ k \in FaultKey
    <2>1. k \in FaultKey
        BY KeysAssumption
    <2>2. Found(journal', r) = Records[r] \cup {k}
        BY <1>7, <2>1, RecordFound DEF TypeOK, Records
    <2>3. k # SPAN_ORPHAN
        BY DEF SHAPE, DETERMINISM, SPAN_ORPHAN
    <2> QED BY <1>3, <1>4, <1>5, <2>1, <2>2, <2>3, BookActions
<1>8. UNCHANGED journal \/ \E k \in {SHAPE, DETERMINISM} : journal' = RecordFault(journal, r, k)
    BY <1>1, CallRecords DEF Step
<1> QED BY <1>6, <1>7, <1>8

\* What the end of run answers, and where it leaves the run.
LEMMA SettleReplies ==
    ASSUME TypeOK, NEW r \in RunId, NEW st \in Store, st.run = store.run,
           store.run[r] = "open", NEW j, NEW tr, NEW orphan \in BOOLEAN, NEW error,
           Settle(r, st, j, tr, orphan, error)
    PROVE  \/ ReplyOf(pc'[r], result'[r]) = Book!Refused
           \/ /\ \E status \in {"completed", "failed"} :
                    /\ status = "completed" => Found(j, r) = {} /\ ~orphan
                    /\ ReplyOf(pc'[r], result'[r]) = Book!Told(status, Found(j, r), orphan)
              /\ store'.run[r] = IF orphan THEN "open" ELSE "ended"
<1> DEFINE found  == GetByRun(j, r)
           status == IF found # <<>> \/ orphan \/ error THEN "failed" ELSE "completed"
           answer == [status |-> status, faults |-> found, orphan |-> orphan]
<1>2. \/ pc' = [pc EXCEPT ![r] = "rejected"]
      \/ /\ orphan \/ EndRunError(st, r) = OK
         /\ store' = IF orphan THEN st ELSE EndRun(st, r)
         /\ pc' = [pc EXCEPT ![r] = "done"]
         /\ result' = [result EXCEPT ![r] = answer]
    BY DEF Settle
<1>3. CASE pc' = [pc EXCEPT ![r] = "rejected"]
    <2>1. pc'[r] = "rejected"
        BY <1>3 DEF TypeOK
    <2> QED BY <2>1, ReplyFacts
<1>4. CASE /\ orphan \/ EndRunError(st, r) = OK
           /\ store' = IF orphan THEN st ELSE EndRun(st, r)
           /\ pc' = [pc EXCEPT ![r] = "done"]
           /\ result' = [result EXCEPT ![r] = answer]
    <2>1. pc'[r] = "done" /\ result'[r] = answer
        BY <1>4 DEF TypeOK
    <2>2. answer.status = status /\ answer.faults = found /\ answer.orphan = orphan
        OBVIOUS
    <2>3. status \in {"completed", "failed"} /\ (status = "completed" => found = <<>> /\ ~orphan)
        OBVIOUS
    <2>4. found # <<>> <=> Found(j, r) # {}
        BY FoundNone
    <2>5. KindsOf(found) = Found(j, r)
        BY DEF Found
    <2>6. store'.run[r] = IF orphan THEN "open" ELSE "ended"
        <3>1. CASE orphan
            BY <1>4, <3>1
        <3>2. CASE ~orphan
            <4>1. EndRun(st, r).run = [st.run EXCEPT ![r] = "ended"]
                BY <1>4, <3>2, EndRunEffect
            <4> QED BY <1>4, <3>2, <4>1 DEF TypeOK, Store
        <3> QED BY <3>1, <3>2
    <2> HIDE DEF answer, status, found
    <2>7. ReplyOf(pc'[r], result'[r]) = Book!Told(status, Found(j, r), orphan)
        BY <2>1, <2>2, <2>5, ReplyFacts
    <2> QED BY <2>3, <2>4, <2>6, <2>7
<1> QED BY <1>2, <1>3, <1>4

\* The end of run that is no orphan's closes the request, or its reply is lost.
LEMMA SettleCloses ==
    ASSUME TypeOK, IInv, NoOrphanYet, NEW r \in RunId, Step(r), UNCHANGED journal,
           ~Settled(r), pc[r] # "idle", NEW st \in Store, st.run = store.run,
           NEW tr, NEW error, Settle(r, st, journal, tr, FALSE, error)
    PROVE  Book!Close(r) \/ Book!Refuse(r)
<1>1. /\ Replies[r] = Book!Pending /\ r \in OpenRuns /\ store.run[r] = "open"
      /\ SPAN_ORPHAN \notin Records[r] /\ Records[r] = Found(journal, r)
    BY BookLines
<1>2. /\ Replies' = [Replies EXCEPT ![r] = ReplyOf(pc'[r], result'[r])]
      /\ OpenRuns' = IF store'.run[r] = "open" THEN OpenRuns \cup {r} ELSE OpenRuns \ {r}
    BY BookFrame
<1>3. Records' = Records
    BY DEF Records
<1>4. OpenRuns' \in {OpenRuns, OpenRuns \ {r}}
    BY <1>1, <1>2
<1>5. CASE ReplyOf(pc'[r], result'[r]) = Book!Refused
    BY <1>1, <1>2, <1>3, <1>4, <1>5, BookActions
<1>6. CASE /\ \E status \in {"completed", "failed"} :
                 /\ status = "completed" => Found(journal, r) = {}
                 /\ ReplyOf(pc'[r], result'[r])
                       = Book!Told(status, Found(journal, r), FALSE)
           /\ store'.run[r] = "ended"
    <2>1. OpenRuns' = OpenRuns \ {r}
        BY <1>2, <1>6
    <2> QED BY <1>1, <1>2, <1>3, <1>6, <2>1, BookActions
<1> QED BY <1>1, <1>5, <1>6, SettleReplies

\* The end of run behind an orphan leaves the request open and says so.
LEMMA SettleAbandons ==
    ASSUME TypeOK, IInv, NoOrphanYet, NEW r \in RunId, Step(r),
           ~Settled(r), pc[r] # "idle", NEW st \in Store, st.run = store.run,
           NEW tr, SettleOrphan(r, st, tr)
    PROVE  Book!Abandon(r) \/ Book!Refuse(r)
<1>1. /\ Replies[r] = Book!Pending /\ r \in OpenRuns /\ store.run[r] = "open"
      /\ SPAN_ORPHAN \notin Records[r] /\ Records[r] = Found(journal, r)
    BY BookLines
<1>2. /\ Replies' = [Replies EXCEPT ![r] = ReplyOf(pc'[r], result'[r])]
      /\ Records' = [Records EXCEPT ![r] = Found(journal', r)]
    BY BookFrame
<1>3. PICK j : j = journal' /\ Settle(r, st, j, tr, TRUE, TRUE)
    BY DEF SettleOrphan
<1>4. Found(j, r) = Records[r] \cup {SPAN_ORPHAN}
    BY <1>1, <1>3, KeysAssumption, RecordFound DEF SettleOrphan, TypeOK
<1>5. Records' = [Records EXCEPT ![r] = @ \cup {SPAN_ORPHAN}]
    BY <1>2, <1>3, <1>4
<1>6. OpenRuns' = OpenRuns
    <2>1. store' = st
        BY <1>3 DEF Settle
    <2> QED BY <2>1 DEF OpenRuns
<1>7. \/ ReplyOf(pc'[r], result'[r]) = Book!Refused
      \/ \E status \in {"completed", "failed"} :
            /\ status = "completed" => Found(j, r) = {} /\ ~TRUE
            /\ ReplyOf(pc'[r], result'[r]) = Book!Told(status, Found(j, r), TRUE)
    BY <1>1, <1>3, SettleReplies
<1>8. CASE ReplyOf(pc'[r], result'[r]) = Book!Refused
    BY <1>1, <1>2, <1>5, <1>6, <1>8, BookActions
<1>9. CASE ReplyOf(pc'[r], result'[r]) = Book!Told("failed", Found(j, r), TRUE)
    BY <1>1, <1>2, <1>4, <1>5, <1>6, <1>9, BookActions
<1> QED BY <1>7, <1>8, <1>9

LEMMA BookStep ==
    ASSUME TypeOK, IInv, NoOrphanYet, [Next]_vars
    PROVE  [Book!Next]_(Book!vars)
<1>1. ASSUME NEW r \in RunId, Finish(r) \/ CatchOrphan(r) \/ ResumeGuarded(r)
      PROVE  Book!Close(r) \/ Book!Abandon(r) \/ Book!Refuse(r)
    <2>1. Step(r) /\ ~Settled(r) /\ pc[r] # "idle"
        BY <1>1 DEF Step, Settled, Finish, CatchOrphan, ResumeGuarded
    <2>2. store \in Store /\ EndSpan(store, SpanOf[r]) \in Store
        <3>1. SpanOf[r] \in SpanId /\ store \in Store
            BY CallsAssumption DEF TypeOK
        <3> QED BY <3>1 DEF EndSpan, SpanError, OK, Store, Status
    <2>3. EndSpan(store, SpanOf[r]).run = store.run
        BY <2>2 DEF EndSpan, Store
    <2>4. CASE Finish(r)
        <3> DEFINE closed == EndSpan(store, SpanOf[r])
                   tr     == Append(trace[r], Ev("TRACE_SPAN_END"))
        <3>1. \/ Settle(r, closed, journal, tr, FALSE, FALSE) /\ UNCHANGED journal
              \/ SettleOrphan(r, closed, tr)
            BY <2>4 DEF Finish, ledgers
        <3> HIDE DEF closed, tr
        <3> QED BY <2>1, <2>2, <2>3, <3>1, SettleCloses, SettleAbandons DEF closed
    <2>5. CASE CatchOrphan(r)
        BY <2>1, <2>2, <2>5, SettleAbandons DEF CatchOrphan
    <2>6. CASE ResumeGuarded(r)
        BY <2>1, <2>2, <2>6, SettleCloses DEF ResumeGuarded, ledgers
    <2> QED BY <1>1, <2>4, <2>5, <2>6
<1>2. ASSUME NEW r \in RunId, Begin(r) \/ Step(r) PROVE [Book!Next]_(Book!vars)
    <2>1. CASE Begin(r)
        BY <2>1, BeginAsks DEF Book!Next
    <2>2. CASE ResumePlan(r) \/ ResumeShape(r) \/ ResumeDeterminism(r) \/ CloseGuard(r)
        BY <2>2, ExecuteFinds DEF Book!Next
    <2>3. CASE Finish(r) \/ CatchOrphan(r) \/ ResumeGuarded(r)
        BY <1>1, <2>3 DEF Book!Next
    <2> QED BY <1>2, <2>1, <2>2, <2>3 DEF Step
<1>3. CASE UNCHANGED <<journal, pc, result, store>>
    BY <1>3, BookActions DEF Replies, Records, OpenRuns
<1>4. CASE (\E t \in Runtimes : Construct(t)) \/ PatchOp \/ UNCHANGED vars
    BY <1>3, <1>4 DEF Construct, PatchOp, vars, ledgers
<1>5. CASE ClearJournal
    <2>1. journal' = EmptyJournal /\ UNCHANGED <<pc, result, store>>
        BY <1>5 DEF ClearJournal
    <2>2. /\ Records' = [q \in RunId |-> {}]
          /\ UNCHANGED <<Replies, OpenRuns>>
        BY <2>1, NothingFound DEF Records, Replies, OpenRuns
    <2> QED BY <2>2, BookActions DEF Book!Next
<1> QED BY <1>2, <1>4, <1>5 DEF Next

\* The runtime implements the book of replies: each step of a call is the
\* asking, the finding of a fault, the closing, the abandoning or the refusal of
\* its own request, or shows nothing; a clear of the journal forgets.
THEOREM RepliesAreOwn == Spec => ImplementsReplyBook
<1>1. Init => Book!Init
    <2> SUFFICES ASSUME Init PROVE Book!Init
        OBVIOUS
    <2>1. \A r \in RunId : Found(journal, r) = {}
        BY NothingFound DEF Init
    <2>2. \A r \in RunId : ReplyOf(pc[r], result[r]) = Book!Unasked
        BY ReplyFacts DEF Init
    <2>3. \A r \in RunId : store.run[r] # "open"
        BY DEF Init, EmptyStore
    <2> QED BY <2>1, <2>2, <2>3 DEF Book!Init, Found
<1>2. TypeOK /\ IInv /\ NoOrphanYet /\ [Next]_vars => [Book!Next]_(Book!vars)
    BY BookStep
<1> QED BY <1>1, <1>2, TypeCorrect, Invariance, NoOrphanInvariance, PTL
        DEF Spec, ImplementsReplyBook, Book!Spec
=============================================================================
