------------------------------ MODULE NovaNode ------------------------------
(***************************************************************************)
(* One Lawful Nova node (lawful-nova-shell/nova/node): the calls it takes, *)
(* the files they leave, and the process that may end at any moment.       *)
(*                                                                         *)
(*   submit  POST /node/submit: governed, run by the model provider        *)
(*   replay  POST /node/replay/{trace}: an earlier submit, once more       *)
(*   tool    POST /node/tool: governed, run by a coding tool               *)
(*   verify  GET /node/verify/{trace}: regenerates an earlier tool call    *)
(*   result  POST /node/result: the provider asked with no governance      *)
(*                                                                         *)
(* submit_node is a plain function, so FastAPI runs it on one of Threads   *)
(* worker threads; every other handler is a coroutine that never awaits    *)
(* once it has its body, so it keeps the event loop to itself.  Within a   *)
(* call an action is one file operation, one reading of the clock or one   *)
(* answer of a provider.  A trace id is a fresh uuid: a call is its trace. *)
(***************************************************************************)
EXTENDS NodeGovernance, NodeEventLog

CONSTANTS
    KindOf, CallerOf,    \* of each call in Trace
    Anonymous,           \* the caller _enforce_rate_limits falls back on
    Refusable,           \* calls whose payload may break the policy's invariants
    Coding,              \* tool calls with the intent 'code'
    Threads,             \* worker threads that run submit_node
    MaxCrashes           \* bound

Kinds == {"submit", "replay", "tool", "verify", "result"}

ASSUME NodeAssumption ==
    /\ KindOf \in [Trace -> Kinds]
    /\ CallerOf \in [Trace -> Caller]
    /\ Anonymous \in Caller
    /\ Refusable \subseteq Trace
    /\ Coding \subseteq Trace
    /\ Threads \in Nat \ {0}
    /\ MaxCrashes \in Nat

VARIABLES
    call,         \* the calls, by trace
    continuity,   \* continuity.jsonl
    results,      \* results/<trace>.json
    toolFiles,    \* tool-receipts/<trace>.json
    executed,     \* history: traces a provider or a tool has answered
    crashes

callVars == <<call, continuity, results, toolFiles, executed>>
vars == <<governanceVars, eventVars, callVars, crashes>>

Ended == {"done", "vetoed", "failed", "unknown", "missing"}
Steps == Ended \cup {"idle", "enforce", "charge", "admit", "execute", "receipt",
                     "event", "openResult", "fillResult", "emit", "mirror",
                     "invoke", "openTool", "fillTool", "toolReceipt", "generate",
                     "ask", "log"}

\* verdict: of enforce_invariants, before and after the call is charged;
\* stamp: when it took the time; todo: the channels still to be emitted.
NoCall(t) == [step |-> "idle", caller |-> CallerOf[t], verdict |-> "none",
              stamp |-> 0, todo |-> <<>>]

EntryKinds == {"submit", "receipt", "result", "toolReceipt"}
Entry == [kind : EntryKinds, trace : Trace, caller : Caller]
FileStates == {"none", "torn", "whole"}

Init ==
    /\ GovernanceInit
    /\ EventsInit
    /\ call = [t \in Trace |-> NoCall(t)]
    /\ continuity = <<>>
    /\ results = [t \in Trace |-> "none"]
    /\ toolFiles = [t \in Trace |-> "none"]
    /\ executed = {}
    /\ crashes = 0

-----------------------------------------------------------------------------
Running(t) == call[t].step \notin Ended \cup {"idle"}
OnThread(t) == KindOf[t] = "submit"

\* A worker thread is free; the event loop is free.
MayEnter(t) ==
    IF OnThread(t)
      THEN Cardinality({u \in Trace : OnThread(u) /\ Running(u)}) < Threads
      ELSE \A u \in Trace : ~OnThread(u) => ~Running(u)

Move(t, step) == call' = [call EXCEPT ![t].step = step]

Keep(files) == /\ UNCHANGED <<governanceVars, crashes>>
               /\ UNCHANGED files

Log(t, kind) == continuity' = Append(continuity,
    [kind |-> kind, trace |-> t, caller |-> call[t].caller])

HasEntry(t, kind) == \E i \in DOMAIN continuity :
    continuity[i].kind = kind /\ continuity[i].trace = t

\* enforce_invariants refuses a payload that is too large, asks for too many
\* tokens or has a banned intent before the call is counted: a submit raises
\* NodeVeto, a tool call says so on the bus, a verify goes on.
Refuse(t, caller) ==
    /\ t \in Refusable
    /\ call' = [call EXCEPT
         ![t].caller = caller,
         ![t].verdict = "blocked",
         ![t].step = CASE KindOf[t] = "tool" -> "emit"
                       [] KindOf[t] = "verify" -> "generate"
                       [] OTHER -> "vetoed",
         ![t].todo = IF KindOf[t] = "tool" THEN <<"blocked">> ELSE <<>>]

\* The body of a tool call is any JSON: int() raises on a max_tokens that is no
\* number, and nothing catches it.
Break(t) == t \in Refusable /\ KindOf[t] = "tool" /\ Move(t, "failed")

\* Or it goes on to _enforce_rate_limits, which takes the time.
TakeTime(t, caller) ==
    call' = [call EXCEPT ![t].caller = caller,
                         ![t].stamp = minute,
                         ![t].step = "enforce"]

Enforce(t, caller) == Refuse(t, caller) \/ Break(t) \/ TakeTime(t, caller)

Begin(t) ==
    /\ call[t].step = "idle" /\ MayEnter(t)
    /\ KindOf[t] \in {"submit", "tool"}
    /\ Enforce(t, CallerOf[t])
    /\ Keep(<<eventVars, continuity, results, toolFiles, executed>>)

\* replay_trace: the result file must be there and be JSON, its submit event
\* must be in the log; the packet of that event is submitted again, under the
\* caller it names.
BeginReplay(t, old) ==
    /\ call[t].step = "idle" /\ MayEnter(t)
    /\ KindOf[t] = "replay"
    /\ CASE results[old] # "whole" -> Move(t, "unknown")
         [] results[old] = "whole" /\ ~HasEntry(old, "submit") -> Move(t, "missing")
         [] OTHER -> Enforce(t, call[old].caller)
    /\ Keep(<<eventVars, continuity, results, toolFiles, executed>>)

\* verify_trace: load_receipt, then replay_coding when the receipt is of the
\* intent 'code'.  The task it rebuilds has no caller, and what
\* enforce_invariants answers is not looked at.
BeginVerify(t, old) ==
    /\ call[t].step = "idle" /\ MayEnter(t)
    /\ KindOf[t] = "verify"
    /\ CASE toolFiles[old] = "none" -> Move(t, "unknown")
         [] toolFiles[old] = "torn" -> Move(t, "failed")
         [] toolFiles[old] = "whole" /\ old \notin Coding -> Move(t, "done")
         [] OTHER -> Enforce(t, Anonymous)
    /\ Keep(<<eventVars, continuity, results, toolFiles, executed>>)

\* node_result: no enforce_invariants.
BeginResult(t) ==
    /\ call[t].step = "idle" /\ MayEnter(t)
    /\ KindOf[t] = "result"
    /\ Move(t, "ask")
    /\ Keep(<<eventVars, continuity, results, toolFiles, executed>>)

\* get_rate_limit_state: the log as it is now, at the time it is now.
Count(t) ==
    /\ call[t].step = "enforce"
    /\ call' = [call EXCEPT ![t].step = "charge",
                  ![t].verdict = IF OverLimit(call[t].caller) THEN "full" ELSE "free"]
    /\ Keep(<<eventVars, continuity, results, toolFiles, executed>>)

\* Mutant: the handler goes on whatever the limit says.
AppendChargeOnly(t) ==
    /\ call[t].step = "charge"
    /\ Record(call[t].caller, call[t].stamp, call[t].verdict = "full")
    /\ call' = [call EXCEPT
         ![t].verdict = "allowed",
         ![t].step = CASE KindOf[t] = "verify" -> "generate"
                       [] KindOf[t] = "tool" -> "emit"
                       [] OTHER -> "admit",
         ![t].todo = IF KindOf[t] = "tool" THEN <<"invoked">> ELSE <<>>]
    /\ UNCHANGED <<minute, eventVars, continuity, results, toolFiles, executed, crashes>>

\* The line is appended and the handler acts on the verdict.
AppendCharge(t) ==
    LET allowed == call[t].verdict = "free" IN
    /\ call[t].step = "charge"
    /\ Record(call[t].caller, call[t].stamp, ~allowed)
    /\ call' = [call EXCEPT
         ![t].verdict = IF allowed THEN "allowed" ELSE "blocked",
         ![t].step = CASE KindOf[t] = "verify" -> "generate"
                       [] KindOf[t] = "tool" -> "emit"
                       [] OTHER -> IF allowed THEN "admit" ELSE "vetoed",
         ![t].todo = IF KindOf[t] = "tool"
                     THEN IF allowed THEN <<"invoked">> ELSE <<"blocked">>
                     ELSE <<>>]
    /\ UNCHANGED <<minute, eventVars, continuity, results,
                   toolFiles, executed, crashes>>

-----------------------------------------------------------------------------
(* submit_node_task *)

\* The submit event.
Admit(t) ==
    /\ call[t].step = "admit"
    /\ call' = [call EXCEPT ![t].step = "execute"]
    /\ Log(t, "submit")
    /\ Keep(<<eventVars, results, toolFiles, executed>>)

\* provider.chat_completion answers, or raises and the handler answers 500.
Execute(t) ==
    /\ call[t].step = "execute"
    /\ \/ /\ Move(t, "receipt")
          /\ executed' = executed \cup {t}
       \/ Move(t, "failed") /\ executed' = executed
    /\ Keep(<<eventVars, continuity, results, toolFiles>>)

\* Mutant: the result is stored before there is a receipt.
WriteReceiptLast(t) ==
    /\ call[t].step = "receipt"
    /\ results' = [results EXCEPT ![t] = "whole"]
    /\ Log(t, "receipt")
    /\ Move(t, "event")
    /\ Keep(<<eventVars, toolFiles, executed>>)

WriteReceipt(t) ==
    /\ call[t].step = "receipt"
    /\ Log(t, "receipt")
    /\ Move(t, "event")
    /\ Keep(<<eventVars, results, toolFiles, executed>>)

WriteEvent(t) ==
    /\ call[t].step = "event"
    /\ Log(t, "result")
    /\ Move(t, "openResult")
    /\ Keep(<<eventVars, results, toolFiles, executed>>)

\* write_text truncates the file, then fills it.
OpenResult(t) ==
    /\ call[t].step = "openResult"
    /\ results' = [results EXCEPT ![t] = "torn"]
    /\ Move(t, "fillResult")
    /\ Keep(<<eventVars, continuity, toolFiles, executed>>)

FillResult(t) ==
    /\ call[t].step = "fillResult"
    /\ results' = [results EXCEPT ![t] = "whole"]
    /\ Move(t, "done")
    /\ Keep(<<eventVars, continuity, toolFiles, executed>>)

-----------------------------------------------------------------------------
(* node_tool and replay_coding *)

Emit(t) ==
    /\ call[t].step = "emit"
    /\ AppendEvent(Head(call[t].todo), t)
    /\ Move(t, "mirror")
    /\ Keep(<<continuity, results, toolFiles, executed>>)

\* What the handler does after its last emission.
AfterEvents(ch) == CASE ch = "invoked" -> "invoke"
                     [] ch = "blocked" -> "vetoed"
                     [] OTHER -> "done"

Mirror(t) ==
    /\ call[t].step = "mirror"
    /\ AppendTwin(Head(call[t].todo), t)
    /\ call' = [call EXCEPT ![t].todo = Tail(@),
                  ![t].step = IF Len(call[t].todo) > 1 THEN "emit"
                              ELSE AfterEvents(Head(call[t].todo))]
    /\ Keep(<<continuity, results, toolFiles, executed>>)

\* invoke_tool: the tool answers, its name is unknown, or its model raises,
\* which nothing catches.
Invoke(t) ==
    /\ call[t].step = "invoke"
    /\ \/ Move(t, "openTool") /\ executed' = executed \cup {t}
       \/ /\ call' = [call EXCEPT ![t].step = "emit", ![t].todo = <<"blocked">>]
          /\ executed' = executed
       \/ Move(t, "failed") /\ executed' = executed
    /\ Keep(<<eventVars, continuity, results, toolFiles>>)

\* Mutant: the line, then the file.
OpenToolFileLate(t) ==
    /\ call[t].step = "openTool"
    /\ Log(t, "toolReceipt")
    /\ Move(t, "fillTool")
    /\ Keep(<<eventVars, results, toolFiles, executed>>)

\* write_coding_receipt: the file, then the line.
OpenToolFile(t) ==
    /\ call[t].step = "openTool"
    /\ toolFiles' = [toolFiles EXCEPT ![t] = "torn"]
    /\ Move(t, "fillTool")
    /\ Keep(<<eventVars, continuity, results, executed>>)

FillToolFile(t) ==
    /\ call[t].step = "fillTool"
    /\ toolFiles' = [toolFiles EXCEPT ![t] = "whole"]
    /\ Move(t, "toolReceipt")
    /\ Keep(<<eventVars, continuity, results, executed>>)

\* Then the events: of a patch when the result has a diff, and of the end.
WriteToolReceipt(t) ==
    /\ call[t].step = "toolReceipt"
    /\ Log(t, "toolReceipt")
    /\ \E patch \in {<<>>, <<"patched">>} :
          call' = [call EXCEPT ![t].step = "emit",
                               ![t].todo = patch \o <<"completed", "verified">>]
    /\ Keep(<<eventVars, results, toolFiles, executed>>)

\* replay_coding calls the model whatever the decision was.
Generate(t) ==
    /\ call[t].step = "generate"
    /\ Move(t, "done")
    /\ Keep(<<eventVars, continuity, results, toolFiles, executed>>)

-----------------------------------------------------------------------------
(* node_result *)

\* The provider answers, or raises, which nothing catches.
Ask(t) ==
    /\ call[t].step = "ask"
    /\ \/ Move(t, "log") /\ executed' = executed \cup {t}
       \/ Move(t, "failed") /\ executed' = executed
    /\ Keep(<<eventVars, continuity, results, toolFiles>>)

\* A result event, and no submit event, receipt or result file.
LogResult(t) ==
    /\ call[t].step = "log"
    /\ Log(t, "result")
    /\ Move(t, "done")
    /\ Keep(<<eventVars, results, toolFiles, executed>>)

-----------------------------------------------------------------------------
\* The process ends and is started again: calls are lost where they are, files
\* stay as they are.
Crash ==
    /\ crashes < MaxCrashes
    /\ crashes' = crashes + 1
    /\ \E t \in Trace : Running(t)
    /\ call' = [t \in Trace |-> IF Running(t)
                  THEN [call[t] EXCEPT !.step = "failed", !.todo = <<>>]
                  ELSE call[t]]
    /\ ForgetTraces
    /\ UNCHANGED <<governanceVars, continuity, results, toolFiles, executed>>

Clock == Tick /\ UNCHANGED <<eventVars, callVars, crashes>>

Enter(t) == \/ Begin(t) \/ BeginResult(t)
            \/ \E old \in Trace : BeginReplay(t, old) \/ BeginVerify(t, old)
Governed(t) == Count(t) \/ AppendCharge(t)
Submitted(t) == \/ Admit(t) \/ Execute(t) \/ WriteReceipt(t) \/ WriteEvent(t)
                \/ OpenResult(t) \/ FillResult(t)
Tooled(t) == \/ Emit(t) \/ Mirror(t) \/ Invoke(t) \/ OpenToolFile(t)
             \/ FillToolFile(t) \/ WriteToolReceipt(t) \/ Generate(t)
Resulted(t) == Ask(t) \/ LogResult(t)

Step(t) == Enter(t) \/ Governed(t) \/ Submitted(t) \/ Tooled(t) \/ Resulted(t)

Next == Clock \/ Crash \/ \E t \in Trace : Step(t)

Spec == Init /\ [][Next]_vars
-----------------------------------------------------------------------------
CallRecord == [step : Steps, caller : Caller,
               verdict : {"none", "full", "free", "allowed", "blocked"},
               stamp : 0..MaxMinute, todo : Seq(Channel)]

TypeOK ==
    /\ GovernanceTypeOK
    /\ EventsTypeOK
    /\ call \in [Trace -> CallRecord]
    /\ continuity \in Seq(Entry)
    /\ results \in [Trace -> FileStates]
    /\ toolFiles \in [Trace -> FileStates]
    /\ executed \subseteq Trace
    /\ crashes \in 0..MaxCrashes

\* The entries of t up to a kind are in the log, in the order of the code.
Before(t, first, second) == \E i, j \in DOMAIN continuity :
    /\ i < j
    /\ continuity[i].kind = first /\ continuity[i].trace = t
    /\ continuity[j].kind = second /\ continuity[j].trace = t

\* However the process ended: a trace a provider has executed for submit or
\* replay has its submit event; a result file, torn or whole, has the submit
\* event, the receipt and the result event before it; and a replay that found
\* the file never misses the packet (submit_node_task, replay_trace).
ResultIsBacked ==
    \A t \in Trace :
        /\ t \in executed /\ KindOf[t] \in {"submit", "replay"} => HasEntry(t, "submit")
        /\ results[t] # "none" => /\ Before(t, "submit", "receipt")
                                  /\ Before(t, "receipt", "result")
        /\ call[t].step # "missing"

\* However the process ended: a receipt of a tool in the log has its file, whole;
\* a Capability.Completed in the substrate log has that receipt and names the
\* event before it in its trace, although the memory of traces is lost with the
\* process; a tool call that was answered has its completion and its decision
\* there (node_tool, write_coding_receipt, legacy_event_to_substrate).
Mirrored(t, ch) == \E i \in DOMAIN substrate :
    substrate[i].channel = ch /\ substrate[i].trace = t

ToolEvidence ==
    /\ RefersBack
    /\ \A t \in Trace :
        /\ HasEntry(t, "toolReceipt") => toolFiles[t] = "whole"
        /\ Mirrored(t, "completed") => HasEntry(t, "toolReceipt")
        /\ KindOf[t] = "tool" /\ call[t].step = "done" =>
               Mirrored(t, "invoked") /\ Mirrored(t, "completed") /\ Mirrored(t, "verified")
        /\ KindOf[t] = "tool" /\ call[t].step = "vetoed" => Mirrored(t, "blocked")

\* What a submit, a replay or a tool call has executed for a caller was charged
\* to it: no refused call runs, a replay pays like the call it repeats, and a crash
\* loses no charge (enforce_invariants and its callers).  It says nothing of the
\* calls that run a model uncharged: POST /node/result asks no governance, and a
\* verify regenerates whatever the governance answered.
GovernedKinds == {"submit", "replay", "tool"}
Charged(c) == {i \in DOMAIN rateLog : rateLog[i].caller = c /\ ~rateLog[i].blocked}
Executed(c) == {t \in executed : KindOf[t] \in GovernedKinds /\ call[t].caller = c}
GovernedRunsAreCharged ==
    \A c \in Caller : Cardinality(Executed(c)) <= Cardinality(Charged(c))

\* The limit is checked and recorded in separate steps, with two readings of the
\* clock, so it can be overrun; but by no more than the calls in flight, once
\* when the last slot is taken and once when the minute turns.
Admitted(c, m) == {t \in Trace : /\ call[t].caller = c /\ call[t].stamp = m
                                 /\ call[t].verdict = "allowed"}
InFlight == Threads + 1
OverrunBounded ==
    \A c \in Caller, m \in 0..MaxMinute :
        Cardinality(Admitted(c, m)) < PerMinute + 2 * InFlight

\* Every event of the bus has its twin in the substrate log, but for the one
\* being emitted and one per crash; the twins are in the order of the bus and
\* numbered without a gap (event_bus.emit, append_substrate_event).
Emitting == {t \in Trace : call[t].step = "mirror"}
EventsMirrored ==
    /\ SequencesArePlaces
    /\ OrderKept
    /\ Len(bus) <= Len(substrate) + crashes + Cardinality(Emitting)
=============================================================================
