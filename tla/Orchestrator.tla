---------------------------- MODULE Orchestrator ----------------------------
(***************************************************************************)
(* The v1 orchestrator (src/orchestrator.ts) as createDefaultOrchestrator  *)
(* wires it: ingress and perception before the invariant gate, one plan of *)
(* one step, the policy membrane with its rate limit, the Daniel module,   *)
(* and a trace store that every request appends to.                        *)
(*                                                                         *)
(* handle runs without a pause up to the await of the action engine, and   *)
(* from there to its end: two actions a request, with other requests in    *)
(* between.  Clients may choose the trace id, also one that is in use.     *)
(***************************************************************************)
EXTENDS Integers, Sequences, FiniteSets

CONSTANTS
    Request, Actor, TraceId,
    ActorOf, TraceOf, InputOf,   \* of each request
    RateMax, RateWindow,         \* RATE_LIMIT_MAX, RATE_LIMIT_WINDOW_MS in ticks
    MaxTime                      \* bound: the clock stops

\* What normalizeInput finds in a payload or a prompt.  inherited: the name of a
\* property every object inherits, which a client may send as the intent;
\* unknown: any name PLAN_PATTERNS does not have.
Intents == {"code_change", "analyze", "summarize", "unknown", "inherited"}

\* What the stages look at: whether the actor has a name, the name of the scope,
\* a request to bypass governance, the intent.  strings: actor and trace id have
\* the type that trim() needs; printable: String() of the payload does not throw.
AAESRequest == [named : BOOLEAN, scope : {"none", "code", "other"},
                bypass : BOOLEAN, intent : Intents,
                strings : BOOLEAN, printable : BOOLEAN]

ASSUME OrchestratorAssumption ==
    /\ ActorOf \in [Request -> Actor]
    /\ TraceOf \in [Request -> TraceId]
    /\ InputOf \in [Request -> AAESRequest]
    /\ RateMax \in Nat \ {0} /\ RateWindow \in Nat \ {0} /\ MaxTime \in Nat

VARIABLES
    now,       \* Date.now
    bucket,    \* rateLimits of the policy engine, by actor
    trace,     \* traces of the trace store, by id
    steps,     \* ctx.steps of each request
    result,    \* what came of each request
    admitted   \* history: the calls within the rate limit, with their times

vars == <<now, bucket, trace, steps, result, admitted>>

Statuses == {"ok", "blocked"}
StepTypes == {"ingress", "perception", "deliberation", "planning", "action", "complete"}
AAESStep == [by : Request, type : StepTypes, status : Statuses]

\* executing: the Daniel module has the action; the others of the first row have
\* an action result already and wait for their turn.
Waiting == {"executing", "denied", "skipped"}
Answers == {"blocked", "threw", "done success", "done denied", "done skipped"}
Results == {"none"} \cup Waiting \cup Answers

NoBucket == [count |-> 0, start |-> -1]

Init ==
    /\ now = 0
    /\ bucket = [a \in Actor |-> NoBucket]
    /\ trace = [i \in TraceId |-> <<>>]
    /\ steps = [r \in Request |-> <<>>]
    /\ result = [r \in Request |-> "none"]
    /\ admitted = {}

-----------------------------------------------------------------------------
\* createStep, for each type in turn
Made(r, types, status) ==
    [i \in DOMAIN types |-> [by |-> r, type |-> types[i], status |-> status]]

\* Mutant: the context's steps are stored in place of the trace's.
RecordContext(r, types, status) ==
    /\ steps' = [steps EXCEPT ![r] = @ \o Made(r, types, status)]
    /\ trace' = [trace EXCEPT ![TraceOf[r]] = steps'[r]]

\* record, once for each type: the step goes to the context and to the trace.
Record(r, types, status) ==
    /\ steps' = [steps EXCEPT ![r] = @ \o Made(r, types, status)]
    /\ trace' = [trace EXCEPT ![TraceOf[r]] = @ \o Made(r, types, status)]

\* Mutant: a window is one tick short.
ShortRateBucket(a) ==
    LET old == bucket[a]
        base == IF old = NoBucket \/ now - old.start >= RateWindow - 1
                THEN [count |-> 0, start |-> now] ELSE old
    IN [base EXCEPT !.count = @ + 1]

\* checkRateLimit: a window begins with the first call after the last one ended,
\* and counts the calls it refuses.
RateBucket(a) ==
    LET old == bucket[a]
        base == IF old = NoBucket \/ now - old.start >= RateWindow
                THEN [count |-> 0, start |-> now] ELSE old
    IN [base EXCEPT !.count = @ + 1]

\* GovernedInvariantEngine.evaluate of a step that createStep made: ids are fresh,
\* summaries are there and no step type is irreversible, so it is the request that
\* decides, and the perception step is judged as the ingress step was.
Governed(r) ==
    InputOf[r].named /\ InputOf[r].scope # "none" /\ ~InputOf[r].bypass

\* deliberate: the kinds of the one-step plans it offers, best first.
Deliberate(intent) ==
    LET primary == CASE intent = "code_change" -> <<"daniel.code">>
                     [] intent \in {"analyze", "summarize"} -> <<intent>>
                     [] OTHER -> <<"analyze", "summarize">>
    IN IF intent = "code_change" THEN primary ELSE Append(primary, "summarize")

\* selectBestPlan: every plan has the intent of the request, so only a plan with
\* code in it scores otherwise; the sort is stable.
Score(kind, intent) == CASE kind # "daniel.code"   -> 0
                         [] intent = "code_change" -> 2
                         [] OTHER                  -> -1

SelectBestPlan(plans, intent) ==
    LET best(i) == \A k \in DOMAIN plans :
            \/ Score(plans[k], intent) < Score(plans[i], intent)
            \/ Score(plans[k], intent) = Score(plans[i], intent) /\ i <= k
    IN plans[CHOOSE i \in DOMAIN plans : best(i)]

\* checkDanielCodeScope; no plan has a target checkResourceScope restricts.
InScope(kind, r) == kind = "daniel.code" => InputOf[r].scope = "code"

\* The Daniel module is the only one.
CanHandle(kind) == kind = "daniel.code"

\* run, up to the await: evaluate, the rate limit first, then who handles it.
Evaluate(r) ==
    LET a      == ActorOf[r]
        intent == InputOf[r].intent
        kind   == SelectBestPlan(Deliberate(intent), intent)
        within == RateBucket(a).count <= RateMax
    IN /\ bucket' = [bucket EXCEPT ![a] = RateBucket(a)]
       /\ admitted' = IF within THEN admitted \cup {[by |-> r, at |-> now]} ELSE admitted
       /\ result' = [result EXCEPT ![r] =
            CASE ~within \/ ~InScope(kind, r) -> "denied"
              [] within /\ InScope(kind, r) /\ CanHandle(kind) -> "executing"
              [] OTHER -> "skipped"]

-----------------------------------------------------------------------------
(* handle, up to its await *)

\* The invariant gate refuses the ingress step.
Block(r) ==
    /\ result[r] = "none" /\ InputOf[r].strings /\ ~Governed(r)
    /\ Record(r, <<"ingress">>, "blocked")
    /\ result' = [result EXCEPT ![r] = "blocked"]
    /\ UNCHANGED <<now, bucket, admitted>>

\* handle rejects.  trim() throws before any step; a plan is described by its
\* payload; and PLAN_PATTERNS answers an inherited name with something that is no
\* plan: calling it throws, or selectBestPlan compares the intent of what it
\* returned, which throws too.
Throw(r) ==
    /\ result[r] = "none"
    /\ \/ ~InputOf[r].strings /\ Record(r, <<>>, "ok")
       \/ /\ InputOf[r].strings /\ Governed(r)
          /\ InputOf[r].intent = "inherited" \/ ~InputOf[r].printable
          /\ Record(r, <<"ingress", "perception">>, "ok")
       \/ /\ InputOf[r].strings /\ Governed(r) /\ InputOf[r].intent = "inherited"
          /\ Record(r, <<"ingress", "perception", "deliberation">>, "ok")
    /\ result' = [result EXCEPT ![r] = "threw"]
    /\ UNCHANGED <<now, bucket, admitted>>

Plan(r) ==
    /\ result[r] = "none" /\ Governed(r) /\ InputOf[r].intent # "inherited"
    /\ InputOf[r].strings /\ InputOf[r].printable
    /\ Record(r, <<"ingress", "perception", "deliberation", "planning">>, "ok")
    /\ Evaluate(r)
    /\ UNCHANGED now

(* handle, from its await on *)
Finish(r) ==
    /\ result[r] \in Waiting
    /\ Record(r, <<"action", "complete">>, "ok")
    /\ result' = [result EXCEPT ![r] =
         CASE @ = "executing" -> "done success"
           [] @ = "denied" -> "done denied"
           [] @ = "skipped" -> "done skipped"]
    /\ UNCHANGED <<now, bucket, admitted>>

Tick ==
    /\ now < MaxTime
    /\ now' = now + 1
    /\ UNCHANGED <<bucket, trace, steps, result, admitted>>

Handle(r) == Block(r) \/ Throw(r) \/ Plan(r) \/ Finish(r)

Next == Tick \/ \E r \in Request : Handle(r)

Spec == Init /\ [][Next]_vars
-----------------------------------------------------------------------------
TypeOK ==
    /\ now \in 0..MaxTime
    /\ bucket \in [Actor -> [count : Nat, start : -1..MaxTime]]
    /\ trace \in [TraceId -> Seq(AAESStep)]
    /\ steps \in [Request -> Seq(AAESStep)]
    /\ result \in [Request -> Results]
    /\ admitted \subseteq [by : Request, at : 0..MaxTime]

\* The limit is of windows that begin with a call, not of every stretch of time:
\* a stretch as long as a window takes in the end of one and the start of the
\* next.  It holds less than two windows full, because a window's first call is
\* at its start (checkRateLimit).
Within(a, from) == {c \in admitted : /\ ActorOf[c.by] = a
                                     /\ c.at \in from..(from + RateWindow - 1)}
RateBounded ==
    \A a \in Actor, from \in 0..MaxTime :
        Cardinality(Within(a, from)) < 2 * RateMax

\* The places up to n, in a trace t, of the steps of request r.
Places(t, r, n) == {m \in 1 .. n : t[m].by = r}

\* Between the steps of others under the same id, a trace has the steps of the
\* request, all of them in their order (record, InMemoryTraceStore).
Tells(t, own, r) ==
    /\ Cardinality(Places(t, r, Len(t))) = Len(own)
    /\ \A n \in Places(t, r, Len(t)) : t[n] = own[Cardinality(Places(t, r, n))]

Whole == <<"ingress", "perception", "deliberation", "planning", "action", "complete">>

\* What the trace store has of a request is what the request was answered with:
\* whole for an answer that says ok, one blocked step for a refusal, and never
\* completed when it threw.
TracesMatchAnswers ==
    \A r \in Request :
        /\ Tells(trace[TraceOf[r]], steps[r], r)
        /\ Len(steps[r]) <= Len(Whole)
        /\ \A n \in DOMAIN steps[r] : steps[r][n].type = Whole[n]
        /\ Len(steps[r]) = Len(Whole) <=>
               result[r] \in {"done success", "done denied", "done skipped"}
        /\ result[r] = "blocked" =>
               steps[r] = <<[by |-> r, type |-> "ingress", status |-> "blocked"]>>
        /\ result[r] = "done success" =>
               /\ Governed(r) /\ InputOf[r].scope = "code"
               /\ \E c \in admitted : c.by = r
=============================================================================
