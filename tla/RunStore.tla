------------------------------ MODULE RunStore ------------------------------
(***************************************************************************)
(* The in-memory run ledger of packages/runledger/src/runStore.ts as pure  *)
(* operators on a store value: every public method of class RunStore is an *)
(* "Error" operator, the code of the RunLedgerError it throws (OK when it  *)
(* throws none), and an operator that returns the store after the call.    *)
(* A throwing call leaves the store as it was.                             *)
(*                                                                         *)
(* A run or a span is absent, open (endedAt unset) or ended.  Timestamps,  *)
(* names and metadata are left out: no method reads them back.             *)
(***************************************************************************)
EXTENDS Naturals, Sequences

CONSTANTS RunId, SpanId, InvariantId, NoRun, NoSpan

ASSUME NoRunAssumption  == NoRun \notin RunId
ASSUME NoSpanAssumption == NoSpan \notin SpanId

Status == {"absent", "open", "ended"}

OK == "OK"

\* runs, spans and invariantLinks; a span record carries its run, its parent
\* and the invariant ids linked to it.
Store == [run       : [RunId -> Status],
          span      : [SpanId -> Status],
          spanRun   : [SpanId -> RunId \cup {NoRun}],
          parent    : [SpanId -> SpanId \cup {NoSpan}],
          spanLinks : [SpanId -> Seq(InvariantId)],
          links     : Seq(SpanId \X InvariantId)]

EmptyStore == [run       |-> [r \in RunId |-> "absent"],
               span      |-> [s \in SpanId |-> "absent"],
               spanRun   |-> [s \in SpanId |-> NoRun],
               parent    |-> [s \in SpanId |-> NoSpan],
               spanLinks |-> [s \in SpanId |-> <<>>],
               links     |-> <<>>]

SpansOf(st, r) == {s \in SpanId : st.span[s] # "absent" /\ st.spanRun[s] = r}

OpenSpansOf(st, r) == {s \in SpansOf(st, r) : st.span[s] = "open"}
-----------------------------------------------------------------------------
\* Mutant: the id of an ended run is free again.
StartRunErrorReuse(st, r) == IF st.run[r] = "open" THEN "RUN_ALREADY_EXISTS" ELSE OK

StartRunError(st, r) == IF st.run[r] # "absent" THEN "RUN_ALREADY_EXISTS" ELSE OK

StartRun(st, r) ==
    IF StartRunError(st, r) # OK THEN st ELSE [st EXCEPT !.run[r] = "open"]

\* Mutant: the open spans are not looked at.
EndRunErrorUnchecked(st, r) == IF st.run[r] = "absent" THEN "RUN_NOT_FOUND" ELSE OK

\* requireRun and the early return of a second endRun come before the check of
\* the open spans.
EndRunError(st, r) ==
    IF st.run[r] = "absent" THEN "RUN_NOT_FOUND"
    ELSE IF st.run[r] = "open" /\ OpenSpansOf(st, r) # {} THEN "OPEN_SPANS_REMAIN"
    ELSE OK

EndRun(st, r) ==
    IF EndRunError(st, r) # OK THEN st ELSE [st EXCEPT !.run[r] = "ended"]

\* requireOpenRun
OpenRunError(st, r) ==
    IF st.run[r] = "absent" THEN "RUN_NOT_FOUND"
    ELSE IF st.run[r] = "ended" THEN "RUN_ALREADY_ENDED"
    ELSE OK

\* Mutant: a parent of another run will do.
ParentErrorAnyRun(st, r, p) ==
    IF p = NoSpan THEN OK
    ELSE IF st.span[p] = "absent" THEN "SPAN_NOT_FOUND"
    ELSE IF st.span[p] = "ended" THEN "PARENT_SPAN_CLOSED"
    ELSE OK

ParentError(st, r, p) ==
    IF p = NoSpan THEN OK
    ELSE IF st.span[p] = "absent" THEN "SPAN_NOT_FOUND"
    ELSE IF st.spanRun[p] # r THEN "SPAN_RUN_MISMATCH"
    ELSE IF st.span[p] = "ended" THEN "PARENT_SPAN_CLOSED"
    ELSE OK

\* Mutant: a span id may be started again.
StartSpanErrorRestart(st, r, s, p) ==
    IF OpenRunError(st, r) # OK THEN OpenRunError(st, r) ELSE ParentError(st, r, p)

StartSpanError(st, r, s, p) ==
    IF OpenRunError(st, r) # OK THEN OpenRunError(st, r)
    ELSE IF st.span[s] # "absent" THEN "SPAN_ALREADY_EXISTS"
    ELSE ParentError(st, r, p)

StartSpan(st, r, s, p) ==
    IF StartSpanError(st, r, s, p) # OK THEN st
    ELSE [st EXCEPT !.span[s]      = "open",
                    !.spanRun[s]   = r,
                    !.parent[s]    = p,
                    !.spanLinks[s] = <<>>]

\* requireSpan
SpanError(st, s) == IF st.span[s] = "absent" THEN "SPAN_NOT_FOUND" ELSE OK

\* Mutant: the span never gets its endedAt.
EndSpanLost(st, s) == st

\* endSpan looks neither at the children of the span nor at its run.
EndSpan(st, s) ==
    IF SpanError(st, s) # OK THEN st ELSE [st EXCEPT !.span[s] = "ended"]

\* linkInvariant: an existing link is returned, not repeated; a closed span and
\* a span of an ended run still take links.
Linked(st, s, i) == \E n \in DOMAIN st.links : st.links[n] = <<s, i>>

\* Mutant: a link is repeated.
LinkInvariantTwice(st, s, i) ==
    IF SpanError(st, s) # OK THEN st
    ELSE [st EXCEPT !.links        = Append(@, <<s, i>>),
                    !.spanLinks[s] = Append(@, i)]

LinkInvariant(st, s, i) ==
    IF SpanError(st, s) # OK \/ Linked(st, s, i) THEN st
    ELSE [st EXCEPT !.links        = Append(@, <<s, i>>),
                    !.spanLinks[s] = Append(@, i)]
-----------------------------------------------------------------------------
\* What every method preserves, as predicates on a store (RunLedgerProofs).

\* An ended run has no open span.
EndedRunsAreClosed(st) ==
    \A r \in RunId : st.run[r] = "ended" => OpenSpansOf(st, r) = {}

\* Every span belongs to a run that was started.
SpansHaveRuns(st) ==
    \A s \in SpanId : st.span[s] # "absent" =>
        st.spanRun[s] \in RunId /\ st.run[st.spanRun[s]] # "absent"

\* A parent exists and belongs to its child's run; a span that was never
\* started has no parent.
ParentsAreLocal(st) ==
    \A s \in SpanId :
        /\ st.span[s] = "absent" => st.parent[s] = NoSpan
        /\ st.parent[s] # NoSpan =>
               /\ st.span[st.parent[s]] # "absent"
               /\ st.spanRun[st.parent[s]] = st.spanRun[s]

StoreInv(st) == EndedRunsAreClosed(st) /\ SpansHaveRuns(st) /\ ParentsAreLocal(st)
=============================================================================
