----------------------------- MODULE RunLedger ------------------------------
(***************************************************************************)
(* One RunStore shared by any number of clients (runtimes, tests, trace    *)
(* subscribers), each of which may call any public method with any id at   *)
(* any time: startRun and startSpan take the id from the caller when the   *)
(* caller supplies one.  Every method is synchronous, so a call is one     *)
(* step.  `outcome' is what the last call returned or threw.               *)
(***************************************************************************)
EXTENDS RunStore, FiniteSets

VARIABLES ledger, outcome

ledgerVars == <<ledger, outcome>>

Outcomes == {OK, "RUN_ALREADY_EXISTS", "RUN_NOT_FOUND", "OPEN_SPANS_REMAIN",
             "RUN_ALREADY_ENDED", "SPAN_ALREADY_EXISTS", "SPAN_NOT_FOUND",
             "SPAN_RUN_MISMATCH", "PARENT_SPAN_CLOSED"}

LedgerTypeOK == ledger \in Store /\ outcome \in Outcomes

LedgerInit == ledger = EmptyStore /\ outcome = OK

startRun(r) == /\ ledger' = StartRun(ledger, r)
               /\ outcome' = StartRunError(ledger, r)

endRun(r) == /\ ledger' = EndRun(ledger, r)
             /\ outcome' = EndRunError(ledger, r)

startSpan(r, s, p) == /\ ledger' = StartSpan(ledger, r, s, p)
                      /\ outcome' = StartSpanError(ledger, r, s, p)

endSpan(s) == /\ ledger' = EndSpan(ledger, s)
              /\ outcome' = SpanError(ledger, s)

linkInvariant(s, i) == /\ ledger' = LinkInvariant(ledger, s, i)
                       /\ outcome' = SpanError(ledger, s)

LedgerNext ==
    \/ \E r \in RunId : startRun(r) \/ endRun(r)
    \/ \E r \in RunId, s \in SpanId, p \in SpanId \cup {NoSpan} : startSpan(r, s, p)
    \/ \E s \in SpanId : endSpan(s)
    \/ \E s \in SpanId, i \in InvariantId : linkInvariant(s, i)

LedgerSpec == LedgerInit /\ [][LedgerNext]_ledgerVars
-----------------------------------------------------------------------------
\* An ended run has no open span, whatever order the clients end spans and runs
\* in: endRun refuses while a span is open, and startSpan refuses an ended run.
EndedRunHasNoOpenSpan == EndedRunsAreClosed(ledger)

\* A parent is a span that exists and belongs to its child's run, even after
\* either of them has ended.
ParentInSameRun == ParentsAreLocal(ledger)

\* The parent relation is a forest: walking up from a span never comes back to
\* it.  startSpan gives a span its parent once, when the span did not exist.
Acyclic(st) ==
    \A S \in SUBSET SpanId : S # {} => \E s \in S : st.parent[s] \notin S

ParentsAreAcyclic == Acyclic(ledger)

\* The places in the list of links up to n that belong to span s.
LinksOf(st, s, n) == {m \in 1 .. n : st.links[m][1] = s}

\* The list of links and the list on each span record say the same, in the same
\* order and without repetition, however often the same pair is linked: the list
\* of a span has as many entries as the span has links, and its k-th link is the
\* k-th entry.
Agree(st) ==
    \A s \in SpanId :
        /\ Len(st.spanLinks[s]) = Cardinality(LinksOf(st, s, Len(st.links)))
        /\ \A n \in LinksOf(st, s, Len(st.links)) :
               st.spanLinks[s][Cardinality(LinksOf(st, s, n))] = st.links[n][2]
        /\ \A m, n \in DOMAIN st.spanLinks[s] :
               st.spanLinks[s][m] = st.spanLinks[s][n] => m = n

LinksAgree == Agree(ledger)

\* An ended run stays ended and keeps its spans: no span joins it, none of its
\* spans reopens, moves to another run or gets another parent.  Invariants may
\* still be linked to them (linkInvariant asks for no open run).
Frozen(st, st2) ==
    \A r \in RunId : st.run[r] = "ended" =>
        /\ st2.run[r] = "ended"
        /\ SpansOf(st2, r) = SpansOf(st, r)
        /\ \A s \in SpansOf(st, r) : /\ st2.span[s] = st.span[s]
                                     /\ st2.parent[s] = st.parent[s]

EndedRunIsFrozen == [][Frozen(ledger, ledger')]_ledgerVars
=============================================================================
