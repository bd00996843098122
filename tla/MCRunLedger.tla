---------------------------- MODULE MCRunLedger -----------------------------
(* Two runs and three spans are enough for a parent in another run, a child *)
(* that outlives its parent and a chain of three spans; MaxLinks links      *)
(* between them and two invariants for both orders on one span and across   *)
(* spans.                                                                   *)
EXTENDS RunLedger, TLC

CONSTANTS r1, r2, s1, s2, s3, i1, i2, MaxLinks

MCSpec == LedgerInit /\ [][LedgerNext /\ Len(ledger'.links) <= MaxLinks]_ledgerVars

\* Of the ids, none of which a method tells from another.
Symmetry == Permutations(RunId) \cup Permutations(SpanId) \cup Permutations(InvariantId)
=============================================================================
