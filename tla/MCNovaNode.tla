----------------------------- MODULE MCNovaNode -----------------------------
(* One worker thread and the event loop.  The five governed calls are       *)
(* charged to `user', so that a limit that lets every call pass admits one  *)
(* call more than the overrun of the minute allows.                         *)
EXTENDS NovaNode, TLC

CONSTANTS s1, s2, replayed, tool, verified, posted, user

MCKindOf == [t \in Trace |-> CASE t \in {s1, s2} -> "submit"
                               [] t = replayed -> "replay"
                               [] t = tool -> "tool"
                               [] t = posted -> "result"
                               [] OTHER -> "verify"]
MCCallerOf == [t \in Trace |-> user]

\* Bound: the call that no governance sees is made beside two others at most.
FewCalls == call[posted].step # "idle" =>
    Cardinality({t \in Trace : call[t].step # "idle"}) <= 3

Symmetry == Permutations({s1, s2})
=============================================================================
