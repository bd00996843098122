--------------------------- MODULE MCOrchestrator ---------------------------
(* Four calls of one actor that reach the rate limit, enough to overfill a    *)
(* window of two.  Each trace id has two requests or three: two that go       *)
(* through, one with one that throws before and one that throws after its     *)
(* first steps (as one whose payload cannot be printed does), one with one    *)
(* that is refused.                                                           *)
EXTENDS Orchestrator, TLC

CONSTANTS code1, code2, uncoded, other, blocked, thrown, untyped, actor, id1, id2, id3

MCActorOf == [r \in Request |-> actor]
MCTraceOf == [r \in Request |->
    CASE r \in {code1, uncoded} -> id1 [] r \in {code2, thrown, untyped} -> id2 [] OTHER -> id3]

In(scope, intent) == [named |-> TRUE, scope |-> scope, bypass |-> FALSE, intent |-> intent,
                      strings |-> TRUE, printable |-> TRUE]

MCInputOf == [r \in Request |->
    CASE r \in {code1, code2} -> In("code", "code_change")
      [] r = uncoded -> In("other", "code_change")
      [] r = other -> In("code", "unknown")
      [] r = blocked -> [In("code", "analyze") EXCEPT !.bypass = TRUE]
      [] r = untyped -> [In("code", "analyze") EXCEPT !.strings = FALSE]
      [] OTHER -> In("code", "inherited")]
=============================================================================
