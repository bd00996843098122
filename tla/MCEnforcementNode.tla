------------------------- MODULE MCEnforcementNode --------------------------
(* Two ids, a token for each, an ordinary and an unhashable payload.  The    *)
(* transitions offered to execute and the pipeline fail every check once;   *)
(* those offered in the lifecycle run are the ones whose decisions can be   *)
(* overtaken.                                                               *)
EXTENDS EnforcementNode

CONSTANTS a1, a2, i1, i2, p1, p2, big, t1, t2

MCBoundTo == [t \in {t1, t2} |-> IF t = t1 THEN i1 ELSE i2]

\* A transition that passes every check, without a token.
Good(i, p) == [id |-> i, payload |-> p, context |-> TRUE, granted |-> TRUE,
               passes |-> TRUE, token |-> NoToken, signed |-> TRUE, scoped |-> TRUE]

With(i, t) == [Good(i, p1) EXCEPT !.token = t]

MCOffered ==
    {Good(i, p) : i \in Id \cup {Blank, Missing}, p \in {p1, Undefined}}
    \cup {Good(i1, big), Good(i1, p2), Good(i2, Null),
          [Good(i1, p1) EXCEPT !.context = FALSE], [Good(i1, p1) EXCEPT !.passes = FALSE]}
    \cup {With(i, t) : i \in Id, t \in Token}
    \cup {[With(i1, t1) EXCEPT !.granted = FALSE], [With(i1, t1) EXCEPT !.signed = FALSE],
          [With(i2, t2) EXCEPT !.scoped = FALSE], [With(i2, t2) EXCEPT !.payload = big]}

MCLifecycle == {Good(i1, p1), Good(i1, p2), Good(i1, big), Good(Blank, p1), Good(Missing, p1),
                With(i1, t1), With(i2, t1), [With(i1, t1) EXCEPT !.payload = p2]}
=============================================================================
