---------------------------- MODULE DecisionLog -----------------------------
(***************************************************************************)
(* What an enforcement node promises: each transition id is decided once,  *)
(* for one payload or against, for ever; an authority token carries a      *)
(* decision in favour only if it has never been presented before.          *)
(* `evidence' holds the decisions in favour that were put on record, each  *)
(* with the token that carried it; a decision may miss its record.         *)
(***************************************************************************)
CONSTANTS Id, Payload, Token, NoToken

Open == [kind |-> "open"]
Refused == [kind |-> "refused"]
Committed(p) == [kind |-> "committed", payload |-> p]

VARIABLES decision, spent, evidence

vars == <<decision, spent, evidence>>

Init == decision = [i \in Id |-> Open] /\ spent = {} /\ evidence = {}

Spend(t) == spent' = spent \cup ({t} \ {NoToken})

Commit(i, p, t) == /\ decision[i] = Open
                   /\ t \notin spent
                   /\ decision' = [decision EXCEPT ![i] = Committed(p)]
                   /\ evidence' \in {evidence, evidence \cup {<<i, t>>}}
                   /\ Spend(t)

Refuse(i, t) == /\ decision[i] = Open
                /\ decision' = [decision EXCEPT ![i] = Refused]
                /\ Spend(t)
                /\ UNCHANGED evidence

\* A call that decides nothing may still use its token up.
Burn(t) == Spend(t) /\ UNCHANGED <<decision, evidence>>

Next == \E t \in Token \cup {NoToken} :
            \/ Burn(t)
            \/ \E i \in Id : Refuse(i, t) \/ \E p \in Payload : Commit(i, p, t)

Spec == Init /\ [][Next]_vars
=============================================================================
