----------------------------- MODULE MCLawSpine -----------------------------
(* Two roots that share nothing, an input that is refused, and two objects    *)
(* that no boot builds: the hash of one root over the parts of the other, and *)
(* malformed corridors.  Of three corridors of the spine one is unknown to    *)
(* it; each of the others has one capability of the two.                      *)
EXTENDS LawSpine

CONSTANTS m1, m2, ucr, blank, operations, lawEvolution, unknown, execute, mutate

MCParts(m) == [part \in Part |-> m]
MCBootInput == {MCParts(m1), MCParts(m2), [MCParts(m1) EXCEPT !["kernel"] = Malformed]}
MCSealable == {[parts |-> MCParts(m2), hash |-> MCParts(m1)],
               [parts |-> [MCParts(m1) EXCEPT !["corridors"] = Malformed],
                hash |-> MCParts(m1)]}
MCNamedHash == {MCParts(m1), MCParts(m2)}
MCGranted == [c \in {operations, lawEvolution} |->
                  IF c = operations THEN {execute} ELSE {mutate}]

\* No call reads both halves: one is at rest while the other is explored.
OneHalf == \/ level = 3 /\ quarantined \cup anomalous = {}
           \/ sealed = NoRoot /\ tokens = {} /\ clock = 0
=============================================================================
