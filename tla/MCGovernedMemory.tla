-------------------------- MODULE MCGovernedMemory --------------------------
(* Two tokens and two versions, so that a token can be given to another       *)
(* version and a span can be offered steps that are not its own.  One span:   *)
(* no call reads two.                                                         *)
EXTENDS GovernedMemory, TLC

CONSTANTS t1, t2, s1

Symmetry == Permutations(Token)
=============================================================================
