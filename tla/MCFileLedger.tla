---------------------------- MODULE MCFileLedger ----------------------------
(* Two ledger objects on one file, payloads that JSON preserves and one     *)
(* that it does not.                                                        *)
EXTENDS FileLedger, TLC

CONSTANTS l1, l2, plain, flat, date

Symmetry == Permutations(Instance)
=============================================================================
