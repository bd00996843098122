---------------------------- MODULE MCUCRRuntime ----------------------------
(* A guarded and an unguarded runtime in one process: two calls on the      *)
(* first, one on the second.                                                *)
EXTENDS UCRRuntime

CONSTANTS plain, patched

MCRunId == {"r1", "r2", "r3"}
MCSpanId == {"s1", "s2", "s3"}
MCSpanOf == [r \in MCRunId |-> CASE r = "r1" -> "s1" [] r = "r2" -> "s2" [] r = "r3" -> "s3"]
MCRuntimeOf == [r \in MCRunId |-> IF r = "r3" THEN patched ELSE plain]

\* Outside the schedule of the first, which has two modes: a call may run well.
MCRunIndexes == {-1}

\* One after the other, each calls into the schedule of its own runtime.
MCDemoSchedule == [t \in {plain, patched} |->
                      IF t = plain THEN <<"random", "throw">> ELSE <<"string">>]
=============================================================================
