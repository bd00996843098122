--------------------------- MODULE NodeGovernance ---------------------------
(***************************************************************************)
(* The rate limit of a Lawful Nova node (lawful-nova-shell,                *)
(* nova/node/policy.py): a clock and rate-limits.jsonl, one line per call  *)
(* that got as far as the limit, blocked calls included.                   *)
(*                                                                         *)
(* The clock is the minute bucket; an hour bucket is MinutesPerHour of     *)
(* them.  _enforce_rate_limits takes the time, then get_rate_limit_state   *)
(* takes the time again and reads the log, then the line is appended with  *)
(* the first time: three moments, with other threads in between.           *)
(***************************************************************************)
EXTENDS Naturals, Sequences, FiniteSets

CONSTANTS
    Caller,
    PerMinute, PerHour,      \* per_user_per_minute, per_user_per_hour
    MinutesPerHour,
    MaxMinute                \* bound: the clock stops

ASSUME GovernanceAssumption ==
    /\ PerMinute \in Nat \ {0} /\ PerHour \in Nat \ {0}
    /\ MinutesPerHour \in Nat \ {0}
    /\ MaxMinute \in Nat

VARIABLES minute, rateLog

governanceVars == <<minute, rateLog>>

Charge == [caller : Caller, minute : 0..MaxMinute, blocked : BOOLEAN]

GovernanceTypeOK ==
    /\ minute \in 0..MaxMinute
    /\ rateLog \in Seq(Charge)

GovernanceInit ==
    /\ minute = 0
    /\ rateLog = <<>>

HourOf(m) == m \div MinutesPerHour

\* The lines of the log that count against a caller at time m.
InMinute(c, m) == {i \in DOMAIN rateLog : /\ rateLog[i].caller = c
                                          /\ rateLog[i].minute = m}
InHour(c, m) == {i \in DOMAIN rateLog : /\ rateLog[i].caller = c
                                        /\ HourOf(rateLog[i].minute) = HourOf(m)}

\* The verdict on a caller whose state is read now.
OverLimit(c) == \/ Cardinality(InMinute(c, minute)) >= PerMinute
                \/ Cardinality(InHour(c, minute)) >= PerHour

\* Mutant: only a refusal leaves a line.
RecordRefusals(c, stamp, blocked) ==
    rateLog' = IF blocked
        THEN Append(rateLog, [caller |-> c, minute |-> stamp, blocked |-> blocked])
        ELSE rateLog

\* The line a call leaves, with the time taken before the log was read.
Record(c, stamp, blocked) ==
    rateLog' = Append(rateLog, [caller |-> c, minute |-> stamp, blocked |-> blocked])

Tick ==
    /\ minute < MaxMinute
    /\ minute' = minute + 1
    /\ rateLog' = rateLog
=============================================================================
