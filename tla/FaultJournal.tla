---------------------------- MODULE FaultJournal ----------------------------
(***************************************************************************)
(* The fault journal, the pattern ledger and the output patches' ledger as *)
(* operators on their values (packages/aaes-governance/src/faultJournal.ts *)
(* and patternLedger.ts, packages/tri-core-protocol/src/patchLedger.ts).   *)
(*                                                                         *)
(* A fault is its run, its recurrence key (recurrenceKey and buildKey make *)
(* the same key out of fault code and invariant id) and the recurrence     *)
(* count it was given.  Ids, timestamps and context snapshots are left     *)
(* out.                                                                    *)
(***************************************************************************)
EXTENDS RunStore   \* the run ids

CONSTANTS FaultKey, PatchId, Approver

Fault == [run : RunId, key : FaultKey, recurrence : Nat]

Journal == [events : Seq(Fault), counts : [FaultKey -> Nat]]

\* Also what FaultJournal.clear() leaves behind.
EmptyJournal == [events |-> <<>>, counts |-> [k \in FaultKey |-> 0]]

\* Mutants: every fault raises the same count; a fault is recorded under the
\* run of the one before it.
RecordFaultOneCount(j, r, k) ==
    LET n == Len(j.events) + 1
    IN  [events |-> Append(j.events, [run |-> r, key |-> k, recurrence |-> n]),
         counts |-> [j.counts EXCEPT ![k] = n]]

RecordFaultStaleRun(j, r, k) ==
    LET n == j.counts[k] + 1
        run == IF j.events = <<>> THEN r ELSE j.events[Len(j.events)].run
    IN  [events |-> Append(j.events, [run |-> run, key |-> k, recurrence |-> n]),
         counts |-> [j.counts EXCEPT ![k] = n]]

\* What is pushed and ingested stays when the copy to return cannot be made.
RecordFault(j, r, k) ==
    LET n == j.counts[k] + 1
    IN  [events |-> Append(j.events, [run |-> r, key |-> k, recurrence |-> n]),
         counts |-> [j.counts EXCEPT ![k] = n]]

\* Mutant: the faults of all runs.
GetByRunAll(j, r) == j.events

\* The events of run r in their order, each at its place in the journal: the
\* filter's renumbering is left out.
GetByRun(j, r) ==
    [n \in {m \in DOMAIN j.events : j.events[m].run = r} |-> j.events[n]]

Patterns == [FaultKey -> Nat]

NoPatterns == [k \in FaultKey |-> 0]

\* Mutant: a known pattern is created anew.
IngestFaultAnew(patterns, k) == [patterns EXCEPT ![k] = 1]

IngestFault(patterns, k) == [patterns EXCEPT ![k] = @ + 1]
-----------------------------------------------------------------------------
PatchStatus == {"none", "PROPOSED", "APPROVED", "DEPLOYED", "REJECTED"}

\* globalThis.patchLedger: `exists' is FALSE while it is undefined.
PatchLedger == [exists     : BOOLEAN,
                status     : [PatchId -> PatchStatus],
                approvedBy : [PatchId -> SUBSET Approver]]

\* clearPatchGlobals()
NoPatchLedger == [exists     |-> FALSE,
                  status     |-> [p \in PatchId |-> "none"],
                  approvedBy |-> [p \in PatchId |-> {}]]

\* What PatchLedger.clear() leaves behind.
EmptyPatchLedger == [NoPatchLedger EXCEPT !.exists = TRUE]

\* seedApprovedPatches(): every patch proposed, approved by all and deployed.
SeededPatchLedger == [exists     |-> TRUE,
                      status     |-> [p \in PatchId |-> "DEPLOYED"],
                      approvedBy |-> [p \in PatchId |-> Approver]]

\* propose() replaces a record that exists, with its approvals.
Propose(l, p) == [l EXCEPT !.status[p] = "PROPOSED", !.approvedBy[p] = {}]

Known(l, p) == l.status[p] # "none"

\* approve() asks neither for the status nor for a number of approvers.
Approve(l, p, a) == [l EXCEPT !.status[p] = "APPROVED", !.approvedBy[p] = @ \cup {a}]

Reject(l, p) == [l EXCEPT !.status[p] = "REJECTED"]

Deployable(l, p) == l.status[p] = "APPROVED"

MarkDeployed(l, p) == [l EXCEPT !.status[p] = "DEPLOYED"]

IsPatchDeployed(l, p) == l.exists /\ l.status[p] = "DEPLOYED"
=============================================================================
