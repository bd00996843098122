---------------------------- MODULE NodeEventLog ----------------------------
(***************************************************************************)
(* The event bus of a Lawful Nova node (nova/node/event_bus.py) and the    *)
(* substrate log it feeds (nova/node/substrate_events.py).  One emission   *)
(* writes twice: the event is appended to event-bus.jsonl; then its        *)
(* substrate twin is built, which reads the length of substrate-           *)
(* events.jsonl for the sequence number and the memory of the trace's last *)
(* event, and appended and remembered.  Whoever emits is a coroutine that  *)
(* does not await, so no other twin is built before this one is appended.  *)
(*                                                                         *)
(* The identifier of a substrate event (a fresh uuid) is modelled by its   *)
(* place in the log.  The bus has no subscriber in this repository, and    *)
(* its bounded in-memory history is only read back from it.                *)
(***************************************************************************)
EXTENDS Naturals, Sequences

CONSTANT Trace

\* tool.invoked, governance.patch_generated, tool.completed,
\* governance.receipt_verified, governance.receipt_blocked.
Channel == {"invoked", "patched", "completed", "verified", "blocked"}

\* The channels whose twin names the trace's last event: the parent of
\* Capability.Completed, appliesToEventId of Governance.Decision.
Referring == {"completed", "verified", "blocked"}

VARIABLES bus,        \* event-bus.jsonl
          substrate,  \* substrate-events.jsonl
          lastEvent   \* _TRACE_LAST_EVENTS, in memory; 0 is none

eventVars == <<bus, substrate, lastEvent>>

BusEvent == [channel : Channel, trace : Trace]
SubstrateEvent == [channel : Channel, trace : Trace, sequence : Nat, refers : Nat]

EventsTypeOK ==
    /\ bus \in Seq(BusEvent)
    /\ substrate \in Seq(SubstrateEvent)
    /\ lastEvent \in [Trace -> Nat]

EventsInit ==
    /\ bus = <<>>
    /\ substrate = <<>>
    /\ lastEvent = [t \in Trace |-> 0]

AppendEvent(ch, t) ==
    /\ bus' = Append(bus, [channel |-> ch, trace |-> t])
    /\ UNCHANGED <<substrate, lastEvent>>

\* legacy_event_to_substrate and make_substrate_event.
Twin(ch, t) == [channel |-> ch, trace |-> t,
                sequence |-> Len(substrate) + 1,
                refers |-> IF ch \in Referring THEN lastEvent[t] ELSE 0]

\* Mutant: an event type without a translation is dropped.
AppendKnownTwin(ch, t) ==
    IF ch = "patched" THEN UNCHANGED eventVars
    ELSE /\ substrate' = Append(substrate, Twin(ch, t))
         /\ lastEvent' = [lastEvent EXCEPT ![t] = Len(substrate) + 1]
         /\ bus' = bus

\* append_substrate_event and remember_trace_event.
AppendTwin(ch, t) ==
    /\ substrate' = Append(substrate, Twin(ch, t))
    /\ lastEvent' = [lastEvent EXCEPT ![t] = Len(substrate) + 1]
    /\ bus' = bus

\* A restarted process remembers no trace.
ForgetTraces ==
    /\ lastEvent' = [t \in Trace |-> 0]
    /\ UNCHANGED <<bus, substrate>>

-----------------------------------------------------------------------------
\* No two events share a sequence number and none is skipped.
SequencesArePlaces == \A i \in DOMAIN substrate : substrate[i].sequence = i

\* An event refers to an earlier one of its own trace; a completion or a verified
\* receipt always has one.
RefersBack ==
    \A i \in DOMAIN substrate :
        /\ substrate[i].channel \in {"completed", "verified"} => substrate[i].refers # 0
        /\ substrate[i].refers # 0 =>
               /\ substrate[i].refers < i
               /\ substrate[substrate[i].refers].trace = substrate[i].trace

\* The twins come in the order of the events (a channel occurs once in a trace).
SameEvent(i, k) == /\ substrate[i].channel = bus[k].channel
                   /\ substrate[i].trace = bus[k].trace
OrderKept ==
    \A i, j \in DOMAIN substrate :
        i < j => \E k, l \in DOMAIN bus : k < l /\ SameEvent(i, k) /\ SameEvent(j, l)
=============================================================================
