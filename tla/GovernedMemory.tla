--------------------------- MODULE GovernedMemory ---------------------------
(***************************************************************************)
(* Tri-Strata governed memory (packages/governed-memory): the chain of     *)
(* intents, the ledger of authority tokens and the execution spans, behind *)
(* the facade that clients call.  Every call is synchronous, so it is one  *)
(* action; the order in which clients make them is free.                   *)
(*                                                                         *)
(* revoke, terminate and fault have no verb in the facade: clients call    *)
(* the ledger and the span manager themselves, whose recordTrace asks no   *)
(* governance.  A content hash covers the version of its record, so the    *)
(* version stands for it; an intent a client has edited no longer has the  *)
(* hash it was stored with.  The ledgers and the span manager hand out the *)
(* records they store, and what clients may do to these is modelled too.   *)
(***************************************************************************)
EXTENDS Naturals, Sequences

CONSTANTS
    Token, Span,
    MaxVersions, MaxSteps     \* bounds: of the chain, of a span's trace

ASSUME MemoryAssumption == MaxVersions \in Nat /\ MaxSteps \in Nat

VARIABLES
    intents,    \* the chain of IntentRecords
    tokens,     \* AuthorityToken by id
    spans       \* ExecutionSpan by id

vars == <<intents, tokens, spans>>

Version == 1..MaxVersions
Intent == [version : Version, prev : 0..MaxVersions, edited : BOOLEAN]
NoToken == [issued |-> FALSE, version |-> 0, revoked |-> FALSE]
TokenRecord == [issued : BOOLEAN, version : 0..MaxVersions, revoked : BOOLEAN]

\* empty: the step's content is the empty string.
TraceStep == [version : Version, token : Token, empty : BOOLEAN]
Terminal == {"completed", "terminated", "faulted"}
SpanRecord == [state : {"none", "active"} \cup Terminal,
               version : 0..MaxVersions, token : Token \cup {"none"},
               trace : Seq(TraceStep),
               edited : BOOLEAN]       \* by a client that holds the record
NoSpan == [state |-> "none", version |-> 0, token |-> "none", trace |-> <<>>,
           edited |-> FALSE]

Init ==
    /\ intents = <<>>
    /\ tokens = [t \in Token |-> NoToken]
    /\ spans = [s \in Span |-> NoSpan]

-----------------------------------------------------------------------------
(* Intents *)

Latest == IF intents = <<>> THEN 0 ELSE intents[Len(intents)].version

CreateIntent ==
    /\ Len(intents) < MaxVersions
    /\ intents' = Append(intents,
         [version |-> Latest + 1, prev |-> Latest, edited |-> FALSE])
    /\ UNCHANGED <<tokens, spans>>

\* append and getVersion hand out the record of the chain itself, with its
\* arrays: a client that adds a constraint edits the chain, and mends it by
\* taking the constraint away.  Edits are of what only the hash reads.
EditIntent(v) ==
    /\ v \in DOMAIN intents
    /\ intents' = [intents EXCEPT ![v].edited = ~@]
    /\ UNCHANGED <<tokens, spans>>

HasVersion(v) == \E i \in DOMAIN intents : intents[i].version = v

VerifyChain ==
    \A i \in DOMAIN intents :
        /\ intents[i].prev = IF i = 1 THEN 0 ELSE intents[i - 1].version
        /\ ~intents[i].edited

-----------------------------------------------------------------------------
(* Authority *)

\* The version need not exist yet, and an id that is given again replaces its
\* token, revoked or not.
IssueAuthority(t, v) ==
    /\ tokens' = [tokens EXCEPT ![t] = [issued |-> TRUE, version |-> v, revoked |-> FALSE]]
    /\ UNCHANGED <<intents, spans>>

Revoke(t) ==
    /\ tokens[t].issued /\ ~tokens[t].revoked
    /\ tokens' = [tokens EXCEPT ![t].revoked = TRUE]
    /\ UNCHANGED <<intents, spans>>

\* issue and get hand out the stored token: a client may bind it to another
\* version, revoke it, or take a revocation back.  No signature is read again.
EditToken(t, v, revoked) ==
    /\ tokens[t].issued
    /\ tokens' = [tokens EXCEPT ![t].version = v, ![t].revoked = revoked]
    /\ UNCHANGED <<intents, spans>>

-----------------------------------------------------------------------------
(* Governance *)

\* validateAuthorityBinding: neither the time limit nor the capabilities of the
\* token are looked at.
Bound(t, v) == /\ tokens[t].issued
               /\ ~tokens[t].revoked
               /\ tokens[t].version = v

\* checkIntentAlignment
Aligned(v) == HasVersion(v) /\ VerifyChain

\* validateTraceStep of a step with a justification
Governed(v, t) == Aligned(v) /\ Bound(t, v)

-----------------------------------------------------------------------------
(* Spans *)

\* Nothing is looked at: the version and the token may be unknown or revoked.
StartSpan(s, v, t) ==
    /\ spans[s].state = "none"
    /\ spans' = [spans EXCEPT ![s] =
         [state |-> "active", version |-> v, token |-> t, trace |-> <<>>,
          edited |-> FALSE]]
    /\ UNCHANGED <<intents, tokens>>

AddStep(s, step) ==
    /\ Len(spans[s].trace) < MaxSteps
    /\ spans' = [spans EXCEPT ![s].trace = Append(@, step)]
    /\ UNCHANGED <<intents, tokens>>

\* Mutants: the bindings of the span are not compared; its state is not looked at.
SpanRecordAnyTrace(s, step) ==
    /\ spans[s].state = "active"
    /\ AddStep(s, step)
SpanRecordEnded(s, step) ==
    /\ spans[s].state # "none"
    /\ spans[s].version = step.version /\ spans[s].token = step.token
    /\ AddStep(s, step)

\* recordTrace of the span manager: the state and the bindings of the span are
\* compared; whether token and version are good is not its question.
SpanRecordTrace(s, step) ==
    /\ spans[s].state = "active"
    /\ spans[s].version = step.version /\ spans[s].token = step.token
    /\ AddStep(s, step)

\* recordTrace of the facade, which validates the step first.
RecordTrace(s, step) ==
    /\ Governed(step.version, step.token)
    /\ SpanRecordTrace(s, step)

\* complete, terminate, fault: the state of the span does not matter.
EndSpan(s, state) ==
    /\ spans[s].state # "none"
    /\ spans' = [spans EXCEPT ![s].state = state]
    /\ UNCHANGED <<intents, tokens>>

\* startSpan, recordTrace, get and the calls that end a span hand out the stored
\* record with its array of steps: one field at a time, a client may change it.
EditSpan(s) ==
    /\ spans[s].state # "none"
    /\ \/ \E state \in {"active"} \cup Terminal :
             spans' = [spans EXCEPT ![s].state = state, ![s].edited = TRUE]
       \/ \E v \in Version :
             spans' = [spans EXCEPT ![s].version = v, ![s].edited = TRUE]
       \/ \E t \in Token :
             spans' = [spans EXCEPT ![s].token = t, ![s].edited = TRUE]
       \/ spans' = [spans EXCEPT ![s].trace = <<>>, ![s].edited = TRUE]
       \/ \E step \in TraceStep :
             /\ Len(spans[s].trace) < MaxSteps
             /\ spans' = [spans EXCEPT ![s].trace = Append(@, step), ![s].edited = TRUE]
    /\ UNCHANGED <<intents, tokens>>

\* replay: the steps are validated again, against the ledgers as they are now;
\* a step without content, which recordTrace takes, is a drift here.
ReplaysWell(s) ==
    \A i \in DOMAIN spans[s].trace :
        LET step == spans[s].trace[i] IN
        Governed(step.version, step.token) /\ ~step.empty

-----------------------------------------------------------------------------
Next ==
    \/ CreateIntent
    \/ \E v \in Version : EditIntent(v)
    \/ \E t \in Token :
          \/ Revoke(t)
          \/ \E v \in Version :
                \/ IssueAuthority(t, v)
                \/ \E revoked \in BOOLEAN : EditToken(t, v, revoked)
    \/ \E s \in Span :
          \/ EditSpan(s)
          \/ \E state \in Terminal : EndSpan(s, state)
          \/ \E v \in Version, t \in Token : StartSpan(s, v, t)
          \/ \E step \in TraceStep : SpanRecordTrace(s, step) \/ RecordTrace(s, step)

Spec == Init /\ [][Next]_vars
-----------------------------------------------------------------------------
TypeOK ==
    /\ intents \in Seq(Intent)
    /\ tokens \in [Token -> TokenRecord]
    /\ spans \in [Span -> SpanRecord]

\* Whatever clients have called since, what replay says of a span none of them
\* has edited is decided by the token and the version the span was started with,
\* as the ledgers have them now: no other token, no later intent and no end of
\* the span has a part in it, however its steps were recorded (replay,
\* validateTraceStep, recordTrace of the span manager).
ReplayIsOfTheSpan ==
    \A s \in Span : spans[s].trace # <<>> /\ ~spans[s].edited =>
        (ReplaysWell(s) <=>
            /\ Governed(spans[s].version, spans[s].token)
            /\ \A i \in DOMAIN spans[s].trace : ~spans[s].trace[i].empty)

\* A span no client has edited keeps its bindings and its steps, gains steps one
\* by one, each with those bindings, and only while it is active; once ended it
\* is never active again (startSpan, recordTrace, _terminal).  Whether the token
\* was live is no part of it: the span manager records without governance.
SpansKeepTheirBindings == [][
    \A s \in Span : ~spans'[s].edited =>
        /\ spans[s].trace # spans'[s].trace =>
              /\ spans[s].state = "active"
              /\ \E step \in TraceStep :
                    /\ spans'[s].trace = Append(spans[s].trace, step)
                    /\ step.version = spans[s].version /\ step.token = spans[s].token
        /\ spans[s].state # "none" =>
              /\ spans'[s].version = spans[s].version
              /\ spans'[s].token = spans[s].token
        /\ spans[s].state \in Terminal => spans'[s].state \in Terminal]_vars
=============================================================================
