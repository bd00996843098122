-------------------------- MODULE EnforcementNode ---------------------------
(***************************************************************************)
(* One ConstitutionalEnforcementNode (CEN, packages/constitutional-        *)
(* enforcement-node/src/index.ts) and the Transition Validation Pipeline   *)
(* in front of it (packages/transition-validation-pipeline/src/index.ts).  *)
(*                                                                         *)
(* GatedSpec: callers use execute and runTransitionPipeline.               *)
(* Spec: actors also use the public lifecycle methods evaluate, allow and  *)
(* deny; what an actor was given by evaluate stays valid for any number of *)
(* later calls, and other calls come in between.                           *)
(*                                                                         *)
(* The invariants of a node are functions of the transition: `passes' says *)
(* whether all of them pass.  The action a failed one names (FREEZE,       *)
(* MANDATORY_REVIEW) is recorded by the code and never acted on.           *)
(***************************************************************************)
EXTENDS Naturals, Sequences, FiniteSets

CONSTANTS
    Id,                  \* non-blank transition ids
    Blank, Missing,      \* an id that trims to '', and no id at all
    Payload,
    Null, Undefined,     \* payloads that are none
    Unhashable,          \* the payloads on which hashJson throws (a BigInt...)
    Token, NoToken,
    BoundTo,             \* the transition each token was issued for
    Offered,             \* the transitions callers propose
    Actor, NoEvaluation,
    MaxResults           \* bound: calls that return or throw

ASSUME NodeAssumption ==
    /\ {Blank, Missing} \cap Id = {} /\ Blank # Missing
    /\ {Null, Undefined} \cap Payload = {} /\ Null # Undefined
    /\ Unhashable \subseteq Payload
    /\ NoToken \notin Token
    /\ BoundTo \in [Token -> Id]
    /\ MaxResults \in Nat

Reasons == {"MALFORMED_TRANSITION", "REPLAY_DETECTED", "CAPABILITY_DENIED",
            "TOKEN_REPLAYED", "TOKEN_INVALID_SIGNATURE", "TOKEN_EXPIRED",
            "TOKEN_TRANSITION_MISMATCH", "TOKEN_SCOPE_DENIED",
            "INVARIANT_VIOLATION", "ALLOWED"}

\* context: is context.runtimeContext.capabilities an array; granted, scoped:
\* are the requested capabilities among the context's, the token's.
Transition == [id : Id \cup {Blank, Missing}, payload : Payload \cup {Null, Undefined},
               context : BOOLEAN, granted : BOOLEAN, passes : BOOLEAN,
               token : Token \cup {NoToken}, signed : BOOLEAN, scoped : BOOLEAN]

ASSUME OfferedAssumption == Offered \subseteq Transition

Receipt == [id : Id \cup {Blank}, payload : Payload \cup {Null},
            token : Token \cup {NoToken}, reason : Reasons]

Result == [id : Id \cup {Blank, Missing}, threw : BOOLEAN, committed : BOOLEAN,
           receipt : BOOLEAN]

Evaluation == [transition : Transition, reason : Reasons]

VARIABLES
    stateStore,  \* Undefined where nothing was committed
    ledger,      \* the receipts
    seen,        \* seenTransitions
    used,        \* usedAuthorityTokens
    expired,     \* the tokens whose expiresAt has passed
    held,        \* what evaluate returned to each actor
    results      \* how the calls of execute, allow, deny and the pipeline ended

node == <<stateStore, ledger, seen, used>>
vars == <<node, expired, held, results>>

TypeOK ==
    /\ stateStore \in [Id -> Payload \cup {Undefined}]
    /\ ledger \in Seq(Receipt)
    /\ seen \subseteq Id
    /\ used \subseteq Token
    /\ expired \subseteq Token
    /\ held \in [Actor -> Evaluation \cup {NoEvaluation}]
    /\ results \in Seq(Result)

Init ==
    /\ stateStore = [i \in Id |-> Undefined]
    /\ ledger = <<>>
    /\ seen = {}
    /\ used = {}
    /\ expired = {}
    /\ held = [a \in Actor |-> NoEvaluation]
    /\ results = <<>>
-----------------------------------------------------------------------------
\* validateTransition of the pipeline: it asks for a context, not for its
\* capabilities.
PreValid(x) == x.id \in Id /\ x.payload \in Payload

\* validateTransitionShape of the node.
WellFormed(x) == x.id \in Id /\ x.context /\ x.payload \in Payload

\* Mutant: a token is never found replayed.
TokenReasonNoReplay(x) ==
    IF x.token = NoToken THEN "ALLOWED"
    ELSE IF ~x.signed THEN "TOKEN_INVALID_SIGNATURE"
    ELSE IF x.token \in expired THEN "TOKEN_EXPIRED"
    ELSE IF BoundTo[x.token] # x.id THEN "TOKEN_TRANSITION_MISMATCH"
    ELSE IF ~x.scoped THEN "TOKEN_SCOPE_DENIED"
    ELSE "ALLOWED"

\* validateAuthorityToken
TokenReason(x) ==
    IF x.token = NoToken THEN "ALLOWED"
    ELSE IF x.token \in used THEN "TOKEN_REPLAYED"
    ELSE IF ~x.signed THEN "TOKEN_INVALID_SIGNATURE"
    ELSE IF x.token \in expired THEN "TOKEN_EXPIRED"
    ELSE IF BoundTo[x.token] # x.id THEN "TOKEN_TRANSITION_MISMATCH"
    ELSE IF ~x.scoped THEN "TOKEN_SCOPE_DENIED"
    ELSE "ALLOWED"

\* Mutant: capabilities are looked at before replays.
ReasonReplayLast(x) ==
    IF ~WellFormed(x) THEN "MALFORMED_TRANSITION"
    ELSE IF ~x.granted THEN "CAPABILITY_DENIED"
    ELSE IF TokenReason(x) # "ALLOWED" THEN TokenReason(x)
    ELSE IF x.id \in seen THEN "REPLAY_DETECTED"
    ELSE IF ~x.passes THEN "INVARIANT_VIOLATION"
    ELSE "ALLOWED"

\* The reason code of evaluate's decision; its verdict is ALLOW for ALLOWED and
\* DENY for all others.
Reason(x) ==
    IF ~WellFormed(x) THEN "MALFORMED_TRANSITION"
    ELSE IF x.id \in seen THEN "REPLAY_DETECTED"
    ELSE IF ~x.granted THEN "CAPABILITY_DENIED"
    ELSE IF TokenReason(x) # "ALLOWED" THEN TokenReason(x)
    ELSE IF ~x.passes THEN "INVARIANT_VIOLATION"
    ELSE "ALLOWED"
-----------------------------------------------------------------------------
\* createReceipt hashes the payload; there is nothing to hash in Undefined.
Hashable(p) == p \notin Unhashable \cup {Undefined}

Answer(x, threw, committed, receipt) ==
    /\ Len(results) < MaxResults
    /\ results' = Append(results, [id |-> x.id, threw |-> threw,
                                   committed |-> committed, receipt |-> receipt])

\* What finish does to the state store and to the two memories, and their
\* mutants: store whatever the decision; forget; spend only
\* the token of an allowed transition.
StoreAlways(x, committed) ==
    IF x.id \in Id THEN [stateStore EXCEPT ![x.id] = x.payload] ELSE stateStore

Store(x, committed) ==
    IF committed THEN [stateStore EXCEPT ![x.id] = x.payload] ELSE stateStore

SeeNothing(x) == seen

See(x) == seen \cup ({x.id} \ {Blank})

SpendAllowed(x, reason) ==
    IF reason # "ALLOWED" THEN used ELSE used \cup ({x.token} \ {NoToken})

Spend(x, reason) ==
    IF reason = "TOKEN_REPLAYED" THEN used ELSE used \cup ({x.token} \ {NoToken})

\* finish: store, remember the id, remember the token, write the receipt.  A
\* missing id throws at its trim(), an unhashable payload only at the receipt,
\* when the rest is done.
Finish(x, reason, requestedCommit) ==
    LET committed == requestedCommit /\ reason = "ALLOWED"
    IN
    \/ /\ x.id = Missing
       /\ Answer(x, TRUE, FALSE, FALSE)
       /\ UNCHANGED node
    \/ /\ x.id # Missing
       /\ stateStore' = Store(x, committed)
       /\ seen' = See(x)
       /\ used' = Spend(x, reason)
       /\ IF Hashable(x.payload)
          THEN /\ ledger' = Append(ledger, [id |-> x.id, payload |-> x.payload,
                                            token |-> x.token, reason |-> reason])
               /\ Answer(x, FALSE, committed, TRUE)
          ELSE /\ Answer(x, TRUE, FALSE, FALSE)
               /\ UNCHANGED ledger

execute(x) == /\ Finish(x, Reason(x), Reason(x) = "ALLOWED")
              /\ UNCHANGED <<expired, held>>

\* A transition that fails the structural check is answered by the pipeline
\* itself: blocked, stages naming a receipt, and none written.
runTransitionPipeline(x) ==
    \/ PreValid(x) /\ execute(x)
    \/ /\ ~PreValid(x)
       /\ Answer(x, FALSE, FALSE, FALSE)
       /\ UNCHANGED <<node, expired, held>>

evaluate(a, x) == /\ held' = [held EXCEPT ![a] = [transition |-> x, reason |-> Reason(x)]]
                  /\ UNCHANGED <<node, expired, results>>

allow(a) == /\ held[a] # NoEvaluation
            /\ Finish(held[a].transition, held[a].reason, TRUE)
            /\ UNCHANGED <<expired, held>>

deny(a) == /\ held[a] # NoEvaluation
           /\ Finish(held[a].transition, held[a].reason, FALSE)
           /\ UNCHANGED <<expired, held>>

\* The clock passes the expiry of token t.
Expire(t) == /\ t \notin expired
             /\ expired' = expired \cup {t}
             /\ UNCHANGED <<node, held, results>>

GatedNext == \/ \E x \in Offered : execute(x) \/ runTransitionPipeline(x)
             \/ \E t \in Token : Expire(t)

Next == \/ GatedNext
        \/ \E a \in Actor, x \in Offered : evaluate(a, x)
        \/ \E a \in Actor : allow(a) \/ deny(a)

GatedSpec == Init /\ [][GatedNext]_vars
Spec == Init /\ [][Next]_vars
-----------------------------------------------------------------------------
(* Properties of both specifications.                                       *)

Stored(i) == stateStore[i] # Undefined

\* The replay memory never lags behind the evidence: an id with a receipt or a
\* stored payload is seen, and a token named by a receipt is used up, however
\* calls interleave and wherever finish throws.
MemoryCoversLedger ==
    /\ \A n \in DOMAIN ledger :
          /\ ledger[n].id \in seen \cup {Blank}
          /\ ledger[n].token \in used \cup {NoToken}
    /\ \A i \in Id : Stored(i) => i \in seen

\* A stored payload that can be hashed has a receipt that allows it.
StoredHasReceipt ==
    \A i \in Id : Stored(i) /\ Hashable(stateStore[i]) =>
        \E n \in DOMAIN ledger : /\ ledger[n].id = i
                                 /\ ledger[n].payload = stateStore[i]
                                 /\ ledger[n].reason = "ALLOWED"

(* Properties of GatedSpec.                                                 *)

\* Only the first receipt of an id can be a decision: every later one refuses
\* it as a replay or as malformed.
DecidedOnce ==
    \A m, n \in DOMAIN ledger :
        m < n /\ ledger[m].id = ledger[n].id =>
            ledger[n].reason \in {"REPLAY_DETECTED", "MALFORMED_TRANSITION"}

\* A token that carries an ALLOW was never named by an earlier receipt, on
\* whichever transition, and even if that one was refused for another reason.
TokenFirstUse ==
    \A m, n \in DOMAIN ledger :
        m < n /\ ledger[n].reason = "ALLOWED" /\ ledger[m].token # NoToken =>
            ledger[m].token # ledger[n].token

\* The ledger's ALLOW receipts and the state store tell the same story.
AllowedIsStored ==
    \A n \in DOMAIN ledger :
        ledger[n].reason = "ALLOWED" => stateStore[ledger[n].id] = ledger[n].payload

\* Each id is decided once and for all, and no ALLOW receipt names a token that
\* was presented before: the node implements the decision log.
DecisionOf(i) == IF Stored(i) THEN [kind |-> "committed", payload |-> stateStore[i]]
                 ELSE IF i \in seen THEN [kind |-> "refused"] ELSE [kind |-> "open"]

Evidence == {<<ledger[n].id, ledger[n].token>> :
                n \in {m \in DOMAIN ledger : ledger[m].reason = "ALLOWED"}}

Log == INSTANCE DecisionLog WITH decision <- [i \in Id |-> DecisionOf(i)],
                                 spent <- used, evidence <- Evidence

ImplementsDecisionLog == Log!Spec

(* What the documents claim of every use of the node.                       *)

\* docs/proof/platform/PROOF_2_4.md: "CEN replay detection prevents duplicate
\* transition IDs from committing more than once."
NoDuplicateCommit ==
    \A m, n \in DOMAIN results :
        results[m].committed /\ results[n].committed /\ results[m].id = results[n].id
            => m = n
=============================================================================
