----------------------- MODULE EnforcementNodeProofs ------------------------
(***************************************************************************)
(* A gated enforcement node decides every transition once and spends every *)
(* token once, whatever is offered to it: for any sets of ids, payloads,   *)
(* tokens and transitions, and with payloads that cannot be hashed.        *)
(***************************************************************************)
EXTENDS EnforcementNode, TLAPS

IInv == /\ TypeOK
        /\ MemoryCoversLedger
        /\ DecidedOnce
        /\ TokenFirstUse
        /\ AllowedIsStored

\* A reason code is one of the listed ones.
LEMMA ReasonTyped == \A x : Reason(x) \in Reasons
BY DEF Reason, Reasons, TokenReason

\* evaluate allows only a well-formed transition that has not been seen, with a
\* token that has not been used.
LEMMA AllowedIsFresh ==
    ASSUME NEW x \in Transition, Reason(x) = "ALLOWED"
    PROVE  /\ x.id \in Id \ seen
           /\ x.payload \in Payload
           /\ x.token \notin used \ {NoToken}
BY DEF Reason, WellFormed, TokenReason

\* An id that has been seen, or is none, is refused as a replay or as malformed.
LEMMA SeenIsRefused ==
    ASSUME NEW x \in Transition, x.id \in seen \cup {Blank}
    PROVE  Reason(x) \in {"REPLAY_DETECTED", "MALFORMED_TRANSITION"}
BY NodeAssumption DEF Reason, WellFormed

\* A token is left out of the used ones only if it is there already.
LEMMA SpentOrUsed ==
    ASSUME NEW x \in Transition
    PROVE  Spend(x, Reason(x)) = used \cup ({x.token} \ {NoToken})
BY DEF Spend, Reason, TokenReason

\* The receipt a call writes.
ReceiptOf(x) == [id |-> x.id, payload |-> x.payload, token |-> x.token,
                 reason |-> Reason(x)]

\* The effect of execute on the node: none when the id is missing; otherwise
\* store and memories move, and the ledger stays or takes one receipt.
LEMMA ExecuteEffect ==
    ASSUME TypeOK, NEW x \in Transition, execute(x)
    PROVE  /\ expired' = expired /\ held' = held
           /\ Len(results) < MaxResults
           /\ results' \in Seq(Result)
           /\ \/ UNCHANGED node
              \/ /\ x.id \in Id \cup {Blank}
                 /\ stateStore' = IF Reason(x) = "ALLOWED"
                                  THEN [stateStore EXCEPT ![x.id] = x.payload]
                                  ELSE stateStore
                 /\ seen' = seen \cup ({x.id} \ {Blank})
                 /\ used' = used \cup ({x.token} \ {NoToken})
                 /\ \/ ledger' = ledger
                    \/ /\ ReceiptOf(x) \in Receipt
                       /\ ledger' = Append(ledger, ReceiptOf(x))
<1>1. /\ expired' = expired /\ held' = held
      /\ Finish(x, Reason(x), Reason(x) = "ALLOWED")
    BY DEF execute
<1>2. ASSUME NEW t \in BOOLEAN, NEW c \in BOOLEAN, NEW r \in BOOLEAN, Answer(x, t, c, r)
      PROVE  Len(results) < MaxResults /\ results' \in Seq(Result)
    BY <1>2 DEF Answer, TypeOK, Result, Transition
<1>3. CASE x.id = Missing /\ Answer(x, TRUE, FALSE, FALSE) /\ UNCHANGED node
    BY <1>1, <1>2, <1>3
<1>4. CASE /\ x.id # Missing
           /\ stateStore' = Store(x, Reason(x) = "ALLOWED")
           /\ seen' = See(x)
           /\ used' = Spend(x, Reason(x))
           /\ IF Hashable(x.payload)
              THEN /\ ledger' = Append(ledger, ReceiptOf(x))
                   /\ Answer(x, FALSE, Reason(x) = "ALLOWED", TRUE)
              ELSE Answer(x, TRUE, FALSE, FALSE) /\ UNCHANGED ledger
    <2>1. x.id \in Id \cup {Blank}
        BY <1>4 DEF Transition
    <2>2. Hashable(x.payload) => ReceiptOf(x) \in Receipt
        BY <2>1, ReasonTyped DEF Hashable, ReceiptOf, Receipt, Transition
    <2>3. Len(results) < MaxResults /\ results' \in Seq(Result)
        BY <1>2, <1>4
    <2>4. \/ ledger' = ledger
          \/ ReceiptOf(x) \in Receipt /\ ledger' = Append(ledger, ReceiptOf(x))
        BY <1>4, <2>2
    <2> QED
        BY <1>1, <1>4, <2>1, <2>3, <2>4, SpentOrUsed DEF Store, See
<1> QED
    BY <1>1, <1>3, <1>4 DEF Finish, ReceiptOf
-----------------------------------------------------------------------------
\* execute preserves the invariant.
LEMMA ExecuteSafe ==
    ASSUME IInv, NEW x \in Offered, execute(x)
    PROVE  IInv'
<1>1. x \in Transition
    BY OfferedAssumption
<1>2. /\ expired' = expired /\ held' = held
      /\ results' \in Seq(Result)
    BY <1>1, ExecuteEffect DEF IInv
<1>3. CASE UNCHANGED node
    BY <1>2, <1>3 DEF IInv, TypeOK, MemoryCoversLedger, DecidedOnce, TokenFirstUse,
                      AllowedIsStored, Stored, node
<1>4. CASE /\ x.id \in Id \cup {Blank}
           /\ stateStore' = IF Reason(x) = "ALLOWED"
                            THEN [stateStore EXCEPT ![x.id] = x.payload]
                            ELSE stateStore
           /\ seen' = seen \cup ({x.id} \ {Blank})
           /\ used' = used \cup ({x.token} \ {NoToken})
           /\ \/ ledger' = ledger
              \/ ReceiptOf(x) \in Receipt /\ ledger' = Append(ledger, ReceiptOf(x))
    <2>1. TypeOK'
        <3>1. stateStore' \in [Id -> Payload \cup {Undefined}]
            BY <1>1, <1>4, AllowedIsFresh DEF IInv, TypeOK
        <3>2. ledger' \in Seq(Receipt)
            BY <1>4 DEF IInv, TypeOK
        <3>3. seen' \subseteq Id /\ used' \subseteq Token
            BY <1>1, <1>4 DEF IInv, TypeOK, Transition
        <3> QED
            BY <1>2, <3>1, <3>2, <3>3 DEF IInv, TypeOK
    <2> DEFINE n0 == Len(ledger) + 1
    <2>2. ASSUME ledger' # ledger
          PROVE  /\ Len(ledger) \in Nat
                 /\ DOMAIN ledger = 1 .. Len(ledger)
                 /\ DOMAIN ledger' = 1 .. n0
                 /\ \A m \in 1 .. Len(ledger) : ledger'[m] = ledger[m]
                 /\ ledger'[n0] = ReceiptOf(x)
        <3>1. ledger \in Seq(Receipt)
            BY DEF IInv, TypeOK
        <3>2. ReceiptOf(x) \in Receipt /\ ledger' = Append(ledger, ReceiptOf(x))
            BY <1>4, <2>2
        <3> HIDE DEF ReceiptOf, Receipt
        <3> QED
            BY <3>1, <3>2
    <2>3. /\ ReceiptOf(x).id = x.id /\ ReceiptOf(x).token = x.token
          /\ ReceiptOf(x).payload = x.payload /\ ReceiptOf(x).reason = Reason(x)
        BY DEF ReceiptOf
    <2>4. MemoryCoversLedger'
        <3>1. \A i \in Id : Stored(i)' => i \in seen'
            BY <1>1, <1>4, AllowedIsFresh, NodeAssumption
               DEF IInv, TypeOK, MemoryCoversLedger, Stored
        <3>2. seen \subseteq seen' /\ used \subseteq used'
            BY <1>4
        <3>3. CASE ledger' = ledger
            BY <3>1, <3>2, <3>3 DEF IInv, MemoryCoversLedger
        <3>4. CASE ledger' # ledger
            <4>1. ASSUME NEW n \in 1 .. n0
                  PROVE  /\ ledger'[n].id \in seen' \cup {Blank}
                         /\ ledger'[n].token \in used' \cup {NoToken}
                BY <1>4, <2>2, <2>3, <3>2, <3>4 DEF IInv, MemoryCoversLedger
            <4> QED
                BY <2>2, <3>1, <3>4, <4>1 DEF MemoryCoversLedger
        <3> QED
            BY <3>3, <3>4
    <2>5. DecidedOnce'
        <3>1. CASE ledger' = ledger
            BY <3>1 DEF IInv, DecidedOnce
        <3>2. CASE ledger' # ledger
            <4>1. SUFFICES ASSUME NEW m \in 1 .. n0, NEW n \in 1 .. n0,
                                  m < n, ledger'[m].id = ledger'[n].id
                           PROVE  ledger'[n].reason \in
                                      {"REPLAY_DETECTED", "MALFORMED_TRANSITION"}
                BY <2>2, <3>2 DEF DecidedOnce
            <4>2. m \in 1 .. Len(ledger)
                BY <2>2, <3>2, <4>1
            <4>3. CASE n = n0
                <5>1. ledger[m].id = x.id
                    BY <2>2, <2>3, <3>2, <4>1, <4>2, <4>3
                <5>2. x.id \in seen \cup {Blank}
                    BY <2>2, <3>2, <4>2, <5>1 DEF IInv, MemoryCoversLedger
                <5> QED
                    BY <1>1, <2>2, <2>3, <3>2, <4>3, <5>2, SeenIsRefused
            <4>4. CASE n # n0
                <5>1. n \in 1 .. Len(ledger)
                    BY <2>2, <3>2, <4>4
                <5> QED
                    BY <2>2, <3>2, <4>1, <4>2, <5>1 DEF IInv, DecidedOnce
            <4> QED
                BY <4>3, <4>4
        <3> QED
            BY <3>1, <3>2
    <2>6. TokenFirstUse'
        <3>1. CASE ledger' = ledger
            BY <3>1 DEF IInv, TokenFirstUse
        <3>2. CASE ledger' # ledger
            <4>1. SUFFICES ASSUME NEW m \in 1 .. n0, NEW n \in 1 .. n0, m < n,
                                  ledger'[n].reason = "ALLOWED",
                                  ledger'[m].token # NoToken
                           PROVE  ledger'[m].token # ledger'[n].token
                BY <2>2, <3>2 DEF TokenFirstUse
            <4>2. m \in 1 .. Len(ledger)
                BY <2>2, <3>2, <4>1
            <4>3. CASE n = n0
                <5>1. ledger[m].token \in used
                    BY <2>2, <3>2, <4>1, <4>2 DEF IInv, MemoryCoversLedger
                <5>2. x.token \notin used \ {NoToken}
                    BY <1>1, <2>2, <2>3, <3>2, <4>1, <4>3, AllowedIsFresh
                <5> QED
                    BY <2>2, <2>3, <3>2, <4>1, <4>2, <4>3, <5>1, <5>2
            <4>4. CASE n # n0
                <5>1. n \in 1 .. Len(ledger)
                    BY <2>2, <3>2, <4>4
                <5> QED
                    BY <2>2, <3>2, <4>1, <4>2, <5>1 DEF IInv, TokenFirstUse
            <4> QED
                BY <4>3, <4>4
        <3> QED
            BY <3>1, <3>2
    <2>7. AllowedIsStored'
        <3>1. ASSUME NEW n \in DOMAIN ledger, ledger[n].reason = "ALLOWED"
              PROVE  stateStore'[ledger[n].id] = ledger[n].payload
            <4>1. stateStore[ledger[n].id] = ledger[n].payload
                BY <3>1 DEF IInv, AllowedIsStored
            <4>2. ledger[n].id \in seen \cup {Blank}
                BY <3>1 DEF IInv, MemoryCoversLedger
            <4> QED
                BY <1>1, <1>4, <4>1, <4>2, AllowedIsFresh, NodeAssumption
                   DEF IInv, TypeOK
        <3>2. CASE ledger' = ledger
            BY <3>1, <3>2 DEF AllowedIsStored
        <3>3. CASE ledger' # ledger
            <4>1. SUFFICES ASSUME NEW n \in 1 .. n0, ledger'[n].reason = "ALLOWED"
                           PROVE  stateStore'[ledger'[n].id] = ledger'[n].payload
                BY <2>2, <3>3 DEF AllowedIsStored
            <4>2. CASE n = n0
                BY <1>1, <1>4, <2>2, <2>3, <3>3, <4>1, <4>2, AllowedIsFresh DEF IInv, TypeOK
            <4>3. CASE n # n0
                <5>1. n \in 1 .. Len(ledger)
                    BY <2>2, <3>3, <4>3
                <5> QED
                    BY <2>2, <3>1, <3>3, <4>1, <5>1
            <4> QED
                BY <4>2, <4>3
        <3> QED
            BY <3>2, <3>3
    <2> QED
        BY <2>1, <2>4, <2>5, <2>6, <2>7 DEF IInv
<1> QED
    BY <1>1, <1>3, <1>4, ExecuteEffect DEF IInv
-----------------------------------------------------------------------------
\* The invariant is inductive, hence always true of a gated node.
THEOREM Invariance == GatedSpec => []IInv
<1>1. Init => IInv
    BY DEF Init, IInv, TypeOK, MemoryCoversLedger, DecidedOnce, TokenFirstUse,
           AllowedIsStored, Stored
<1>2. IInv /\ [GatedNext]_vars => IInv'
    <2> SUFFICES ASSUME IInv, [GatedNext]_vars PROVE IInv'
        OBVIOUS
    <2>1. ASSUME NEW x \in Offered, execute(x) PROVE IInv'
        BY <2>1, ExecuteSafe
    <2>2. ASSUME NEW x \in Offered, runTransitionPipeline(x) PROVE IInv'
        <3>1. CASE PreValid(x) /\ execute(x)
            BY <3>1, <2>1
        <3>2. CASE ~PreValid(x) /\ Answer(x, FALSE, FALSE, FALSE)
                   /\ UNCHANGED <<node, expired, held>>
            <4>1. results' \in Seq(Result)
                BY <3>2, OfferedAssumption DEF Answer, IInv, TypeOK, Result, Transition
            <4> QED
                BY <3>2, <4>1 DEF IInv, TypeOK, MemoryCoversLedger, DecidedOnce,
                                  TokenFirstUse, AllowedIsStored, Stored, node
        <3> QED
            BY <2>2, <3>1, <3>2 DEF runTransitionPipeline
    <2>3. ASSUME NEW t \in Token, Expire(t) PROVE IInv'
        BY <2>3 DEF Expire, IInv, TypeOK, MemoryCoversLedger, DecidedOnce,
                    TokenFirstUse, AllowedIsStored, Stored, node
    <2>4. CASE UNCHANGED vars
        BY <2>4 DEF IInv, TypeOK, MemoryCoversLedger, DecidedOnce, TokenFirstUse,
                    AllowedIsStored, Stored, vars, node
    <2> QED
        BY <2>1, <2>2, <2>3, <2>4 DEF GatedNext
<1> QED
    BY <1>1, <1>2, PTL DEF GatedSpec

\* No transition id is decided twice.
THEOREM IdsDecidedOnce == GatedSpec => []DecidedOnce
BY Invariance, PTL DEF IInv

\* No token carries an ALLOW after it has been named in any receipt.
THEOREM TokensUsedOnce == GatedSpec => []TokenFirstUse
BY Invariance, PTL DEF IInv

\* Every ALLOW receipt names the payload the state store holds.
THEOREM LedgerMatchesStore == GatedSpec => []AllowedIsStored
BY Invariance, PTL DEF IInv
-----------------------------------------------------------------------------
\* A receipt adds to the evidence just when it allows.
LEMMA EvidenceGrows ==
    ASSUME ledger \in Seq(Receipt), NEW rec \in Receipt, ledger' = Append(ledger, rec)
    PROVE  Evidence' = IF rec.reason = "ALLOWED" THEN Evidence \cup {<<rec.id, rec.token>>}
                       ELSE Evidence
<1>1. /\ DOMAIN ledger' = DOMAIN ledger \cup {Len(ledger) + 1}
      /\ ledger'[Len(ledger) + 1] = rec
      /\ \A n \in DOMAIN ledger : ledger'[n] = ledger[n]
    OBVIOUS
<1> HIDE DEF Receipt
<1> QED
    BY <1>1 DEF Evidence

\* A gated node implements the decision log: every execute is a commit, a
\* refusal or the burning of a token.
THEOREM Refinement == GatedSpec => ImplementsDecisionLog
<1> DEFINE D == [i \in Id |-> DecisionOf(i)]
<1>1. Init => Log!Init
    BY DEF Init, Log!Init, DecisionOf, Stored, Log!Open, Evidence
<1>2. ASSUME IInv, UNCHANGED node
      PROVE  UNCHANGED Log!vars
    BY <1>2 DEF Log!vars, DecisionOf, Stored, Evidence, node
<1>3. ASSUME IInv, NEW x \in Offered, execute(x)
      PROVE  [Log!Next]_(Log!vars)
    <2>1. x \in Transition
        BY OfferedAssumption
    <2>2. CASE UNCHANGED node
        BY <1>2, <1>3, <2>2
    <2>3. CASE /\ x.id \in Id \cup {Blank}
               /\ stateStore' = IF Reason(x) = "ALLOWED"
                                THEN [stateStore EXCEPT ![x.id] = x.payload]
                                ELSE stateStore
               /\ seen' = seen \cup ({x.id} \ {Blank})
               /\ used' = used \cup ({x.token} \ {NoToken})
               /\ \/ ledger' = ledger
                  \/ /\ ReceiptOf(x) \in Receipt
                     /\ ledger' = Append(ledger, ReceiptOf(x))
        <3>0. /\ Evidence' \in {Evidence, Evidence \cup {<<x.id, x.token>>}}
              /\ Reason(x) # "ALLOWED" => Evidence' = Evidence
            <4>1. CASE ledger' = ledger
                BY <4>1 DEF Evidence
            <4>2. CASE ReceiptOf(x) \in Receipt /\ ledger' = Append(ledger, ReceiptOf(x))
                <5>1. Evidence' = IF ReceiptOf(x).reason = "ALLOWED"
                                  THEN Evidence \cup {<<ReceiptOf(x).id, ReceiptOf(x).token>>}
                                  ELSE Evidence
                    BY <1>3, <4>2, EvidenceGrows DEF IInv, TypeOK
                <5> QED
                    BY <5>1 DEF ReceiptOf
            <4> QED
                BY <2>3, <4>1, <4>2
        <3>1. Log!Spend(x.token) /\ x.token \in Token \cup {NoToken}
            BY <2>1, <2>3 DEF Log!Spend, Transition
        <3>2. CASE Reason(x) = "ALLOWED"
            <4>1. /\ x.id \in Id \ seen /\ x.payload \in Payload
                  /\ x.token \notin used
                BY <1>3, <2>1, <3>2, AllowedIsFresh, NodeAssumption DEF IInv, TypeOK
            <4>2. ~Stored(x.id)
                BY <1>3, <4>1 DEF IInv, MemoryCoversLedger
            <4>3. D[x.id] = Log!Open
                BY <4>1, <4>2 DEF DecisionOf, Log!Open
            <4>4. D' = [D EXCEPT ![x.id] = Log!Committed(x.payload)]
                BY <1>3, <2>3, <3>2, <4>1, NodeAssumption
                   DEF DecisionOf, Stored, Log!Committed, IInv, TypeOK
            <4>5. Log!Commit(x.id, x.payload, x.token)
                BY <3>0, <3>1, <4>1, <4>3, <4>4 DEF Log!Commit
            <4> QED
                BY <3>1, <4>1, <4>5 DEF Log!Next
        <3>3. CASE Reason(x) # "ALLOWED" /\ x.id \in Id \ seen
            <4>1. ~Stored(x.id)
                BY <1>3, <3>3 DEF IInv, MemoryCoversLedger
            <4>2. D[x.id] = Log!Open
                BY <3>3, <4>1 DEF DecisionOf, Log!Open
            <4>3. D' = [D EXCEPT ![x.id] = Log!Refused]
                BY <2>3, <3>3, <4>1, NodeAssumption DEF DecisionOf, Stored, Log!Refused
            <4>4. Log!Refuse(x.id, x.token)
                BY <3>0, <3>1, <3>3, <4>2, <4>3 DEF Log!Refuse
            <4> QED
                BY <3>1, <3>3, <4>4 DEF Log!Next
        <3>4. CASE Reason(x) # "ALLOWED" /\ x.id \notin Id \ seen
            <4>1. seen' = seen /\ stateStore' = stateStore
                BY <2>3, <3>4
            <4>2. D' = D
                BY <4>1 DEF DecisionOf, Stored
            <4>3. Log!Burn(x.token)
                BY <3>0, <3>1, <3>4, <4>2 DEF Log!Burn
            <4> QED
                BY <3>1, <4>3 DEF Log!Next
        <3> QED
            BY <3>2, <3>3, <3>4
    <2> QED
        BY <1>3, <2>1, <2>2, <2>3, ExecuteEffect DEF IInv
<1>4. IInv /\ [GatedNext]_vars => [Log!Next]_(Log!vars)
    <2> SUFFICES ASSUME IInv, [GatedNext]_vars PROVE [Log!Next]_(Log!vars)
        OBVIOUS
    <2>1. ASSUME NEW x \in Offered, execute(x) PROVE [Log!Next]_(Log!vars)
        BY <1>3, <2>1
    <2>2. ASSUME NEW x \in Offered, runTransitionPipeline(x)
          PROVE  [Log!Next]_(Log!vars)
        <3>1. CASE execute(x)
            BY <2>1, <3>1
        <3>2. CASE UNCHANGED node
            BY <1>2, <3>2
        <3> QED
            BY <2>2, <3>1, <3>2 DEF runTransitionPipeline
    <2>3. ASSUME NEW t \in Token, Expire(t) PROVE UNCHANGED Log!vars
        BY <1>2, <2>3 DEF Expire
    <2>4. CASE UNCHANGED vars
        BY <1>2, <2>4 DEF vars
    <2> QED
        BY <2>1, <2>2, <2>3, <2>4 DEF GatedNext
<1> QED
    BY <1>1, <1>4, Invariance, PTL DEF GatedSpec, ImplementsDecisionLog, Log!Spec
-----------------------------------------------------------------------------
(* The full lifecycle: what evaluate returned may be acted on at any later   *)
(* time, whatever happened to its id and its token in between.               *)

\* What a decision still tells when it is acted on: an ALLOW is of a well-formed
\* transition, a replayed token is still used up.
DecisionHolds(x, reason) ==
    /\ reason = "ALLOWED" => WellFormed(x)
    /\ reason = "TOKEN_REPLAYED" => x.token \in used

LInv == /\ TypeOK
        /\ MemoryCoversLedger
        /\ StoredHasReceipt
        /\ \A a \in Actor : held[a] # NoEvaluation =>
               DecisionHolds(held[a].transition, held[a].reason)

\* evaluate returns a decision that holds at that time.
LEMMA FreshDecisionHolds ==
    ASSUME NEW x \in Transition
    PROVE  DecisionHolds(x, Reason(x))
BY DEF DecisionHolds, Reason, TokenReason

\* Acting on a decision that holds: the memories grow before anything that they
\* must cover, and what is stored is receipted, or cannot be hashed.
LEMMA FinishSafe ==
    ASSUME LInv, NEW x \in Transition, NEW reason \in Reasons, NEW c \in BOOLEAN,
           DecisionHolds(x, reason), Finish(x, reason, c), UNCHANGED <<expired, held>>
    PROVE  LInv'
<1> DEFINE rec == [id |-> x.id, payload |-> x.payload, token |-> x.token,
                   reason |-> reason]
           committed == c /\ reason = "ALLOWED"
<1>1. ASSUME NEW t \in BOOLEAN, NEW d \in BOOLEAN, NEW r \in BOOLEAN, Answer(x, t, d, r)
      PROVE  results' \in Seq(Result)
    BY <1>1 DEF Answer, LInv, TypeOK, Result, Transition
<1>2. CASE x.id = Missing /\ Answer(x, TRUE, FALSE, FALSE) /\ UNCHANGED node
    <2>1. results' \in Seq(Result)
        BY <1>1, <1>2
    <2> QED
        BY <1>2, <2>1 DEF LInv, TypeOK, MemoryCoversLedger, StoredHasReceipt, Stored,
                          DecisionHolds, node
<1>3. CASE /\ x.id # Missing
           /\ stateStore' = Store(x, committed)
           /\ seen' = See(x)
           /\ used' = Spend(x, reason)
           /\ IF Hashable(x.payload)
              THEN ledger' = Append(ledger, rec) /\ Answer(x, FALSE, committed, TRUE)
              ELSE Answer(x, TRUE, FALSE, FALSE) /\ UNCHANGED ledger
    <2>1. results' \in Seq(Result)
        BY <1>1, <1>3
    <2>2. x.id \in Id \cup {Blank} /\ x.token \in Token \cup {NoToken}
        BY <1>3 DEF Transition
    <2>3. committed => x.id \in Id /\ x.payload \in Payload
        BY DEF DecisionHolds, WellFormed
    <2>4. seen' = seen \cup ({x.id} \ {Blank}) /\ x.id \in seen' \cup {Blank}
        BY <1>3 DEF See
    <2>5. /\ used \subseteq used' /\ used' \subseteq Token
          /\ x.token \in used' \cup {NoToken}
        BY <1>3, <2>2 DEF Spend, DecisionHolds, LInv, TypeOK
    <2>6. /\ stateStore' \in [Id -> Payload \cup {Undefined}]
          /\ \A i \in Id : \/ stateStore'[i] = stateStore[i]
                           \/ committed /\ i = x.id /\ stateStore'[i] = x.payload
        BY <1>3, <2>3 DEF Store, LInv, TypeOK
    <2>7. /\ ledger' \in Seq(Receipt)
          /\ \A n \in DOMAIN ledger : n \in DOMAIN ledger' /\ ledger'[n] = ledger[n]
          /\ \A n \in DOMAIN ledger' : n \in DOMAIN ledger \/ ledger'[n] = rec
          /\ Hashable(x.payload) => \E n \in DOMAIN ledger' : ledger'[n] = rec
        <3>1. CASE Hashable(x.payload)
            <4>1. rec \in Receipt
                BY <2>2, <3>1 DEF Hashable, Receipt, Transition
            <4>2. ledger' = Append(ledger, rec) /\ ledger \in Seq(Receipt)
                BY <1>3, <3>1 DEF LInv, TypeOK
            <4> HIDE DEF rec
            <4>3. ledger'[Len(ledger) + 1] = rec /\ Len(ledger) + 1 \in DOMAIN ledger'
                BY <4>1, <4>2
            <4> QED
                BY <4>1, <4>2, <4>3
        <3>2. CASE ~Hashable(x.payload)
            BY <1>3, <3>2 DEF LInv, TypeOK
        <3> QED
            BY <3>1, <3>2
    <2>8. TypeOK'
        BY <2>1, <2>2, <2>4, <2>5, <2>6, <2>7 DEF LInv, TypeOK
    <2>9. MemoryCoversLedger'
        <3>1. ASSUME NEW n \in DOMAIN ledger'
              PROVE  ledger'[n].id \in seen' \cup {Blank} /\ ledger'[n].token \in used' \cup {NoToken}
            <4>1. CASE n \in DOMAIN ledger
                BY <2>4, <2>5, <2>7, <4>1 DEF LInv, MemoryCoversLedger
            <4>2. CASE ledger'[n] = rec
                BY <2>4, <2>5, <4>2
            <4> QED
                BY <2>7, <3>1, <4>1, <4>2
        <3>2. ASSUME NEW i \in Id, Stored(i)' PROVE i \in seen'
            BY <2>3, <2>4, <2>6, <3>2, NodeAssumption DEF Stored, LInv, MemoryCoversLedger
        <3> QED
            BY <3>1, <3>2 DEF MemoryCoversLedger
    <2>10. StoredHasReceipt'
        <3> SUFFICES ASSUME NEW i \in Id, Stored(i)', Hashable(stateStore'[i])
                     PROVE  \E n \in DOMAIN ledger' : /\ ledger'[n].id = i
                                                      /\ ledger'[n].payload = stateStore'[i]
                                                      /\ ledger'[n].reason = "ALLOWED"
            BY DEF StoredHasReceipt, Hashable
        <3>1. CASE stateStore'[i] = stateStore[i]
            BY <2>7, <3>1 DEF LInv, StoredHasReceipt, Stored
        <3>2. CASE committed /\ i = x.id /\ stateStore'[i] = x.payload
            BY <2>7, <3>2
        <3> QED
            BY <2>6, <3>1, <3>2
    <2>11. \A a \in Actor : held'[a] # NoEvaluation =>
               DecisionHolds(held[a].transition, held[a].reason)'
        BY <2>5 DEF LInv, DecisionHolds
    <2> QED
        BY <2>8, <2>9, <2>10, <2>11 DEF LInv
<1> QED
    BY <1>2, <1>3 DEF Finish

\* The lifecycle's invariant is inductive.
THEOREM LifecycleInvariance == Spec => []LInv
<1>1. Init => LInv
    BY DEF Init, LInv, TypeOK, MemoryCoversLedger, StoredHasReceipt, Stored
<1>2. LInv /\ [Next]_vars => LInv'
    <2> SUFFICES ASSUME LInv, [Next]_vars PROVE LInv'
        OBVIOUS
    <2>1. ASSUME NEW x \in Offered, execute(x) PROVE LInv'
        BY <2>1, OfferedAssumption, ReasonTyped, FreshDecisionHolds, FinishSafe DEF execute
    <2>2. ASSUME NEW x \in Offered, runTransitionPipeline(x) PROVE LInv'
        <3>1. CASE PreValid(x) /\ execute(x)
            BY <3>1, <2>1
        <3>2. CASE Answer(x, FALSE, FALSE, FALSE) /\ UNCHANGED <<node, expired, held>>
            <4>1. results' \in Seq(Result)
                BY <3>2, OfferedAssumption DEF Answer, LInv, TypeOK, Result, Transition
            <4> QED
                BY <3>2, <4>1 DEF LInv, TypeOK, MemoryCoversLedger, StoredHasReceipt,
                                  Stored, DecisionHolds, node
        <3> QED
            BY <2>2, <3>1, <3>2 DEF runTransitionPipeline
    <2>3. ASSUME NEW t \in Token, Expire(t) PROVE LInv'
        BY <2>3 DEF Expire, LInv, TypeOK, MemoryCoversLedger, StoredHasReceipt, Stored,
                    DecisionHolds, node
    <2>4. ASSUME NEW a \in Actor, NEW x \in Offered, evaluate(a, x) PROVE LInv'
        <3>1. [transition |-> x, reason |-> Reason(x)] \in Evaluation
            BY OfferedAssumption, ReasonTyped DEF Evaluation
        <3>2. DecisionHolds(x, Reason(x))
            BY OfferedAssumption, FreshDecisionHolds
        <3>3. TypeOK'
            BY <2>4, <3>1 DEF evaluate, LInv, TypeOK, node
        <3>4. MemoryCoversLedger' /\ StoredHasReceipt'
            BY <2>4 DEF evaluate, LInv, MemoryCoversLedger, StoredHasReceipt, Stored, node
        <3>5. \A b \in Actor : held'[b] # NoEvaluation =>
                  DecisionHolds(held[b].transition, held[b].reason)'
            BY <2>4, <3>2 DEF evaluate, LInv, TypeOK, DecisionHolds, node
        <3> QED
            BY <3>3, <3>4, <3>5 DEF LInv
    <2>5. ASSUME NEW a \in Actor, allow(a) \/ deny(a) PROVE LInv'
        <3>1. /\ held[a].transition \in Transition /\ held[a].reason \in Reasons
              /\ DecisionHolds(held[a].transition, held[a].reason)
            BY <2>5 DEF allow, deny, LInv, TypeOK, Evaluation
        <3> QED
            BY <2>5, <3>1, FinishSafe DEF allow, deny
    <2>6. CASE UNCHANGED vars
        BY <2>6 DEF LInv, TypeOK, MemoryCoversLedger, StoredHasReceipt, Stored,
                    DecisionHolds, vars, node
    <2> QED
        BY <2>1, <2>2, <2>3, <2>4, <2>5, <2>6 DEF Next, GatedNext
<1> QED
    BY <1>1, <1>2, PTL DEF Spec

\* The node's state and its answers keep their types whatever actors do with
\* the lifecycle methods.
THEOREM TypeCorrect == Spec => []TypeOK
BY LifecycleInvariance, PTL DEF LInv

\* No receipt names an id or a token that the replay memory does not hold, even
\* when decisions overtake each other and finish throws half-way.
THEOREM MemoryNeverLags == Spec => []MemoryCoversLedger
BY LifecycleInvariance, PTL DEF LInv

\* Nothing that can be hashed is stored without a receipt that allows it.
THEOREM StoreIsReceipted == Spec => []StoredHasReceipt
BY LifecycleInvariance, PTL DEF LInv
=============================================================================
