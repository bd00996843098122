--------------------------- MODULE RunLedgerProofs --------------------------
(***************************************************************************)
(* The methods of the run ledger keep a store sound, for any sets of runs, *)
(* spans and invariants (the first part, for every module that composes    *)
(* them); hence the properties of the shared ledger, whatever clients call *)
(* in whatever order.                                                      *)
(***************************************************************************)
EXTENDS RunLedger, FiniteSetTheorems, TLAPS

-----------------------------------------------------------------------------
(* The methods                                                              *)

\* The empty store is a store, and satisfies the store invariant.
LEMMA EmptyStoreSound == EmptyStore \in Store /\ StoreInv(EmptyStore)
BY NoRunAssumption, NoSpanAssumption
   DEF EmptyStore, Store, Status, StoreInv, EndedRunsAreClosed, OpenSpansOf,
       SpansOf, SpansHaveRuns, ParentsAreLocal

\* startRun keeps a store a sound store.
LEMMA StartRunSound ==
    ASSUME NEW st \in Store, NEW r \in RunId, StoreInv(st)
    PROVE  StartRun(st, r) \in Store /\ StoreInv(StartRun(st, r))
BY DEF StartRun, StartRunError, OK, Store, Status, StoreInv,
       EndedRunsAreClosed, OpenSpansOf, SpansOf, SpansHaveRuns, ParentsAreLocal

\* endRun keeps a store a sound store: it ends only a run whose spans have all
\* ended.
LEMMA EndRunSound ==
    ASSUME NEW st \in Store, NEW r \in RunId, StoreInv(st)
    PROVE  EndRun(st, r) \in Store /\ StoreInv(EndRun(st, r))
<1> DEFINE t == EndRun(st, r)
<1>1. CASE EndRunError(st, r) # OK
    BY <1>1 DEF EndRun
<1>2. CASE EndRunError(st, r) = OK
    <2>1. st.run[r] \in {"open", "ended"}
        BY <1>2 DEF EndRunError, OK, Store, Status
    <2>2. OpenSpansOf(st, r) = {}
        BY <1>2, <2>1 DEF EndRunError, OK, StoreInv, EndedRunsAreClosed
    <2>3. t = [st EXCEPT !.run = [st.run EXCEPT ![r] = "ended"]]
        BY <1>2 DEF EndRun, Store
    <2>4. t \in Store
        <3>1. [st.run EXCEPT ![r] = "ended"] \in [RunId -> Status]
            BY DEF Store, Status
        <3> QED BY <2>3, <3>1 DEF Store
    <2>5. /\ t.run = [st.run EXCEPT ![r] = "ended"]
          /\ t.span = st.span /\ t.spanRun = st.spanRun /\ t.parent = st.parent
        BY <2>3 DEF Store
    <2>6. EndedRunsAreClosed(t)
        BY <2>2, <2>5 DEF Store, Status, StoreInv, EndedRunsAreClosed, OpenSpansOf, SpansOf
    <2>7. SpansHaveRuns(t)
        BY <2>5 DEF Store, Status, StoreInv, SpansHaveRuns
    <2>8. ParentsAreLocal(t)
        BY <2>5 DEF StoreInv, ParentsAreLocal
    <2> QED BY <2>4, <2>6, <2>7, <2>8 DEF StoreInv
<1> QED BY <1>1, <1>2

\* endSpan keeps a store a sound store: it opens nothing.
LEMMA EndSpanSound ==
    ASSUME NEW st \in Store, NEW s \in SpanId, StoreInv(st)
    PROVE  EndSpan(st, s) \in Store /\ StoreInv(EndSpan(st, s))
<1> DEFINE t == EndSpan(st, s)
<1>1. CASE SpanError(st, s) # OK
    BY <1>1 DEF EndSpan
<1>2. CASE SpanError(st, s) = OK
    <2>1. st.span[s] # "absent"
        BY <1>2 DEF SpanError, OK
    <2>2. t = [st EXCEPT !.span = [st.span EXCEPT ![s] = "ended"]]
        BY <1>2 DEF EndSpan, Store
    <2>3. t \in Store
        <3>1. [st.span EXCEPT ![s] = "ended"] \in [SpanId -> Status]
            BY DEF Store, Status
        <3> QED BY <2>2, <3>1 DEF Store
    <2>4. /\ t.span = [st.span EXCEPT ![s] = "ended"]
          /\ t.run = st.run /\ t.spanRun = st.spanRun /\ t.parent = st.parent
        BY <2>2 DEF Store
    <2>5. EndedRunsAreClosed(t)
        BY <2>1, <2>4 DEF Store, Status, StoreInv, EndedRunsAreClosed, OpenSpansOf, SpansOf
    <2>6. SpansHaveRuns(t)
        BY <2>1, <2>4 DEF Store, Status, StoreInv, SpansHaveRuns
    <2>7. ParentsAreLocal(t)
        BY <2>1, <2>4, NoSpanAssumption DEF Store, Status, StoreInv, ParentsAreLocal
    <2> QED BY <2>3, <2>5, <2>6, <2>7 DEF StoreInv
<1> QED BY <1>1, <1>2

\* startSpan keeps a store a sound store: it opens a span only in an open run,
\* and only under a parent of that run.
LEMMA StartSpanSound ==
    ASSUME NEW st \in Store, NEW r \in RunId, NEW s \in SpanId,
           NEW p \in SpanId \cup {NoSpan}, StoreInv(st)
    PROVE  StartSpan(st, r, s, p) \in Store /\ StoreInv(StartSpan(st, r, s, p))
<1> DEFINE t == StartSpan(st, r, s, p)
<1>1. CASE StartSpanError(st, r, s, p) # OK
    BY <1>1 DEF StartSpan
<1>2. CASE StartSpanError(st, r, s, p) = OK
    <2>1. t = [st EXCEPT !.span[s]      = "open",
                         !.spanRun[s]   = r,
                         !.parent[s]    = p,
                         !.spanLinks[s] = <<>>]
        BY <1>2 DEF StartSpan
    <2>2. st.run[r] = "open" /\ st.span[s] = "absent"
        BY <1>2 DEF StartSpanError, OpenRunError, OK, Store, Status
    <2>3. p # NoSpan => st.span[p] = "open" /\ st.spanRun[p] = r
        BY <1>2 DEF StartSpanError, OpenRunError, ParentError, OK, Store, Status
    <2>4. t \in Store
        <3>1. /\ [st.span EXCEPT ![s] = "open"] \in [SpanId -> Status]
              /\ [st.spanRun EXCEPT ![s] = r] \in [SpanId -> RunId \cup {NoRun}]
              /\ [st.parent EXCEPT ![s] = p] \in [SpanId -> SpanId \cup {NoSpan}]
              /\ [st.spanLinks EXCEPT ![s] = <<>>] \in [SpanId -> Seq(InvariantId)]
            BY DEF Store, Status
        <3>2. t = [st EXCEPT !.span      = [st.span EXCEPT ![s] = "open"],
                             !.spanRun   = [st.spanRun EXCEPT ![s] = r],
                             !.parent    = [st.parent EXCEPT ![s] = p],
                             !.spanLinks = [st.spanLinks EXCEPT ![s] = <<>>]]
            BY <2>1 DEF Store
        <3> QED BY <3>1, <3>2 DEF Store
    <2>5. EndedRunsAreClosed(t)
        BY <2>1, <2>2 DEF Store, Status, StoreInv, EndedRunsAreClosed, OpenSpansOf, SpansOf
    <2>6. SpansHaveRuns(t)
        BY <2>1, <2>2 DEF Store, Status, StoreInv, SpansHaveRuns
    <2>7. ParentsAreLocal(t)
        BY <2>1, <2>2, <2>3, NoSpanAssumption DEF Store, Status, StoreInv, ParentsAreLocal
    <2> QED BY <2>4, <2>5, <2>6, <2>7 DEF StoreInv
<1> QED BY <1>1, <1>2

\* linkInvariant keeps a store a sound store: it touches the links only.
LEMMA LinkInvariantSound ==
    ASSUME NEW st \in Store, NEW s \in SpanId, NEW i \in InvariantId, StoreInv(st)
    PROVE  LinkInvariant(st, s, i) \in Store /\ StoreInv(LinkInvariant(st, s, i))
<1> DEFINE t == LinkInvariant(st, s, i)
<1>1. CASE SpanError(st, s) # OK \/ Linked(st, s, i)
    BY <1>1 DEF LinkInvariant
<1>2. CASE ~(SpanError(st, s) # OK \/ Linked(st, s, i))
    <2>1. t = [st EXCEPT !.links        = Append(st.links, <<s, i>>),
                         !.spanLinks[s] = Append(st.spanLinks[s], i)]
        BY <1>2 DEF LinkInvariant
    <2>2. /\ Append(st.links, <<s, i>>) \in Seq(SpanId \X InvariantId)
          /\ Append(st.spanLinks[s], i) \in Seq(InvariantId)
        BY DEF Store
    <2>3. t \in Store
        <3>1. t = [st EXCEPT !.links     = Append(st.links, <<s, i>>),
                             !.spanLinks = [st.spanLinks EXCEPT ![s] = Append(st.spanLinks[s], i)]]
            BY <2>1 DEF Store
        <3>2. [st.spanLinks EXCEPT ![s] = Append(st.spanLinks[s], i)]
                  \in [SpanId -> Seq(InvariantId)]
            BY <2>2 DEF Store
        <3> QED BY <2>2, <3>1, <3>2 DEF Store
    <2>4. t.run = st.run /\ t.span = st.span /\ t.spanRun = st.spanRun /\ t.parent = st.parent
        BY <2>1 DEF Store
    <2> QED BY <2>3, <2>4 DEF StoreInv, EndedRunsAreClosed, OpenSpansOf, SpansOf,
                              SpansHaveRuns, ParentsAreLocal
<1> QED BY <1>1, <1>2

-----------------------------------------------------------------------------
(* The shared ledger                                                        *)

LedgerInv == LedgerTypeOK /\ StoreInv(ledger)

\* What a method throws is one of the ledger's error codes.
LEMMA OutcomesTyped ==
    ASSUME NEW st, NEW r, NEW s, NEW p
    PROVE  {StartRunError(st, r), EndRunError(st, r), SpanError(st, s),
            StartSpanError(st, r, s, p)} \subseteq Outcomes
BY DEF StartRunError, EndRunError, SpanError, StartSpanError, OpenRunError,
       ParentError, Outcomes, OK

\* The inductive invariant.
THEOREM LedgerInvariance == LedgerSpec => []LedgerInv
<1>1. LedgerInit => LedgerInv
    BY EmptyStoreSound DEF LedgerInit, LedgerInv, LedgerTypeOK, Outcomes, OK
<1>2. LedgerInv /\ [LedgerNext]_ledgerVars => LedgerInv'
    <2> SUFFICES ASSUME LedgerInv, [LedgerNext]_ledgerVars PROVE LedgerInv'
        OBVIOUS
    <2> ledger \in Store /\ StoreInv(ledger)
        BY DEF LedgerInv, LedgerTypeOK
    <2>1. ASSUME NEW r \in RunId, startRun(r) PROVE LedgerInv'
        BY <2>1, StartRunSound, OutcomesTyped DEF startRun, LedgerInv, LedgerTypeOK
    <2>2. ASSUME NEW r \in RunId, endRun(r) PROVE LedgerInv'
        BY <2>2, EndRunSound, OutcomesTyped DEF endRun, LedgerInv, LedgerTypeOK
    <2>3. ASSUME NEW r \in RunId, NEW s \in SpanId, NEW p \in SpanId \cup {NoSpan},
                 startSpan(r, s, p)
          PROVE  LedgerInv'
        BY <2>3, StartSpanSound, OutcomesTyped DEF startSpan, LedgerInv, LedgerTypeOK
    <2>4. ASSUME NEW s \in SpanId, endSpan(s) PROVE LedgerInv'
        BY <2>4, EndSpanSound, OutcomesTyped DEF endSpan, LedgerInv, LedgerTypeOK
    <2>5. ASSUME NEW s \in SpanId, NEW i \in InvariantId, linkInvariant(s, i)
          PROVE  LedgerInv'
        BY <2>5, LinkInvariantSound, OutcomesTyped DEF linkInvariant, LedgerInv, LedgerTypeOK
    <2>6. CASE UNCHANGED ledgerVars
        BY <2>6 DEF ledgerVars, LedgerInv, LedgerTypeOK
    <2> QED BY <2>1, <2>2, <2>3, <2>4, <2>5, <2>6 DEF LedgerNext
<1> QED BY <1>1, <1>2, PTL DEF LedgerSpec

\* The store keeps its shape and a call returns or throws a known code.
THEOREM LedgerTypeCorrect == LedgerSpec => []LedgerTypeOK
BY LedgerInvariance, PTL DEF LedgerInv

\* No interleaving of the clients' calls leaves an open span in an ended run
\* (runStore.ts: endRun and requireOpenRun).
THEOREM NoOpenSpanAfterEnd == LedgerSpec => []EndedRunHasNoOpenSpan
<1>1. LedgerInv => EndedRunHasNoOpenSpan
    BY DEF LedgerInv, StoreInv, EndedRunHasNoOpenSpan
<1> QED BY <1>1, LedgerInvariance, PTL

\* A span's parent is always a span of the same run (runStore.ts: startSpan).
THEOREM ParentsStayInRun == LedgerSpec => []ParentInSameRun
<1>1. LedgerInv => ParentInSameRun
    BY DEF LedgerInv, StoreInv, ParentInSameRun
<1> QED BY <1>1, LedgerInvariance, PTL

\* No method makes a cycle: a new span is nobody's parent, and its own parent
\* exists already.
LEMMA MethodsKeepAcyclic ==
    ASSUME NEW st \in Store, StoreInv(st), Acyclic(st)
    PROVE  /\ \A r \in RunId : Acyclic(StartRun(st, r)) /\ Acyclic(EndRun(st, r))
           /\ \A r \in RunId, s \in SpanId, p \in SpanId \cup {NoSpan} :
                  Acyclic(StartSpan(st, r, s, p))
           /\ \A s \in SpanId : Acyclic(EndSpan(st, s))
           /\ \A s \in SpanId, i \in InvariantId : Acyclic(LinkInvariant(st, s, i))
<1>1. ASSUME NEW t, t.parent = st.parent PROVE Acyclic(t)
    BY <1>1 DEF Acyclic
<1>2. ASSUME NEW r \in RunId
      PROVE  StartRun(st, r).parent = st.parent /\ EndRun(st, r).parent = st.parent
    BY DEF StartRun, EndRun, Store
<1>3. ASSUME NEW s \in SpanId PROVE EndSpan(st, s).parent = st.parent
    BY DEF EndSpan, Store
<1>4. ASSUME NEW s \in SpanId, NEW i \in InvariantId
      PROVE  LinkInvariant(st, s, i).parent = st.parent
    BY DEF LinkInvariant, Store
<1>5. ASSUME NEW r \in RunId, NEW s \in SpanId, NEW p \in SpanId \cup {NoSpan}
      PROVE  Acyclic(StartSpan(st, r, s, p))
    <2> DEFINE t == StartSpan(st, r, s, p)
    <2>1. CASE StartSpanError(st, r, s, p) # OK
        BY <2>1 DEF StartSpan
    <2>2. CASE StartSpanError(st, r, s, p) = OK
        <3>1. st.span[s] = "absent"
            BY <2>2 DEF StartSpanError, OpenRunError, OK, Store, Status
        <3>2. p # s
            BY <2>2, <3>1, NoSpanAssumption
               DEF StartSpanError, OpenRunError, ParentError, OK, Store, Status
        <3>3. t.parent = [st.parent EXCEPT ![s] = p]
            BY <2>2 DEF StartSpan, Store
        <3>4. \A q \in SpanId : st.parent[q] # s
            BY <3>1, NoSpanAssumption DEF StoreInv, ParentsAreLocal, Store
        <3>5. ASSUME NEW S \in SUBSET SpanId, S # {}
              PROVE  \E q \in S : t.parent[q] \notin S
            <4>1. CASE S = {s}
                BY <3>2, <3>3, <4>1 DEF Store
            <4>2. CASE S # {s}
                <5>1. S \ {s} # {}
                    BY <3>5, <4>2
                <5>2. PICK q \in S \ {s} : st.parent[q] \notin S \ {s}
                    BY <5>1 DEF Acyclic
                <5>3. t.parent[q] = st.parent[q] /\ st.parent[q] # s
                    BY <3>3, <3>4, <5>2 DEF Store
                <5> QED BY <5>2, <5>3
            <4> QED BY <4>1, <4>2
        <3> QED BY <3>5 DEF Acyclic
    <2> QED BY <2>1, <2>2
<1> QED BY <1>1, <1>2, <1>3, <1>4, <1>5

\* The spans of a ledger are always a forest (runStore.ts: startSpan).
THEOREM ParentsFormForest == LedgerSpec => []ParentsAreAcyclic
<1>1. LedgerInit => ParentsAreAcyclic
    BY NoSpanAssumption DEF LedgerInit, EmptyStore, ParentsAreAcyclic, Acyclic
<1>2. LedgerInv /\ ParentsAreAcyclic /\ [LedgerNext]_ledgerVars => ParentsAreAcyclic'
    <2> SUFFICES ASSUME LedgerInv, ParentsAreAcyclic, [LedgerNext]_ledgerVars PROVE ParentsAreAcyclic'
        OBVIOUS
    <2>1. ledger \in Store /\ StoreInv(ledger) /\ Acyclic(ledger)
        BY DEF LedgerInv, LedgerTypeOK, ParentsAreAcyclic
    <2>2. CASE UNCHANGED ledgerVars
        BY <2>1, <2>2 DEF ledgerVars, ParentsAreAcyclic
    <2>3. CASE LedgerNext
        BY <2>1, <2>3, MethodsKeepAcyclic
           DEF LedgerNext, startRun, endRun, startSpan, endSpan, linkInvariant, ParentsAreAcyclic
    <2> QED BY <2>2, <2>3
<1> QED BY <1>1, <1>2, LedgerInvariance, PTL DEF LedgerSpec

\* The five methods leave the ended runs of a sound store alone.
LEMMA MethodsFreeze ==
    ASSUME NEW st \in Store, StoreInv(st)
    PROVE  /\ \A r \in RunId : Frozen(st, StartRun(st, r)) /\ Frozen(st, EndRun(st, r))
           /\ \A r \in RunId, s \in SpanId, p \in SpanId \cup {NoSpan} :
                  Frozen(st, StartSpan(st, r, s, p))
           /\ \A s \in SpanId : Frozen(st, EndSpan(st, s))
           /\ \A s \in SpanId, i \in InvariantId : Frozen(st, LinkInvariant(st, s, i))
<1>0. Frozen(st, st)
    BY DEF Frozen
<1>1. ASSUME NEW r \in RunId PROVE Frozen(st, StartRun(st, r))
    BY DEF Frozen, StartRun, StartRunError, OK, SpansOf, Store, Status
<1>2. ASSUME NEW r \in RunId PROVE Frozen(st, EndRun(st, r))
    BY DEF Frozen, EndRun, EndRunError, OK, SpansOf, Store, Status
<1>3. ASSUME NEW r \in RunId, NEW s \in SpanId, NEW p \in SpanId \cup {NoSpan}
      PROVE  Frozen(st, StartSpan(st, r, s, p))
    <2>1. CASE StartSpanError(st, r, s, p) # OK
        BY <1>0, <2>1 DEF StartSpan
    <2>2. CASE StartSpanError(st, r, s, p) = OK
        <3>1. st.run[r] = "open" /\ st.span[s] = "absent"
            BY <2>2 DEF StartSpanError, OpenRunError, OK, Store, Status
        <3> QED BY <2>2, <3>1 DEF StartSpan, Frozen, SpansOf, Store, Status
    <2> QED BY <2>1, <2>2
<1>4. ASSUME NEW s \in SpanId PROVE Frozen(st, EndSpan(st, s))
    <2>1. CASE SpanError(st, s) # OK
        BY <1>0, <2>1 DEF EndSpan
    <2>2. CASE SpanError(st, s) = OK
        <3>1. st.span[s] # "absent"
            BY <2>2 DEF SpanError, OK
        <3> DEFINE t == EndSpan(st, s)
        <3>2. /\ t.span = [st.span EXCEPT ![s] = "ended"]
              /\ t.run = st.run /\ t.spanRun = st.spanRun /\ t.parent = st.parent
            BY <2>2 DEF EndSpan, Store
        <3>3. \A r \in RunId : st.run[r] = "ended" =>
                  \A q \in SpansOf(st, r) : st.span[q] = "ended"
            BY DEF StoreInv, EndedRunsAreClosed, OpenSpansOf, SpansOf, Store, Status
        <3> QED BY <3>1, <3>2, <3>3 DEF Frozen, SpansOf, Store, Status
    <2> QED BY <2>1, <2>2
<1>5. ASSUME NEW s \in SpanId, NEW i \in InvariantId
      PROVE  Frozen(st, LinkInvariant(st, s, i))
    <2> DEFINE t == LinkInvariant(st, s, i)
    <2>1. /\ t.run = st.run /\ t.span = st.span
          /\ t.spanRun = st.spanRun /\ t.parent = st.parent
        BY DEF LinkInvariant, Store
    <2> QED BY <2>1 DEF Frozen, SpansOf
<1> QED BY <1>1, <1>2, <1>3, <1>4, <1>5

\* An ended run stays ended, with the spans, their states and their parents it
\* ended with; only invariant links may still be added to them.
THEOREM EndedRunsAreFinal == LedgerSpec => EndedRunIsFrozen
<1>1. LedgerInv /\ [LedgerNext]_ledgerVars => [Frozen(ledger, ledger')]_ledgerVars
    <2> SUFFICES ASSUME LedgerInv, LedgerNext PROVE Frozen(ledger, ledger')
        BY DEF ledgerVars
    <2> ledger \in Store /\ StoreInv(ledger)
        BY DEF LedgerInv, LedgerTypeOK
    <2> QED BY MethodsFreeze DEF LedgerNext, startRun, endRun, startSpan, endSpan, linkInvariant
<1> QED BY <1>1, LedgerInvariance, PTL DEF LedgerSpec, EndedRunIsFrozen

-----------------------------------------------------------------------------
(* The two records of a link.                                               *)

\* The list of links and the lists of the spans agree, every entry of a span's
\* list has its link, and a span that was never started has none.
LinkInv(st) ==
    /\ Agree(st)
    /\ \A s \in SpanId : \A m \in DOMAIN st.spanLinks[s] : Linked(st, s, st.spanLinks[s][m])
    /\ \A s \in SpanId : st.span[s] = "absent" => st.spanLinks[s] = <<>>

\* The links of a span up to a place are finitely many, and no more than up to a
\* later place.
LEMMA LinksFinite ==
    ASSUME NEW st, NEW s, NEW n \in Nat, NEW m \in 0 .. n
    PROVE  /\ IsFiniteSet(LinksOf(st, s, n))
           /\ Cardinality(LinksOf(st, s, m)) \in Nat
           /\ Cardinality(LinksOf(st, s, n)) \in Nat
           /\ Cardinality(LinksOf(st, s, m)) <= Cardinality(LinksOf(st, s, n))
           /\ m \in LinksOf(st, s, m) => Cardinality(LinksOf(st, s, m)) >= 1
<1>1. IsFiniteSet(1 .. n)
    BY FS_Interval
<1>2. LinksOf(st, s, n) \in SUBSET (1 .. n) /\ LinksOf(st, s, m) \in SUBSET LinksOf(st, s, n)
    BY DEF LinksOf
<1>3. IsFiniteSet(LinksOf(st, s, n))
    BY <1>1, <1>2, FS_Subset
<1>4. /\ IsFiniteSet(LinksOf(st, s, m))
      /\ Cardinality(LinksOf(st, s, m)) <= Cardinality(LinksOf(st, s, n))
    BY <1>2, <1>3, FS_Subset
<1>5. Cardinality(LinksOf(st, s, m)) \in Nat /\ Cardinality(LinksOf(st, s, n)) \in Nat
    BY <1>3, <1>4, FS_CardinalityType
<1>6. m \in LinksOf(st, s, m) => Cardinality(LinksOf(st, s, m)) # 0
    BY <1>4, FS_EmptySet
<1> QED BY <1>3, <1>4, <1>5, <1>6

\* A method that leaves both lists as they are, and unstarts no span, keeps them
\* in agreement.
LEMMA SameLinks ==
    ASSUME NEW st \in Store, LinkInv(st), NEW t, t.links = st.links,
           t.spanLinks = st.spanLinks,
           \A s \in SpanId : t.span[s] = "absent" => st.span[s] = "absent"
    PROVE  LinkInv(t)
<1>1. \A s, n : LinksOf(t, s, n) = LinksOf(st, s, n)
    BY DEF LinksOf
<1>2. Agree(t)
    BY <1>1 DEF LinkInv, Agree
<1> QED BY <1>2 DEF LinkInv, Linked

\* A new link goes to the end of both lists.
LEMMA LinkKeepsAgreement ==
    ASSUME NEW st \in Store, LinkInv(st), NEW s \in SpanId, NEW i \in InvariantId
    PROVE  LinkInv(LinkInvariant(st, s, i))
<1> DEFINE t == LinkInvariant(st, s, i)
<1>1. CASE SpanError(st, s) # OK \/ Linked(st, s, i)
    BY <1>1 DEF LinkInvariant
<1>2. CASE ~(SpanError(st, s) # OK \/ Linked(st, s, i))
    <2>1. /\ st.links \in Seq(SpanId \X InvariantId)
          /\ st.spanLinks \in [SpanId -> Seq(InvariantId)]
          /\ st.spanLinks[s] \in Seq(InvariantId)
          /\ Len(st.links) \in Nat /\ Len(st.spanLinks[s]) \in Nat
        BY DEF Store
    <2>2. st.span[s] # "absent"
        BY <1>2 DEF SpanError, OK
    <2>3. /\ t.links = Append(st.links, <<s, i>>)
          /\ t.spanLinks = [st.spanLinks EXCEPT ![s] = Append(st.spanLinks[s], i)]
          /\ t.span = st.span
        BY <1>2 DEF LinkInvariant, Store
    <2> HIDE DEF t
    <2>4. PICK n \in Nat : /\ n = Len(st.links) /\ DOMAIN st.links = 1 .. n
                           /\ Len(t.links) = n + 1 /\ DOMAIN t.links = 1 .. (n + 1)
                           /\ \A m \in 1 .. n : t.links[m] = st.links[m]
                           /\ t.links[n + 1] = <<s, i>>
        <3> DEFINE l == <<s, i>>
        <3>1. l \in SpanId \X InvariantId
            OBVIOUS
        <3> HIDE DEF l
        <3>2. t.links = Append(st.links, l)
            BY <2>3 DEF l
        <3>3. t.links[Len(st.links) + 1] = l
            BY <2>1, <3>1, <3>2
        <3>4. /\ DOMAIN st.links = 1 .. Len(st.links)
              /\ Len(t.links) = Len(st.links) + 1 /\ DOMAIN t.links = 1 .. (Len(st.links) + 1)
              /\ \A m \in 1 .. Len(st.links) : t.links[m] = st.links[m]
            BY <2>1, <3>1, <3>2
        <3> QED BY <2>1, <3>3, <3>4 DEF l
    <2>5. PICK c \in Nat : /\ c = Len(st.spanLinks[s]) /\ DOMAIN st.spanLinks[s] = 1 .. c
                           /\ Len(t.spanLinks[s]) = c + 1
                           /\ DOMAIN t.spanLinks[s] = 1 .. (c + 1)
                           /\ \A m \in 1 .. c : t.spanLinks[s][m] = st.spanLinks[s][m]
                           /\ t.spanLinks[s][c + 1] = i
        <3>1. t.spanLinks[s] = Append(st.spanLinks[s], i)
            BY <2>1, <2>3
        <3> QED BY <2>1, <3>1
    <2>6. \A q \in SpanId \ {s} : t.spanLinks[q] = st.spanLinks[q]
        BY <2>1, <2>3
    <2>7. t.links[n + 1][1] = s /\ t.links[n + 1][2] = i
        BY <2>4
    <2>8. \A q : \A m \in 0 .. n : LinksOf(t, q, m) = LinksOf(st, q, m)
        BY <2>4 DEF LinksOf
    <2>9. /\ LinksOf(t, s, n + 1) = LinksOf(st, s, n) \cup {n + 1}
          /\ \A q : q # s => LinksOf(t, q, n + 1) = LinksOf(st, q, n)
        BY <2>4, <2>7 DEF LinksOf
    <2>10. Cardinality(LinksOf(t, s, n + 1)) = c + 1
        <3>1. n + 1 \notin LinksOf(st, s, n)
            BY DEF LinksOf
        <3>0. n \in 0 .. n
            OBVIOUS
        <3>3. IsFiniteSet(LinksOf(st, s, n)) /\ Cardinality(LinksOf(st, s, n)) \in Nat
            BY <3>0, LinksFinite
        <3>2. c = Cardinality(LinksOf(st, s, n))
            BY <2>4, <2>5 DEF LinkInv, Agree
        <3> QED BY <2>9, <3>1, <3>2, <3>3, FS_AddElement
    <2>11. ASSUME NEW q \in SpanId
           PROVE  /\ Len(t.spanLinks[q]) = Cardinality(LinksOf(t, q, n + 1))
                  /\ \A m \in LinksOf(t, q, n + 1) :
                        t.spanLinks[q][Cardinality(LinksOf(t, q, m))] = t.links[m][2]
        <3>1. /\ Len(st.spanLinks[q]) = Cardinality(LinksOf(st, q, n))
              /\ \A m \in LinksOf(st, q, n) :
                    st.spanLinks[q][Cardinality(LinksOf(st, q, m))] = st.links[m][2]
            BY <2>4 DEF LinkInv, Agree
        <3>2. CASE q # s
            <4>1. ASSUME NEW m \in LinksOf(t, q, n + 1)
                  PROVE  t.spanLinks[q][Cardinality(LinksOf(t, q, m))] = t.links[m][2]
                <5>1. m \in LinksOf(st, q, n) /\ m \in 1 .. n
                    BY <2>9, <3>2, <4>1 DEF LinksOf
                <5> QED BY <2>4, <2>6, <2>8, <3>1, <3>2, <5>1
            <4> QED BY <2>6, <2>9, <3>1, <3>2, <4>1
        <3>3. CASE q = s
            <4>1. ASSUME NEW m \in LinksOf(t, s, n + 1)
                  PROVE  t.spanLinks[s][Cardinality(LinksOf(t, s, m))] = t.links[m][2]
                <5>1. CASE m = n + 1
                    BY <2>5, <2>7, <2>10, <5>1
                <5>2. CASE m # n + 1
                    <6>1. m \in LinksOf(st, s, n) /\ m \in 1 .. n /\ m \in LinksOf(st, s, m)
                        BY <2>9, <4>1, <5>2 DEF LinksOf
                    <6>2. Cardinality(LinksOf(st, s, m)) \in 1 .. c
                        <7>1. m \in 0 .. n /\ c = Cardinality(LinksOf(st, s, n))
                            BY <2>5, <3>1, <3>3, <6>1
                        <7> QED BY <6>1, <7>1, LinksFinite
                    <6>3. st.spanLinks[s][Cardinality(LinksOf(st, s, m))] = st.links[m][2]
                        BY <3>1, <3>3, <6>1
                    <6>4. LinksOf(t, s, m) = LinksOf(st, s, m) /\ t.links[m] = st.links[m]
                        BY <2>4, <2>8, <6>1
                    <6> QED BY <2>5, <6>2, <6>3, <6>4
                <5> QED BY <5>1, <5>2
            <4> QED BY <2>5, <2>10, <3>3, <4>1
        <3> QED BY <3>2, <3>3
    <2>12. \A m \in 1 .. c : st.spanLinks[s][m] # i
        BY <1>2, <2>5 DEF LinkInv
    <2>13. ASSUME NEW q \in SpanId, NEW l, NEW m,
                  l \in DOMAIN t.spanLinks[q], m \in DOMAIN t.spanLinks[q],
                  t.spanLinks[q][l] = t.spanLinks[q][m]
           PROVE  l = m
        <3>1. \A a, b \in DOMAIN st.spanLinks[q] :
                  st.spanLinks[q][a] = st.spanLinks[q][b] => a = b
            BY DEF LinkInv, Agree
        <3>2. CASE q # s
            BY <2>6, <2>13, <3>1, <3>2
        <3>3. CASE q = s
            <4>1. l \in 1 .. c + 1 /\ m \in 1 .. c + 1 /\ t.spanLinks[s][l] = t.spanLinks[s][m]
                BY <2>5, <2>13, <3>3
            <4>2. \A a, b \in 1 .. c : st.spanLinks[s][a] = st.spanLinks[s][b] => a = b
                BY <2>5, <3>1, <3>3
            <4>3. \A a \in 1 .. c : t.spanLinks[s][a] = st.spanLinks[s][a]
                                  /\ t.spanLinks[s][a] # t.spanLinks[s][c + 1]
                BY <2>5, <2>12
            <4>4. CASE l \in 1 .. c /\ m \in 1 .. c
                BY <4>1, <4>2, <4>3, <4>4
            <4>5. CASE l = c + 1 \/ m = c + 1
                <5>1. l \in 1 .. c \/ l = c + 1
                    BY <4>1
                <5>2. m \in 1 .. c \/ m = c + 1
                    BY <4>1
                <5> QED BY <4>1, <4>3, <4>5, <5>1, <5>2
            <4> QED BY <4>1, <4>4, <4>5
        <3> QED BY <3>2, <3>3
    <2>14. Agree(t)
        BY <2>4, <2>11, <2>13 DEF Agree
    <2>15. ASSUME NEW q \in SpanId, NEW m \in DOMAIN t.spanLinks[q]
           PROVE  Linked(t, q, t.spanLinks[q][m])
        <3>1. \A j : Linked(st, q, j) => Linked(t, q, j)
            BY <2>4 DEF Linked
        <3>2. CASE q = s /\ m = c + 1
            <4>1. t.spanLinks[q][m] = i
                BY <2>5, <3>2
            <4> QED BY <2>4, <3>2, <4>1 DEF Linked
        <3>3. CASE ~(q = s /\ m = c + 1)
            <4>1. m \in DOMAIN st.spanLinks[q] /\ t.spanLinks[q][m] = st.spanLinks[q][m]
                <5>1. CASE q = s
                    <6>1. m \in 1 .. c
                        BY <2>5, <2>15, <3>3, <5>1
                    <6> QED BY <2>5, <5>1, <6>1
                <5>2. CASE q # s
                    BY <2>6, <2>15, <5>2
                <5> QED BY <5>1, <5>2
            <4> QED BY <3>1, <4>1 DEF LinkInv
        <3> QED BY <3>2, <3>3
    <2>16. \A q \in SpanId : t.span[q] = "absent" => t.spanLinks[q] = <<>>
        BY <2>2, <2>3, <2>6 DEF LinkInv
    <2> QED BY <2>14, <2>15, <2>16 DEF LinkInv, t
<1> QED BY <1>1, <1>2

LEMMA MethodsKeepLinks ==
    ASSUME NEW st \in Store, LinkInv(st)
    PROVE  /\ \A r \in RunId : LinkInv(StartRun(st, r)) /\ LinkInv(EndRun(st, r))
           /\ \A r \in RunId, s \in SpanId, p \in SpanId \cup {NoSpan} :
                  LinkInv(StartSpan(st, r, s, p))
           /\ \A s \in SpanId : LinkInv(EndSpan(st, s))
<1>1. ASSUME NEW r \in RunId PROVE LinkInv(StartRun(st, r)) /\ LinkInv(EndRun(st, r))
    <2>1. /\ StartRun(st, r).links = st.links /\ EndRun(st, r).links = st.links
          /\ StartRun(st, r).spanLinks = st.spanLinks /\ EndRun(st, r).spanLinks = st.spanLinks
          /\ StartRun(st, r).span = st.span /\ EndRun(st, r).span = st.span
        BY DEF StartRun, EndRun, Store
    <2> QED BY <2>1, SameLinks
<1>2. ASSUME NEW s \in SpanId PROVE LinkInv(EndSpan(st, s))
    <2>1. /\ EndSpan(st, s).links = st.links /\ EndSpan(st, s).spanLinks = st.spanLinks
          /\ EndSpan(st, s).span = st.span
             \/ EndSpan(st, s).span = [st.span EXCEPT ![s] = "ended"]
        BY DEF EndSpan, Store
    <2>2. \A q \in SpanId : EndSpan(st, s).span[q] = "absent" => st.span[q] = "absent"
        BY <2>1 DEF Store
    <2> QED BY <2>1, <2>2, SameLinks
<1>3. ASSUME NEW r \in RunId, NEW s \in SpanId, NEW p \in SpanId \cup {NoSpan}
      PROVE  LinkInv(StartSpan(st, r, s, p))
    <2> DEFINE t == StartSpan(st, r, s, p)
    <2>1. CASE StartSpanError(st, r, s, p) # OK
        BY <2>1 DEF StartSpan
    <2>2. CASE StartSpanError(st, r, s, p) = OK
        <3>1. st.spanLinks[s] = <<>>
            BY <2>2 DEF StartSpanError, OpenRunError, OK, LinkInv, Store, Status
        <3>2. /\ t.links = st.links
              /\ t.spanLinks = [st.spanLinks EXCEPT ![s] = <<>>]
              /\ t.span = [st.span EXCEPT ![s] = "open"]
            BY <2>2 DEF StartSpan, Store
        <3>3. t.spanLinks = st.spanLinks
            BY <3>1, <3>2 DEF Store
        <3>4. \A q \in SpanId : t.span[q] = "absent" => st.span[q] = "absent"
            BY <3>2 DEF Store
        <3> QED BY <3>2, <3>3, <3>4, SameLinks
    <2> QED BY <2>1, <2>2
<1> QED BY <1>1, <1>2, <1>3

\* The list of all links and the lists of the spans never come apart, and hold no
\* pair twice (runStore.ts: linkInvariant, startSpan).
THEOREM LinksStayInAgreement == LedgerSpec => []LinksAgree
<1> DEFINE Linking == LinkInv(ledger)
<1>1. LedgerInit => Linking
    <2> SUFFICES ASSUME LedgerInit PROVE LinkInv(ledger)
        OBVIOUS
    <2>1. /\ ledger.links = <<>> /\ \A s \in SpanId : ledger.spanLinks[s] = <<>>
        BY DEF LedgerInit, EmptyStore
    <2>2. \A s : LinksOf(ledger, s, Len(ledger.links)) = {}
        BY <2>1 DEF LinksOf
    <2>3. \A s \in SpanId : Len(ledger.spanLinks[s]) = 0 /\ DOMAIN ledger.spanLinks[s] = {}
        BY <2>1
    <2>4. Agree(ledger)
        BY <2>2, <2>3, FS_EmptySet DEF Agree
    <2> QED BY <2>1, <2>3, <2>4 DEF LinkInv
<1>2. LedgerInv /\ Linking /\ [LedgerNext]_ledgerVars => Linking'
    <2> SUFFICES ASSUME LedgerInv, LinkInv(ledger), [LedgerNext]_ledgerVars PROVE LinkInv(ledger')
        OBVIOUS
    <2>1. ledger \in Store
        BY DEF LedgerInv, LedgerTypeOK
    <2>2. CASE UNCHANGED ledgerVars
        BY <2>2 DEF ledgerVars
    <2>3. CASE LedgerNext
        BY <2>1, <2>3, MethodsKeepLinks, LinkKeepsAgreement
           DEF LedgerNext, startRun, endRun, startSpan, endSpan, linkInvariant
    <2> QED BY <2>2, <2>3
<1>3. Linking => LinksAgree
    BY DEF LinkInv, LinksAgree
<1> QED BY <1>1, <1>2, <1>3, LedgerInvariance, PTL DEF LedgerSpec
=============================================================================
