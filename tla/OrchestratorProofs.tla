------------------------- MODULE OrchestratorProofs -------------------------
(***************************************************************************)
(* For any number of requests, actors and trace ids, any limit and window: *)
(* types, what a stretch of time lets through, and what the trace store    *)
(* tells of each request.                                                  *)
(***************************************************************************)
EXTENDS Orchestrator, FiniteSetTheorems, TLAPS

USE OrchestratorAssumption DEF OrchestratorAssumption

-----------------------------------------------------------------------------
(* Types                                                                    *)

\* The steps made for a sequence of types.
LEMMA MadeSteps ==
    ASSUME NEW r \in Request, NEW types \in Seq(StepTypes), NEW status \in Statuses
    PROVE  /\ Made(r, types, status) \in Seq(AAESStep)
           /\ Len(Made(r, types, status)) = Len(types)
           /\ \A i \in 1 .. Len(types) :
                 Made(r, types, status)[i] = [by |-> r, type |-> types[i], status |-> status]
<1> DEFINE made == Made(r, types, status)
<1>1. DOMAIN types = 1 .. Len(types) /\ Len(types) \in Nat
    OBVIOUS
<1>2. made = [i \in 1 .. Len(types) |-> [by |-> r, type |-> types[i], status |-> status]]
    BY <1>1 DEF Made
<1>3. \A i \in 1 .. Len(types) :
          [by |-> r, type |-> types[i], status |-> status] \in AAESStep
    BY <1>1 DEF AAESStep
<1> QED BY <1>1, <1>2, <1>3

\* The types of the steps of every action.
LEMMA TypeLists ==
    /\ <<>> \in Seq(StepTypes) /\ Len(<<>>) = 0
    /\ <<"ingress">> \in Seq(StepTypes) /\ Len(<<"ingress">>) = 1
    /\ \A s \in {<<"ingress", "perception">>, <<"action", "complete">>} :
          s \in Seq(StepTypes) /\ Len(s) = 2
    /\ <<"ingress", "perception", "deliberation">> \in Seq(StepTypes)
    /\ Len(<<"ingress", "perception", "deliberation">>) = 3
    /\ <<"ingress", "perception", "deliberation", "planning">> \in Seq(StepTypes)
    /\ Len(<<"ingress", "perception", "deliberation", "planning">>) = 4
BY DEF StepTypes

LEMMA RecordTyped ==
    ASSUME TypeOK, NEW r \in Request, NEW types \in Seq(StepTypes),
           NEW status \in Statuses, Record(r, types, status)
    PROVE  /\ trace' \in [TraceId -> Seq(AAESStep)]
           /\ steps' \in [Request -> Seq(AAESStep)]
<1>1. Made(r, types, status) \in Seq(AAESStep) /\ TraceOf[r] \in TraceId
    BY MadeSteps
<1>2. /\ steps[r] \o Made(r, types, status) \in Seq(AAESStep)
      /\ trace[TraceOf[r]] \o Made(r, types, status) \in Seq(AAESStep)
    BY <1>1 DEF TypeOK
<1> QED BY <1>1, <1>2 DEF TypeOK, Record

\* A bucket stays a bucket.
LEMMA BucketTyped ==
    ASSUME TypeOK, NEW a \in Actor
    PROVE  /\ RateBucket(a) \in [count : Nat, start : -1..MaxTime]
           /\ RateBucket(a).start = IF bucket[a] = NoBucket \/ now - bucket[a].start >= RateWindow
                                    THEN now ELSE bucket[a].start
           /\ RateBucket(a).count = IF bucket[a] = NoBucket \/ now - bucket[a].start >= RateWindow
                                    THEN 1 ELSE bucket[a].count + 1
<1>1. bucket[a] \in [count : Nat, start : -1..MaxTime] /\ now \in 0..MaxTime
    BY DEF TypeOK
<1>2. CASE bucket[a] = NoBucket \/ now - bucket[a].start >= RateWindow
    <2>1. RateBucket(a) = [[count |-> 0, start |-> now] EXCEPT !.count = @ + 1]
        BY <1>2 DEF RateBucket
    <2>2. RateBucket(a) = [count |-> 1, start |-> now]
        BY <2>1
    <2> QED BY <1>1, <1>2, <2>2
<1>3. CASE ~(bucket[a] = NoBucket \/ now - bucket[a].start >= RateWindow)
    <2>1. RateBucket(a) = [bucket[a] EXCEPT !.count = @ + 1]
        BY <1>3 DEF RateBucket
    <2>2. RateBucket(a) = [count |-> bucket[a].count + 1, start |-> bucket[a].start]
        BY <1>1, <2>1
    <2> QED BY <1>1, <1>3, <2>2
<1> QED BY <1>2, <1>3

LEMMA EvaluateTyped ==
    ASSUME TypeOK, NEW r \in Request, Evaluate(r)
    PROVE  /\ bucket' \in [Actor -> [count : Nat, start : -1..MaxTime]]
           /\ result' \in [Request -> Results]
           /\ admitted' \subseteq [by : Request, at : 0..MaxTime]
<1>1. ActorOf[r] \in Actor
    OBVIOUS
<1>2. bucket' = [bucket EXCEPT ![ActorOf[r]] = RateBucket(ActorOf[r])]
    BY DEF Evaluate
<1>3. \E w \in Waiting : result' = [result EXCEPT ![r] = w]
    BY DEF Evaluate, Waiting
<1>4. admitted' \subseteq admitted \cup {[by |-> r, at |-> now]}
    BY DEF Evaluate
<1>5. bucket' \in [Actor -> [count : Nat, start : -1..MaxTime]]
    BY <1>1, <1>2, BucketTyped DEF TypeOK
<1>6. result' \in [Request -> Results]
    BY <1>3 DEF TypeOK, Results
<1>7. admitted' \subseteq [by : Request, at : 0..MaxTime]
    BY <1>4 DEF TypeOK
<1> QED BY <1>5, <1>6, <1>7

\* Every stage keeps the types of clock, buckets, traces, steps and answers.
THEOREM TypeCorrect == Spec => []TypeOK
<1>1. Init => TypeOK
    <2>1. 0 \in 0..MaxTime /\ -1 \in -1..MaxTime
        OBVIOUS
    <2>2. NoBucket \in [count : Nat, start : -1..MaxTime]
        BY <2>1 DEF NoBucket
    <2> QED BY <2>1, <2>2 DEF Init, TypeOK, Results
<1>2. TypeOK /\ [Next]_vars => TypeOK'
    <2> SUFFICES ASSUME TypeOK, [Next]_vars PROVE TypeOK'
        OBVIOUS
    <2>1. ASSUME NEW r \in Request, Block(r) PROVE TypeOK'
        <3>1. /\ trace' \in [TraceId -> Seq(AAESStep)]
              /\ steps' \in [Request -> Seq(AAESStep)]
            BY <2>1, TypeLists, RecordTyped DEF Block, Statuses
        <3> QED BY <2>1, <3>1 DEF TypeOK, Block, Results, Answers
    <2>2. ASSUME NEW r \in Request, Throw(r) PROVE TypeOK'
        <3>1. /\ trace' \in [TraceId -> Seq(AAESStep)]
              /\ steps' \in [Request -> Seq(AAESStep)]
            BY <2>2, TypeLists, RecordTyped DEF Throw, Statuses
        <3> QED BY <2>2, <3>1 DEF TypeOK, Throw, Results, Answers
    <2>3. ASSUME NEW r \in Request, Plan(r) PROVE TypeOK'
        <3>1. /\ trace' \in [TraceId -> Seq(AAESStep)]
              /\ steps' \in [Request -> Seq(AAESStep)]
            BY <2>3, TypeLists, RecordTyped DEF Plan, Statuses
        <3> QED BY <2>3, <3>1, EvaluateTyped DEF TypeOK, Plan
    <2>4. ASSUME NEW r \in Request, Finish(r) PROVE TypeOK'
        <3>1. /\ trace' \in [TraceId -> Seq(AAESStep)]
              /\ steps' \in [Request -> Seq(AAESStep)]
            BY <2>4, TypeLists, RecordTyped DEF Finish, Statuses
        <3>2. \E w \in Answers : result' = [result EXCEPT ![r] = w]
            BY <2>4 DEF Finish, Waiting, Answers, TypeOK
        <3> QED BY <2>4, <3>1, <3>2 DEF TypeOK, Finish, Results
    <2>5. ASSUME Tick PROVE TypeOK'
        BY <2>5 DEF TypeOK, Tick
    <2>6. CASE UNCHANGED vars
        BY <2>6 DEF TypeOK, vars
    <2> QED BY <2>1, <2>2, <2>3, <2>4, <2>5, <2>6 DEF Next, Handle
<1> QED BY <1>1, <1>2, PTL DEF Spec

-----------------------------------------------------------------------------
(* The rate limit                                                           *)

Calls(a) == {c \in admitted : ActorOf[c.by] = a}

\* The calls of the current window, and those from time x on that came before it.
Late(a) == {c \in Calls(a) : c.at >= bucket[a].start}
Early(a, x) == {c \in Calls(a) : x <= c.at /\ c.at < bucket[a].start}

\* A bucket in use counts the calls of its window, one of them at the start, and
\* no call is later than its window.
BucketCounts(a) ==
    LET b == bucket[a]
    IN  IF b = NoBucket THEN Calls(a) = {}
        ELSE /\ b.count >= 1 /\ 0 <= b.start /\ b.start <= now
             /\ Cardinality(Late(a)) <= RateMax /\ Cardinality(Late(a)) <= b.count
             /\ \E c \in Calls(a) : c.at = b.start
             /\ \A c \in Calls(a) : c.at < b.start + RateWindow

\* A stretch that ends before the current window, and is no longer than a window
\* when taken on to its start, misses the first call of the window before.
FirstIsMissed(a) ==
    \A x \in Int : x + RateWindow > bucket[a].start => Cardinality(Early(a, x)) < RateMax

RateInv ==
    /\ IsFiniteSet(admitted)
    /\ \A c \in admitted : c.at <= now /\ result[c.by] # "none"
    /\ \A a \in Actor : BucketCounts(a) /\ FirstIsMissed(a)
    /\ RateBounded

\* The sets the invariant counts are finite.
LEMMA CallsFinite ==
    ASSUME RateInv
    PROVE  \A a, x : /\ IsFiniteSet(Calls(a)) /\ IsFiniteSet(Late(a))
                     /\ IsFiniteSet(Early(a, x))
                     /\ Cardinality(Late(a)) \in Nat /\ Cardinality(Early(a, x)) \in Nat
<1> TAKE a, x
<1>1. Calls(a) \in SUBSET admitted /\ IsFiniteSet(admitted)
    BY DEF Calls, RateInv
<1>2. Late(a) \in SUBSET admitted /\ Early(a, x) \in SUBSET admitted
    BY <1>1 DEF Late, Early
<1>3. IsFiniteSet(Calls(a)) /\ IsFiniteSet(Late(a)) /\ IsFiniteSet(Early(a, x))
    BY <1>1, <1>2, FS_Subset
<1> QED BY <1>3, FS_CardinalityType

\* The first call of a new window is within the limit.  The calls since the start
\* of the old one are at most the limit, and a stretch that begins later misses
\* the first of them.
LEMMA NewWindow ==
    ASSUME TypeOK, RateInv, NEW r \in Request, Evaluate(r), UNCHANGED now,
           LET b == bucket[ActorOf[r]] IN b = NoBucket \/ now - b.start >= RateWindow
    PROVE  BucketCounts(ActorOf[r])' /\ FirstIsMissed(ActorOf[r])'
<1> DEFINE a == ActorOf[r]
           b == bucket[a]
           c0 == [by |-> r, at |-> now]
<1>1. a \in Actor /\ b \in [count : Nat, start : -1..MaxTime] /\ now \in 0..MaxTime
    BY DEF TypeOK
<1>2. RateBucket(a).start = now /\ RateBucket(a).count = 1
    BY <1>1, BucketTyped
<1>3. bucket'[a] = RateBucket(a) /\ admitted' = admitted \cup {c0}
    BY <1>1, <1>2 DEF Evaluate, TypeOK
<1>4. Calls(a)' = Calls(a) \cup {c0}
    BY <1>3 DEF Calls
<1>5. ASSUME NEW c \in Calls(a)
      PROVE  /\ b # NoBucket /\ c.at < b.start + RateWindow /\ c.at < now
             /\ c.at \in Int
    <2>1. b # NoBucket
        BY <1>1, <1>5 DEF RateInv, BucketCounts
    <2>2. c.at < b.start + RateWindow /\ now - b.start >= RateWindow
        BY <1>1, <1>5, <2>1 DEF RateInv, BucketCounts
    <2>3. c.at \in Int
        BY <1>5 DEF Calls, TypeOK
    <2> QED BY <1>1, <2>1, <2>2, <2>3
<1>6. Late(a)' = {c0}
    BY <1>1, <1>2, <1>3, <1>4, <1>5 DEF Late
<1>7. Cardinality(Late(a)') = 1
    BY <1>6, FS_Singleton
<1>8. bucket'[a] # NoBucket
    BY <1>2, <1>3 DEF NoBucket
<1>9. BucketCounts(a)'
    <2>1. c0 \in Calls(a)' /\ c0.at = now
        BY <1>4
    <2>2. \A c \in Calls(a)' : c.at < now + RateWindow
        BY <1>1, <1>4, <1>5
    <2>3. BucketCounts(a)' = (/\ RateBucket(a).count >= 1 /\ 0 <= RateBucket(a).start
                              /\ RateBucket(a).start <= now
                              /\ Cardinality(Late(a)') <= RateMax
                              /\ Cardinality(Late(a)') <= RateBucket(a).count
                              /\ \E c \in Calls(a)' : c.at = RateBucket(a).start
                              /\ \A c \in Calls(a)' : c.at < RateBucket(a).start + RateWindow)
        BY <1>3, <1>8 DEF BucketCounts
    <2> QED BY <1>1, <1>2, <1>7, <2>1, <2>2, <2>3
<1>10. ASSUME NEW x \in Int, x + RateWindow > now
       PROVE  Cardinality(Early(a, x)') < RateMax
    <2>1. Early(a, x)' = {c \in Calls(a) : x <= c.at}
        BY <1>1, <1>2, <1>3, <1>4, <1>5 DEF Early
    <2>2. CASE b = NoBucket
        <3>1. Early(a, x)' = {}
            BY <1>5, <2>1, <2>2
        <3> QED BY <3>1, FS_EmptySet
    <2>3. CASE b # NoBucket
        <3>1. now - b.start >= RateWindow
            BY <2>3
        <3>2. PICK cf \in Calls(a) : cf.at = b.start
            BY <1>1, <2>3 DEF RateInv, BucketCounts
        <3>3. cf \in Late(a) /\ Cardinality(Late(a)) <= RateMax
            BY <1>1, <2>3, <3>2 DEF Late, RateInv, BucketCounts
        <3>4. Early(a, x)' \in SUBSET (Late(a) \ {cf})
            BY <1>1, <1>5, <1>10, <2>1, <3>1, <3>2 DEF Late
        <3>5. IsFiniteSet(Late(a)) /\ Cardinality(Late(a)) \in Nat
            BY CallsFinite
        <3>6. /\ IsFiniteSet(Late(a) \ {cf})
              /\ Cardinality(Late(a) \ {cf}) = Cardinality(Late(a)) - 1
            BY <3>3, <3>5, FS_RemoveElement
        <3>7. /\ IsFiniteSet(Early(a, x)')
              /\ Cardinality(Early(a, x)') <= Cardinality(Late(a)) - 1
            BY <3>4, <3>6, FS_Subset
        <3>8. Cardinality(Early(a, x)') \in Nat
            BY <3>7, FS_CardinalityType
        <3> QED BY <3>3, <3>5, <3>7, <3>8
    <2> QED BY <2>2, <2>3
<1>11. FirstIsMissed(a)'
    BY <1>2, <1>3, <1>10 DEF FirstIsMissed
<1> QED BY <1>9, <1>11

\* A later call of a window is let through only while fewer than the limit were.
LEMMA SameWindow ==
    ASSUME TypeOK, RateInv, NEW r \in Request, result[r] = "none",
           Evaluate(r), UNCHANGED now,
           LET b == bucket[ActorOf[r]] IN ~(b = NoBucket \/ now - b.start >= RateWindow)
    PROVE  BucketCounts(ActorOf[r])' /\ FirstIsMissed(ActorOf[r])'
<1> DEFINE a == ActorOf[r]
           b == bucket[a]
           c0 == [by |-> r, at |-> now]
<1>1. a \in Actor /\ b \in [count : Nat, start : -1..MaxTime] /\ now \in 0..MaxTime
    BY DEF TypeOK
<1>2. RateBucket(a).start = b.start /\ RateBucket(a).count = b.count + 1
    BY <1>1, BucketTyped
<1>3. /\ bucket'[a] = RateBucket(a)
      /\ admitted' = IF b.count + 1 <= RateMax THEN admitted \cup {c0} ELSE admitted
    BY <1>1, <1>2 DEF Evaluate, TypeOK
<1>4. c0 \notin admitted
    BY DEF RateInv
<1>5. /\ b # NoBucket /\ b.count >= 1 /\ 0 <= b.start /\ b.start <= now
      /\ now < b.start + RateWindow
      /\ Cardinality(Late(a)) <= RateMax /\ Cardinality(Late(a)) <= b.count
      /\ \E c \in Calls(a) : c.at = b.start
      /\ \A c \in Calls(a) : c.at < b.start + RateWindow
    BY <1>1 DEF RateInv, BucketCounts
<1>6. Calls(a)' = IF b.count + 1 <= RateMax THEN Calls(a) \cup {c0} ELSE Calls(a)
    BY <1>3 DEF Calls
<1>7. Late(a)' = IF b.count + 1 <= RateMax THEN Late(a) \cup {c0} ELSE Late(a)
    BY <1>1, <1>2, <1>3, <1>5, <1>6 DEF Late
<1>8. IsFiniteSet(Late(a)) /\ Cardinality(Late(a)) \in Nat /\ c0 \notin Late(a)
    BY <1>4, CallsFinite DEF Late, Calls
<1>9. Cardinality(Late(a)') <= RateMax /\ Cardinality(Late(a)') <= b.count + 1
    <2>1. CASE b.count + 1 <= RateMax
        <3>1. Cardinality(Late(a)') = Cardinality(Late(a)) + 1
            BY <1>7, <1>8, <2>1, FS_AddElement
        <3> QED BY <1>1, <1>5, <1>8, <2>1, <3>1
    <2>2. CASE ~(b.count + 1 <= RateMax)
        <3>1. Late(a)' = Late(a)
            BY <1>7, <2>2
        <3> QED BY <1>1, <1>5, <1>8, <3>1
    <2> QED BY <2>1, <2>2
<1>10. BucketCounts(a)'
    <2>1. bucket'[a] # NoBucket
        BY <1>1, <1>2, <1>3, <1>5 DEF NoBucket
    <2>2. /\ \E c \in Calls(a)' : c.at = b.start
          /\ \A c \in Calls(a)' : c.at < b.start + RateWindow
        BY <1>5, <1>6
    <2>3. BucketCounts(a)' = (/\ b.count + 1 >= 1 /\ 0 <= b.start /\ b.start <= now
                              /\ Cardinality(Late(a)') <= RateMax
                              /\ Cardinality(Late(a)') <= b.count + 1
                              /\ \E c \in Calls(a)' : c.at = b.start
                              /\ \A c \in Calls(a)' : c.at < b.start + RateWindow)
        BY <1>2, <1>3, <2>1 DEF BucketCounts
    <2> QED BY <1>1, <1>5, <1>9, <2>2, <2>3
<1>11. \A x : Early(a, x)' = Early(a, x)
    BY <1>1, <1>2, <1>3, <1>5, <1>6 DEF Early
<1>12. FirstIsMissed(a)'
    BY <1>1, <1>2, <1>3, <1>11 DEF FirstIsMissed, RateInv
<1> QED BY <1>10, <1>12

\* A stretch that takes in the call let through now holds calls of the current
\* window and calls before it.
LEMMA AdmitKeepsRate ==
    ASSUME TypeOK, RateInv, NEW r \in Request, result[r] = "none",
           Evaluate(r), UNCHANGED now
    PROVE  RateInv'
<1> DEFINE a == ActorOf[r]
           c0 == [by |-> r, at |-> now]
<1>1. a \in Actor /\ now \in 0..MaxTime
    BY DEF TypeOK
<1>2. BucketCounts(a)' /\ FirstIsMissed(a)'
    BY NewWindow, SameWindow
<1>3. /\ bucket' = [bucket EXCEPT ![a] = RateBucket(a)]
      /\ admitted' = admitted \/ admitted' = admitted \cup {c0}
    BY DEF Evaluate
<1>4. IsFiniteSet(admitted')
    <2>1. IsFiniteSet(admitted) /\ IsFiniteSet(admitted \cup {c0})
        BY FS_AddElement DEF RateInv
    <2> QED BY <1>3, <2>1
<1>5. \A q \in Request : result[q] # "none" \/ q = r => result'[q] # "none"
    BY DEF Evaluate, TypeOK
<1>6. \A c \in admitted' : c.at <= now /\ result'[c.by] # "none"
    BY <1>1, <1>3, <1>5 DEF RateInv, TypeOK
<1>7. ASSUME NEW e \in Actor, e # a PROVE BucketCounts(e)' /\ FirstIsMissed(e)'
    <2>1. Calls(e)' = Calls(e) /\ bucket'[e] = bucket[e]
        BY <1>3, <1>7 DEF Calls, TypeOK
    <2>2. Late(e)' = Late(e) /\ \A x : Early(e, x)' = Early(e, x)
        BY <2>1 DEF Late, Early
    <2>3. BucketCounts(e)' = BucketCounts(e) /\ FirstIsMissed(e)' = FirstIsMissed(e)
        BY <2>1, <2>2 DEF BucketCounts, FirstIsMissed
    <2> QED BY <2>3 DEF RateInv
<1>8. ASSUME NEW e \in Actor, NEW from \in 0..MaxTime
      PROVE  Cardinality(Within(e, from)') < 2 * RateMax
    <2>1. CASE Within(e, from)' = Within(e, from)
        BY <2>1 DEF RateInv, RateBounded
    <2>2. CASE Within(e, from)' # Within(e, from)
        <3>1. e = a /\ now \in from..(from + RateWindow - 1)
            BY <1>3, <2>2 DEF Within
        <3>2. bucket'[a].start \in Int /\ bucket'[a].start <= now
            <4>1. bucket'[a] = RateBucket(a)
                BY <1>1, <1>3 DEF TypeOK
            <4>2. bucket[a].start \in Int /\ bucket[a].start <= now
                <5>1. CASE bucket[a] = NoBucket
                    BY <1>1, <5>1 DEF NoBucket
                <5>2. CASE bucket[a] # NoBucket
                    BY <1>1, <5>2 DEF RateInv, BucketCounts, TypeOK
                <5> QED BY <5>1, <5>2
            <4>3. RateBucket(a).start = now \/ RateBucket(a).start = bucket[a].start
                BY <1>1, BucketTyped
            <4> QED BY <1>1, <4>1, <4>2, <4>3
        <3>3. Cardinality(Early(a, from)') < RateMax
            BY <1>1, <1>2, <3>1, <3>2 DEF FirstIsMissed
        <3>4. Cardinality(Late(a)') <= RateMax
            <4>1. c0 \in Calls(a)'
                BY <1>3, <2>2, <3>1 DEF Calls, Within
            <4> QED BY <1>2, <4>1 DEF BucketCounts
        <3>5. Within(a, from)' \in SUBSET (Early(a, from)' \cup Late(a)')
            <4>1. ASSUME NEW c \in Within(a, from)'
                  PROVE  c \in Early(a, from)' \cup Late(a)'
                <5>1. c \in Calls(a)' /\ c.at \in from..(from + RateWindow - 1)
                    BY <4>1 DEF Within, Calls
                <5>2. from <= c.at /\ c.at \in Int
                    BY <5>1
                <5> QED BY <3>2, <5>1, <5>2 DEF Early, Late
            <4> QED BY <4>1
        <3>6. Early(a, from)' \in SUBSET admitted' /\ Late(a)' \in SUBSET admitted'
            BY DEF Early, Late, Calls
        <3>7. IsFiniteSet(Early(a, from)') /\ IsFiniteSet(Late(a)')
            BY <1>4, <3>6, FS_Subset
        <3> DEFINE both == Early(a, from)' \cup Late(a)'
        <3>8. /\ IsFiniteSet(both)
              /\ Cardinality(both) = Cardinality(Early(a, from)') + Cardinality(Late(a)')
                                     - Cardinality(Early(a, from)' \cap Late(a)')
            BY <3>7, FS_Union
        <3>9. IsFiniteSet(Early(a, from)' \cap Late(a)')
            BY <3>7, FS_Intersection
        <3>10. IsFiniteSet(Within(a, from)')
               /\ Cardinality(Within(a, from)') <= Cardinality(both)
            BY <3>5, <3>8, FS_Subset
        <3>11. /\ Cardinality(Early(a, from)') \in Nat /\ Cardinality(Late(a)') \in Nat
               /\ Cardinality(Early(a, from)' \cap Late(a)') \in Nat
               /\ Cardinality(Within(a, from)') \in Nat
            BY <3>7, <3>9, <3>10, FS_CardinalityType
        <3> QED BY <3>1, <3>3, <3>4, <3>8, <3>10, <3>11
    <2> QED BY <2>1, <2>2
<1>9. RateBounded'
    BY <1>8 DEF RateBounded
<1>10. \A e \in Actor : BucketCounts(e)' /\ FirstIsMissed(e)'
    BY <1>2, <1>7
<1> QED BY <1>4, <1>6, <1>9, <1>10 DEF RateInv

\* The other stages let nothing through; only the clock and the answers change.
LEMMA OthersKeepRate ==
    ASSUME TypeOK, RateInv, UNCHANGED <<bucket, admitted>>, now' \in Nat, now' >= now,
           \A q \in Request : result[q] # "none" => result'[q] # "none"
    PROVE  RateInv'
<1>1. \A c \in admitted : c.at \in 0..MaxTime /\ c.by \in Request
    BY DEF TypeOK
<1>2. \A c \in admitted' : c.at <= now' /\ result'[c.by] # "none"
    BY <1>1 DEF RateInv, TypeOK
<1>3. ASSUME NEW a \in Actor PROVE BucketCounts(a)' /\ FirstIsMissed(a)'
    <2>1. /\ Calls(a)' = Calls(a) /\ bucket'[a] = bucket[a]
          /\ bucket[a].start \in Int /\ now \in Int
        BY DEF Calls, TypeOK
    <2>2. Late(a)' = Late(a) /\ \A x : Early(a, x)' = Early(a, x)
        BY <2>1 DEF Late, Early
    <2>3. BucketCounts(a) /\ FirstIsMissed(a)
        BY DEF RateInv
    <2>4. BucketCounts(a)'
        BY <2>1, <2>2, <2>3 DEF BucketCounts
    <2> QED BY <2>1, <2>2, <2>3, <2>4 DEF FirstIsMissed
<1>4. RateBounded'
    BY DEF RateInv, RateBounded, Within
<1> QED BY <1>2, <1>3, <1>4 DEF RateInv

\* No stretch as long as a window takes in two windows full of calls, for any
\* number of requests in any order, and whenever they come (policy engine,
\* checkRateLimit).
THEOREM RateIsBounded == Spec => []RateBounded
<1>1. Init => RateInv
    <2> SUFFICES ASSUME Init PROVE RateInv
        OBVIOUS
    <2>1. IsFiniteSet({}) /\ Cardinality({}) = 0
        BY FS_EmptySet
    <2>2. admitted = {} /\ \A a : Calls(a) = {}
        BY DEF Init, Calls
    <2>3. \A a, x : Early(a, x) = {} /\ Within(a, x) = {}
        BY <2>2 DEF Early, Within
    <2>4. \A a \in Actor : bucket[a] = NoBucket
        BY DEF Init
    <2>5. \A a \in Actor : BucketCounts(a)
        BY <2>2, <2>4 DEF BucketCounts
    <2>6. (\A a \in Actor : FirstIsMissed(a)) /\ RateBounded
        <3>1. 0 < RateMax /\ 0 < 2 * RateMax
            OBVIOUS
        <3>2. \A a \in Actor : \A x \in Int : Cardinality(Early(a, x)) < RateMax
            BY <2>1, <2>3, <3>1
        <3>3. \A a \in Actor : \A x \in 0..MaxTime : Cardinality(Within(a, x)) < 2 * RateMax
            BY <2>1, <2>3, <3>1
        <3> QED BY <3>2, <3>3 DEF FirstIsMissed, RateBounded
    <2> QED BY <2>1, <2>2, <2>5, <2>6 DEF RateInv
<1>2. TypeOK /\ RateInv /\ [Next]_vars => RateInv'
    <2> SUFFICES ASSUME TypeOK, RateInv, [Next]_vars PROVE RateInv'
        OBVIOUS
    <2>0. now \in Nat /\ now >= now /\ now + 1 \in Nat /\ now + 1 >= now
        BY DEF TypeOK
    <2>1. ASSUME NEW r \in Request, Plan(r) PROVE RateInv'
        BY <2>1, AdmitKeepsRate DEF Plan
    <2>2. ASSUME NEW r \in Request, Block(r) \/ Throw(r) \/ Finish(r) PROVE RateInv'
        <3>1. \E w \in Answers : result' = [result EXCEPT ![r] = w]
            BY <2>2 DEF Block, Throw, Finish, Answers, Waiting, TypeOK
        <3>2. \A q \in Request : result[q] # "none" => result'[q] # "none"
            BY <3>1 DEF Answers, TypeOK
        <3>3. UNCHANGED <<bucket, admitted, now>>
            BY <2>2 DEF Block, Throw, Finish
        <3> QED BY <2>0, <3>2, <3>3, OthersKeepRate
    <2>3. CASE Tick
        BY <2>0, <2>3, OthersKeepRate DEF Tick
    <2>4. CASE UNCHANGED vars
        BY <2>0, <2>4, OthersKeepRate DEF vars
    <2> QED BY <2>1, <2>2, <2>3, <2>4 DEF Next, Handle
<1>3. RateInv => RateBounded
    BY DEF RateInv
<1> QED BY <1>1, <1>2, <1>3, TypeCorrect, PTL DEF Spec

-----------------------------------------------------------------------------
(* The traces                                                               *)

\* What a request has recorded by the time it has an answer, or waits for one.
StageOf(r) ==
    /\ result[r] = "none" => steps[r] = <<>>
    /\ result[r] \in Waiting => Len(steps[r]) = 4
    /\ result[r] = "threw" => Len(steps[r]) \in {0, 2, 3}
    /\ result[r] = "blocked" =>
           steps[r] = <<[by |-> r, type |-> "ingress", status |-> "blocked"]>>
    /\ result[r] \in {"done success", "done denied", "done skipped"} => Len(steps[r]) = 6
    /\ \A n \in DOMAIN steps[r] : n <= 6 /\ steps[r][n].type = Whole[n]
    /\ result[r] \in {"executing", "done success"} =>
           /\ Governed(r) /\ InputOf[r].scope = "code"
           /\ \E c \in admitted : c.by = r

StepInv == \A r \in Request : Tells(trace[TraceOf[r]], steps[r], r) /\ StageOf(r)

\* Places up to n and j more after it.
LEMMA PlacesGrow ==
    ASSUME NEW n \in Nat, NEW j \in Nat, NEW P \in SUBSET (1 .. n)
    PROVE  /\ IsFiniteSet(P) /\ Cardinality(P) \in Nat
           /\ Cardinality(P \cup ((n + 1) .. (n + j))) = Cardinality(P) + j
<1>1. IsFiniteSet(P)
    <2>1. IsFiniteSet(1 .. n)
        BY FS_Interval
    <2> QED BY <2>1, FS_Subset
<1>2. IsFiniteSet((n + 1) .. (n + j)) /\ Cardinality((n + 1) .. (n + j)) = j
    <2>1. n + 1 \in Int /\ n + j \in Int
        OBVIOUS
    <2>2. /\ IsFiniteSet((n + 1) .. (n + j))
          /\ Cardinality((n + 1) .. (n + j))
                = IF n + 1 > n + j THEN 0 ELSE (n + j) - (n + 1) + 1
        BY <2>1, FS_Interval
    <2>3. j = IF n + 1 > n + j THEN 0 ELSE (n + j) - (n + 1) + 1
        OBVIOUS
    <2> QED BY <2>2, <2>3
<1>3. P \cap ((n + 1) .. (n + j)) = {}
    OBVIOUS
<1>4. Cardinality(P) \in Nat
    BY <1>1, FS_CardinalityType
<1>5. Cardinality(P \cup ((n + 1) .. (n + j))) = Cardinality(P) + j - Cardinality({})
    BY <1>1, <1>2, <1>3, FS_Union
<1> QED BY <1>1, <1>4, <1>5, FS_EmptySet

\* Steps of another request that go to the end of a trace leave what it tells of
\* this one.
LEMMA OthersTellNothing ==
    ASSUME NEW t \in Seq(AAESStep), NEW e \in Seq(AAESStep), NEW own, NEW q,
           Tells(t, own, q), \A i \in 1 .. Len(e) : e[i].by # q
    PROVE  Tells(t \o e, own, q)
<1> DEFINE u == t \o e
<1>1. PICK n \in Nat, k \in Nat :
          /\ n = Len(t) /\ k = Len(e) /\ Len(u) = n + k
          /\ \A m \in 1 .. n : u[m] = t[m]
          /\ \A i \in 1 .. k : u[n + i] = e[i]
    <2>1. /\ Len(t) \in Nat /\ Len(e) \in Nat /\ Len(u) = Len(t) + Len(e)
          /\ \A m \in 1 .. Len(t) : u[m] = t[m]
          /\ \A i \in 1 .. Len(e) : u[Len(t) + i] = e[i]
        OBVIOUS
    <2> HIDE DEF u
    <2> QED BY <2>1
<1> HIDE DEF u
<1>2. \A m \in 0 .. n : Places(u, q, m) = Places(t, q, m)
    BY <1>1 DEF Places
<1>3. ASSUME NEW m \in 1 .. (n + k), u[m].by = q PROVE m \in 1 .. n
    <2> SUFFICES ASSUME m > n PROVE FALSE
        OBVIOUS
    <2>1. m - n \in 1 .. k /\ n + (m - n) = m
        OBVIOUS
    <2>2. u[m] = e[m - n]
        BY <1>1, <2>1
    <2> QED BY <1>1, <1>3, <2>1, <2>2
<1>4. Places(u, q, n + k) = Places(t, q, n)
    BY <1>1, <1>3 DEF Places
<1>5. /\ Cardinality(Places(t, q, n)) = Len(own)
      /\ \A m \in Places(t, q, n) : t[m] = own[Cardinality(Places(t, q, m))]
    BY <1>1 DEF Tells
<1>6. ASSUME NEW m \in Places(t, q, n) PROVE u[m] = own[Cardinality(Places(u, q, m))]
    <2>1. m \in 1 .. n /\ m \in 0 .. n
        BY DEF Places
    <2> QED BY <1>1, <1>2, <1>5, <2>1
<1> QED BY <1>1, <1>4, <1>5, <1>6 DEF Tells, u

\* Steps of a request that go to the end of a trace and of its own list are told.
LEMMA OwnAreTold ==
    ASSUME NEW t \in Seq(AAESStep), NEW e \in Seq(AAESStep), NEW own \in Seq(AAESStep),
           NEW r, Tells(t, own, r), \A i \in 1 .. Len(e) : e[i].by = r
    PROVE  Tells(t \o e, own \o e, r)
<1> DEFINE u == t \o e
           v == own \o e
<1>1. PICK n \in Nat, k \in Nat :
          /\ n = Len(t) /\ k = Len(e) /\ Len(u) = n + k
          /\ \A m \in 1 .. n : u[m] = t[m]
          /\ \A i \in 1 .. k : u[n + i] = e[i]
    <2>1. /\ Len(t) \in Nat /\ Len(e) \in Nat /\ Len(u) = Len(t) + Len(e)
          /\ \A m \in 1 .. Len(t) : u[m] = t[m]
          /\ \A i \in 1 .. Len(e) : u[Len(t) + i] = e[i]
        OBVIOUS
    <2> HIDE DEF u
    <2> QED BY <2>1
<1>2. PICK l \in Nat :
          /\ l = Len(own) /\ Len(v) = l + k
          /\ \A m \in 1 .. l : v[m] = own[m]
          /\ \A i \in 1 .. k : v[l + i] = e[i]
    <2>1. /\ Len(own) \in Nat /\ Len(v) = Len(own) + Len(e)
          /\ \A m \in 1 .. Len(own) : v[m] = own[m]
          /\ \A i \in 1 .. Len(e) : v[Len(own) + i] = e[i]
        OBVIOUS
    <2> HIDE DEF u, v
    <2> QED BY <1>1, <2>1
<1> HIDE DEF u, v
<1>3. \A m \in 0 .. n : Places(u, r, m) = Places(t, r, m)
    BY <1>1 DEF Places
<1>4. /\ Places(t, r, n) \in SUBSET (1 .. n) /\ Cardinality(Places(t, r, n)) = l
      /\ \A m \in Places(t, r, n) : t[m] = own[Cardinality(Places(t, r, m))]
    BY <1>1, <1>2 DEF Tells, Places
<1>5. ASSUME NEW j \in 0 .. k
      PROVE  /\ Places(u, r, n + j) = Places(t, r, n) \cup ((n + 1) .. (n + j))
             /\ Cardinality(Places(u, r, n + j)) = l + j
    <2>1. ASSUME NEW m \in (n + 1) .. (n + j) PROVE u[m].by = r
        <3>0. m \in Int /\ n + 1 <= m /\ m <= n + j /\ j \in Int /\ j <= k
            BY <2>1
        <3>1. m - n \in 1 .. k /\ n + (m - n) = m
            BY <3>0
        <3>2. u[m] = e[m - n]
            BY <1>1, <3>1
        <3> QED BY <1>1, <3>1, <3>2
    <2>2. Places(u, r, n + j) = Places(t, r, n) \cup ((n + 1) .. (n + j))
        BY <1>1, <2>1 DEF Places
    <2>3. j \in Nat
        OBVIOUS
    <2>4. /\ Places(t, r, n) \in SUBSET (1 .. n) /\ n \in Nat
          /\ Cardinality(Places(t, r, n)) = l
        BY <1>4
    <2>5. Cardinality(Places(t, r, n) \cup ((n + 1) .. (n + j)))
              = Cardinality(Places(t, r, n)) + j
        BY <2>3, <2>4, PlacesGrow, Zenon
    <2> QED BY <2>2, <2>4, <2>5
<1>6. ASSUME NEW m \in Places(t, r, n) PROVE u[m] = v[Cardinality(Places(u, r, m))]
    <2>1. m \in 1 .. n /\ m \in 0 .. n /\ m \in Places(t, r, m)
        BY DEF Places
    <2>2. Places(t, r, m) \in SUBSET Places(t, r, n)
        BY <2>1 DEF Places
    <2>3. IsFiniteSet(Places(t, r, n))
        BY <1>4, PlacesGrow
    <2>4. IsFiniteSet(Places(t, r, m)) /\ Cardinality(Places(t, r, m)) <= l
        BY <1>4, <2>2, <2>3, FS_Subset
    <2>5. Cardinality(Places(t, r, m)) \in Nat /\ Cardinality(Places(t, r, m)) # 0
        BY <2>1, <2>4, FS_EmptySet, FS_CardinalityType
    <2>6. Cardinality(Places(t, r, m)) \in 1 .. l
        BY <2>4, <2>5
    <2> QED BY <1>1, <1>2, <1>3, <1>4, <2>1, <2>6
<1>7. ASSUME NEW m \in (n + 1) .. (n + k) PROVE u[m] = v[Cardinality(Places(u, r, m))]
    <2>1. m - n \in 1 .. k /\ m - n \in 0 .. k /\ n + (m - n) = m
        OBVIOUS
    <2>2. Cardinality(Places(u, r, m)) = l + (m - n)
        BY <1>5, <2>1
    <2>3. u[m] = e[m - n] /\ v[l + (m - n)] = e[m - n]
        BY <1>1, <1>2, <2>1
    <2> QED BY <2>2, <2>3
<1>8. k \in 0 .. k
    OBVIOUS
<1> QED BY <1>1, <1>2, <1>5, <1>6, <1>7, <1>8 DEF Tells, u, v

\* A request's record in its trace is told, and nothing else changes.
LEMMA RecordTells ==
    ASSUME TypeOK, \A q \in Request : Tells(trace[TraceOf[q]], steps[q], q),
           NEW r \in Request, NEW types \in Seq(StepTypes), NEW status \in Statuses,
           Record(r, types, status)
    PROVE  \A q \in Request : Tells(trace'[TraceOf[q]], steps'[q], q)
<1> DEFINE made == Made(r, types, status)
<1>1. made \in Seq(AAESStep)
    BY MadeSteps
<1>2. \A i \in 1 .. Len(made) : made[i].by = r
    <2>1. Len(made) = Len(types)
        BY MadeSteps
    <2>2. \A i \in 1 .. Len(types) :
              made[i] = [by |-> r, type |-> types[i], status |-> status]
        BY MadeSteps
    <2> TAKE i \in 1 .. Len(made)
    <2>3. made[i] = [by |-> r, type |-> types[i], status |-> status]
        BY <2>1, <2>2
    <2>4. [by |-> r, type |-> types[i], status |-> status].by = r
        OBVIOUS
    <2> HIDE DEF made
    <2> QED BY <2>3, <2>4
<1>3. /\ trace' = [trace EXCEPT ![TraceOf[r]] = trace[TraceOf[r]] \o made]
      /\ steps' = [steps EXCEPT ![r] = steps[r] \o made]
    BY DEF Record
<1> HIDE DEF made
<1>4. \A q \in Request : /\ TraceOf[q] \in TraceId
                         /\ trace[TraceOf[q]] \in Seq(AAESStep)
                         /\ steps[q] \in Seq(AAESStep)
    BY DEF TypeOK
<1>5. /\ trace'[TraceOf[r]] = trace[TraceOf[r]] \o made
      /\ steps'[r] = steps[r] \o made
      /\ \A q \in Request \ {r} : steps'[q] = steps[q]
      /\ \A i \in TraceId \ {TraceOf[r]} : trace'[i] = trace[i]
    BY <1>3, <1>4 DEF TypeOK
<1>6. ASSUME NEW q \in Request PROVE Tells(trace'[TraceOf[q]], steps'[q], q)
    <2>1. CASE q = r
        <3>1. /\ trace[TraceOf[r]] \in Seq(AAESStep) /\ steps[r] \in Seq(AAESStep)
              /\ Tells(trace[TraceOf[r]], steps[r], r)
            BY <1>4
        <3>2. Tells(trace[TraceOf[r]] \o made, steps[r] \o made, r)
            BY <1>1, <1>2, <3>1, OwnAreTold, Zenon
        <3> QED BY <1>5, <2>1, <3>2
    <2>2. CASE q # r /\ TraceOf[q] = TraceOf[r]
        <3>1. \A i \in 1 .. Len(made) : made[i].by # q
            BY <1>2, <2>2
        <3>2. trace[TraceOf[q]] \in Seq(AAESStep) /\ Tells(trace[TraceOf[q]], steps[q], q)
            BY <1>4
        <3>3. Tells(trace[TraceOf[q]] \o made, steps[q], q)
            BY <1>1, <3>1, <3>2, OthersTellNothing, Zenon
        <3>4. trace'[TraceOf[q]] = trace[TraceOf[q]] \o made /\ steps'[q] = steps[q]
            BY <1>5, <2>2
        <3> QED BY <3>3, <3>4
    <2>3. CASE TraceOf[q] # TraceOf[r]
        BY <1>4, <1>5, <2>3
    <2> QED BY <2>1, <2>2, <2>3
<1> QED BY <1>6

\* What record adds to the request's own list.
LEMMA OwnSteps ==
    ASSUME TypeOK, NEW r \in Request, NEW types \in Seq(StepTypes),
           NEW status \in Statuses, Record(r, types, status)
    PROVE  /\ Len(steps[r]) \in Nat /\ DOMAIN steps[r] = 1 .. Len(steps[r])
           /\ Len(steps'[r]) = Len(steps[r]) + Len(types)
           /\ DOMAIN steps'[r] = 1 .. (Len(steps[r]) + Len(types))
           /\ \A n \in 1 .. Len(steps[r]) : steps'[r][n] = steps[r][n]
           /\ \A n \in 1 .. Len(types) :
                 steps'[r][Len(steps[r]) + n]
                    = [by |-> r, type |-> types[n], status |-> status]
           /\ \A q \in Request \ {r} : steps'[q] = steps[q]
<1> DEFINE made == Made(r, types, status)
<1>1. /\ made \in Seq(AAESStep) /\ Len(made) = Len(types)
      /\ \A n \in 1 .. Len(types) : made[n] = [by |-> r, type |-> types[n], status |-> status]
    BY MadeSteps
<1>2. steps' = [steps EXCEPT ![r] = steps[r] \o made]
    BY DEF Record
<1> HIDE DEF made
<1>3. /\ steps[r] \in Seq(AAESStep) /\ steps'[r] = steps[r] \o made
      /\ \A q \in Request \ {r} : steps'[q] = steps[q]
    BY <1>2 DEF TypeOK
<1>4. /\ Len(steps[r]) \in Nat /\ DOMAIN steps[r] = 1 .. Len(steps[r])
      /\ Len(steps[r] \o made) = Len(steps[r]) + Len(made)
      /\ DOMAIN (steps[r] \o made) = 1 .. (Len(steps[r]) + Len(made))
    <2>1. Len(steps[r]) \in Nat /\ DOMAIN steps[r] = 1 .. Len(steps[r])
        BY <1>3
    <2>2. steps[r] \o made \in Seq(AAESStep)
        BY <1>1, <1>3
    <2>3. Len(steps[r] \o made) = Len(steps[r]) + Len(made)
        <3>1. steps[r] \in Seq(AAESStep) /\ made \in Seq(AAESStep)
            BY <1>1, <1>3
        <3> QED BY <3>1, Z3
    <2>4. DOMAIN (steps[r] \o made) = 1 .. Len(steps[r] \o made)
        BY <2>2
    <2> QED BY <2>1, <2>3, <2>4
<1>5. /\ \A n \in 1 .. Len(steps[r]) : (steps[r] \o made)[n] = steps[r][n]
      /\ \A n \in 1 .. Len(made) : (steps[r] \o made)[Len(steps[r]) + n] = made[n]
    BY <1>1, <1>3
<1>6. \A n \in 1 .. Len(types) : (steps[r] \o made)[Len(steps[r]) + n]
                                     = [by |-> r, type |-> types[n], status |-> status]
    BY <1>1, <1>5
<1> QED BY <1>1, <1>3, <1>4, <1>5, <1>6

\* Steps of the right types at the right places extend the part of the whole.
LEMMA PartOfWhole ==
    ASSUME TypeOK, NEW r \in Request, NEW types \in Seq(StepTypes),
           NEW status \in Statuses, Record(r, types, status),
           \A n \in DOMAIN steps[r] : n <= 6 /\ steps[r][n].type = Whole[n],
           Len(steps[r]) + Len(types) <= 6,
           \A n \in 1 .. Len(types) : types[n] = Whole[Len(steps[r]) + n]
    PROVE  \A n \in DOMAIN steps'[r] : n <= 6 /\ steps'[r][n].type = Whole[n]
<1>1. PICK l \in Nat, k \in Nat : l = Len(steps[r]) /\ k = Len(types)
    BY OwnSteps
<1>2. /\ DOMAIN steps[r] = 1 .. l /\ DOMAIN steps'[r] = 1 .. (l + k) /\ l + k <= 6
      /\ \A n \in 1 .. l : steps'[r][n] = steps[r][n]
      /\ \A n \in 1 .. k : steps'[r][l + n]
                              = [by |-> r, type |-> types[n], status |-> status]
    BY <1>1, OwnSteps
<1> TAKE n \in DOMAIN steps'[r]
<1>3. n \in 1 .. (l + k) /\ n <= 6
    BY <1>2
<1>4. CASE n \in 1 .. l
    BY <1>2, <1>3, <1>4
<1>5. CASE n \notin 1 .. l
    <2>1. n - l \in 1 .. k /\ l + (n - l) = n
        BY <1>3, <1>5
    <2>2. steps'[r][n] = [by |-> r, type |-> types[n - l], status |-> status]
        BY <1>2, <2>1
    <2>3. steps'[r][n].type = types[n - l]
        BY <2>2
    <2>4. types[n - l] = Whole[n]
        BY <1>1, <2>1
    <2> QED BY <1>3, <2>3, <2>4
<1> QED BY <1>4, <1>5

\* A stage moves its own request on and leaves the others where they are.
LEMMA OthersStay ==
    ASSUME StepInv, TypeOK, NEW r \in Request, NEW q \in Request, q # r,
           steps'[q] = steps[q], NEW v, result' = [result EXCEPT ![r] = v],
           admitted \subseteq admitted'
    PROVE  StageOf(q)'
<1>1. result'[q] = result[q]
    BY DEF TypeOK
<1>2. StageOf(q)
    BY DEF StepInv
<1>3. (\E c \in admitted : c.by = q) => \E c \in admitted' : c.by = q
    OBVIOUS
<1> QED BY <1>1, <1>2, <1>3 DEF StageOf, Governed

LEMMA NoneYet ==
    ASSUME StepInv, NEW r \in Request, result[r] = "none"
    PROVE  steps[r] = <<>> /\ Len(steps[r]) = 0 /\ DOMAIN steps[r] = {}
<1>1. steps[r] = <<>>
    BY DEF StepInv, StageOf
<1>2. Len(<<>>) = 0 /\ DOMAIN <<>> = {}
    OBVIOUS
<1> QED BY <1>1, <1>2

LEMMA BlockStage ==
    ASSUME StepInv, TypeOK, NEW r \in Request, Block(r)
    PROVE  StageOf(r)'
<1>1. steps[r] = <<>> /\ Len(steps[r]) = 0 /\ DOMAIN steps[r] = {}
    BY NoneYet DEF Block
<1>2. result'[r] = "blocked"
    BY DEF Block, TypeOK
<1>3. /\ Record(r, <<"ingress">>, "blocked") /\ "blocked" \in Statuses
      /\ <<"ingress">> \in Seq(StepTypes) /\ Len(<<"ingress">>) = 1
    BY TypeLists DEF Block, Statuses
<1>4. \A n \in DOMAIN steps'[r] : n <= 6 /\ steps'[r][n].type = Whole[n]
    <2>1. \A n \in 1 .. 1 : <<"ingress">>[n] = Whole[n]
        BY DEF Whole
    <2> DEFINE types == <<"ingress">>
    <2>2. \A n \in 1 .. 1 : types[n] = Whole[n]
        BY <2>1
    <2> HIDE DEF types
    <2>3. /\ Record(r, types, "blocked") /\ types \in Seq(StepTypes)
          /\ Len(steps[r]) + Len(types) <= 6
          /\ \A n \in 1 .. Len(types) : types[n] = Whole[Len(steps[r]) + n]
        <3>1. Len(types) = 1 /\ Record(r, types, "blocked") /\ types \in Seq(StepTypes)
            BY <1>3 DEF types
        <3> QED BY <1>1, <2>2, <3>1
    <2> QED BY <1>1, <1>3, <2>3, PartOfWhole
<1>5. steps'[r] = <<[by |-> r, type |-> "ingress", status |-> "blocked"]>>
    <2> DEFINE e == [by |-> r, type |-> "ingress", status |-> "blocked"]
    <2>1. Len(steps'[r]) = 1 /\ steps'[r][1] = e
        <3> DEFINE types == <<"ingress">>
        <3>1. types[1] = "ingress" /\ Len(types) = 1
            OBVIOUS
        <3>2. Record(r, types, "blocked") /\ types \in Seq(StepTypes)
            BY <1>3
        <3> HIDE DEF types
        <3>3. /\ Len(steps'[r]) = 0 + 1
              /\ \A n \in 1 .. 1 : steps'[r][0 + n]
                                        = [by |-> r, type |-> types[n], status |-> "blocked"]
            BY <1>1, <1>3, <3>1, <3>2, OwnSteps
        <3>4. 1 \in 1 .. 1 /\ 0 + 1 = 1
            OBVIOUS
        <3> QED BY <3>1, <3>3, <3>4
    <2>2. steps'[r] \in Seq(AAESStep)
        BY <1>3, RecordTyped
    <2> HIDE DEF e
    <2>3. steps'[r] = <<e>>
        BY <2>1, <2>2
    <2> QED BY <2>3 DEF e
<1> QED BY <1>2, <1>4, <1>5 DEF StageOf, Waiting

LEMMA ThrowStage ==
    ASSUME StepInv, TypeOK, NEW r \in Request, Throw(r)
    PROVE  StageOf(r)'
<1>1. steps[r] = <<>> /\ Len(steps[r]) = 0 /\ DOMAIN steps[r] = {}
    BY NoneYet DEF Throw
<1>2. result'[r] = "threw"
    BY DEF Throw, TypeOK
<1>3. ASSUME NEW types \in {<<>>, <<"ingress", "perception">>,
                            <<"ingress", "perception", "deliberation">>},
             Record(r, types, "ok")
      PROVE  /\ \A n \in DOMAIN steps'[r] : n <= 6 /\ steps'[r][n].type = Whole[n]
             /\ Len(steps'[r]) \in {0, 2, 3}
    <2>1. "ok" \in Statuses /\ types \in Seq(StepTypes) /\ Len(types) \in {0, 2, 3}
        BY TypeLists DEF Statuses
    <2>2. \A n \in 1 .. Len(types) : types[n] = Whole[n]
        BY DEF Whole
    <2>3. Len(steps[r]) + Len(types) <= 6
          /\ \A n \in 1 .. Len(types) : types[n] = Whole[Len(steps[r]) + n]
        BY <1>1, <2>1, <2>2
    <2>4. \A n \in DOMAIN steps'[r] : n <= 6 /\ steps'[r][n].type = Whole[n]
        BY <1>1, <1>3, <2>1, <2>3, PartOfWhole
    <2>5. Len(steps'[r]) = Len(steps[r]) + Len(types)
        BY <1>3, <2>1, OwnSteps
    <2> QED BY <1>1, <2>1, <2>4, <2>5
<1>4. /\ \A n \in DOMAIN steps'[r] : n <= 6 /\ steps'[r][n].type = Whole[n]
      /\ Len(steps'[r]) \in {0, 2, 3}
    BY <1>3 DEF Throw
<1> QED BY <1>2, <1>4 DEF StageOf, Waiting

\* A plan is executed only for code, governed and within the limit.
LEMMA PlanStage ==
    ASSUME StepInv, TypeOK, NEW r \in Request, Plan(r)
    PROVE  StageOf(r)'
<1> DEFINE types == <<"ingress", "perception", "deliberation", "planning">>
<1>1. steps[r] = <<>> /\ Len(steps[r]) = 0 /\ DOMAIN steps[r] = {}
    BY NoneYet DEF Plan
<1>2. /\ Record(r, types, "ok") /\ "ok" \in Statuses
      /\ types \in Seq(StepTypes) /\ Len(types) = 4
    BY TypeLists DEF Plan, Statuses
<1>3. \A n \in 1 .. 4 : types[n] = Whole[n]
    BY DEF Whole
<1> HIDE DEF types
<1>4. /\ Len(steps[r]) + Len(types) <= 6
      /\ \A n \in 1 .. Len(types) : types[n] = Whole[Len(steps[r]) + n]
    BY <1>1, <1>2, <1>3
<1>5. \A n \in DOMAIN steps'[r] : n <= 6 /\ steps'[r][n].type = Whole[n]
    BY <1>1, <1>2, <1>4, PartOfWhole
<1>6. Len(steps'[r]) = 4
    BY <1>1, <1>2, OwnSteps
<1>7. result'[r] \in Waiting
    BY DEF Plan, Evaluate, Waiting, TypeOK
<1>8. result'[r] = "executing" => /\ Governed(r) /\ InputOf[r].scope = "code"
                                  /\ \E c \in admitted' : c.by = r
    <2> SUFFICES ASSUME result'[r] = "executing"
                 PROVE  /\ Governed(r) /\ InputOf[r].scope = "code"
                        /\ \E c \in admitted' : c.by = r
        OBVIOUS
    <2> DEFINE kind == SelectBestPlan(Deliberate(InputOf[r].intent), InputOf[r].intent)
               within == RateBucket(ActorOf[r]).count <= RateMax
    <2>1. /\ result' = [result EXCEPT ![r] =
               CASE ~within \/ ~InScope(kind, r) -> "denied"
                 [] within /\ InScope(kind, r) /\ CanHandle(kind) -> "executing"
                 [] OTHER -> "skipped"]
          /\ admitted' = IF within THEN admitted \cup {[by |-> r, at |-> now]} ELSE admitted
        BY DEF Plan, Evaluate
    <2> HIDE DEF kind, within
    <2>2. within /\ InScope(kind, r) /\ CanHandle(kind)
        BY <2>1 DEF TypeOK
    <2>3. InputOf[r].scope = "code"
        BY <2>2 DEF InScope, CanHandle
    <2>4. [by |-> r, at |-> now] \in admitted'
        BY <2>1, <2>2
    <2>5. Governed(r)
        BY DEF Plan
    <2> QED BY <2>3, <2>4, <2>5
<1> QED BY <1>5, <1>6, <1>7, <1>8 DEF StageOf, Waiting, Governed

LEMMA FinishStage ==
    ASSUME StepInv, TypeOK, NEW r \in Request, Finish(r)
    PROVE  StageOf(r)'
<1> DEFINE types == <<"action", "complete">>
<1>1. /\ Len(steps[r]) = 4
      /\ \A n \in DOMAIN steps[r] : n <= 6 /\ steps[r][n].type = Whole[n]
      /\ result[r] = "executing" => /\ Governed(r) /\ InputOf[r].scope = "code"
                                    /\ \E c \in admitted : c.by = r
    BY DEF StepInv, StageOf, Finish
<1>2. /\ Record(r, types, "ok") /\ "ok" \in Statuses
      /\ types \in Seq(StepTypes) /\ Len(types) = 2
    BY TypeLists DEF Finish, Statuses
<1>3. \A n \in 1 .. 2 : types[n] = Whole[4 + n]
    BY DEF Whole
<1> HIDE DEF types
<1>4. /\ Len(steps[r]) + Len(types) <= 6
      /\ \A n \in 1 .. Len(types) : types[n] = Whole[Len(steps[r]) + n]
    BY <1>1, <1>2, <1>3
<1>5. \A n \in DOMAIN steps'[r] : n <= 6 /\ steps'[r][n].type = Whole[n]
    BY <1>1, <1>2, <1>4, PartOfWhole
<1>6. Len(steps'[r]) = 6
    <2>1. Len(steps'[r]) = Len(steps[r]) + Len(types)
        BY <1>2, OwnSteps
    <2> QED BY <1>1, <1>2, <2>1
<1>7. /\ result'[r] \in {"done success", "done denied", "done skipped"}
      /\ result'[r] = "done success" => result[r] = "executing"
    BY DEF Finish, Waiting, TypeOK
<1>8. admitted' = admitted
    BY DEF Finish
<1> QED BY <1>1, <1>5, <1>6, <1>7, <1>8 DEF StageOf, Waiting, Governed

\* The trace store tells of each request what it was answered with, however
\* requests that share a trace id interleave (handle, record, InMemoryTraceStore).
THEOREM TracesTellAnswers == Spec => []TracesMatchAnswers
<1>1. Init => StepInv
    <2> SUFFICES ASSUME Init, NEW r \in Request
                 PROVE  Tells(trace[TraceOf[r]], steps[r], r) /\ StageOf(r)
        BY DEF StepInv
    <2>1. steps[r] = <<>> /\ result[r] = "none" /\ TraceOf[r] \in TraceId
        BY DEF Init
    <2>2. trace[TraceOf[r]] = <<>>
        BY <2>1 DEF Init
    <2>3. Places(<<>>, r, 0) = {} /\ Len(<<>>) = 0 /\ DOMAIN <<>> = {}
        BY DEF Places
    <2>4. Tells(<<>>, <<>>, r)
        BY <2>3, FS_EmptySet DEF Tells
    <2> QED BY <2>1, <2>2, <2>3, <2>4 DEF StageOf, Waiting
<1>2. TypeOK /\ StepInv /\ [Next]_vars => StepInv'
    <2> SUFFICES ASSUME TypeOK, StepInv, [Next]_vars PROVE StepInv'
        OBVIOUS
    <2>0. \A q \in Request : Tells(trace[TraceOf[q]], steps[q], q)
        BY DEF StepInv
    <2>1. ASSUME NEW r \in Request, NEW types \in Seq(StepTypes), NEW status \in Statuses,
                 Record(r, types, status), StageOf(r)',
                 NEW v, result' = [result EXCEPT ![r] = v], admitted \subseteq admitted'
          PROVE  StepInv'
        <3>1. \A q \in Request : Tells(trace'[TraceOf[q]], steps'[q], q)
            BY <2>0, <2>1, RecordTells
        <3>2. ASSUME NEW q \in Request, q # r PROVE StageOf(q)'
            <4>1. steps'[q] = steps[q]
                BY <2>1, <3>2, OwnSteps
            <4> QED BY <2>1, <3>2, <4>1, OthersStay
        <3> QED BY <2>1, <3>1, <3>2 DEF StepInv
    <2>2. ASSUME NEW r \in Request, Block(r) PROVE StepInv'
        BY <2>1, <2>2, BlockStage, TypeLists DEF Block, Statuses
    <2>3. ASSUME NEW r \in Request, Throw(r) PROVE StepInv'
        BY <2>1, <2>3, ThrowStage, TypeLists DEF Throw, Statuses
    <2>4. ASSUME NEW r \in Request, Plan(r) PROVE StepInv'
        <3>1. \E w \in Waiting : result' = [result EXCEPT ![r] = w]
            BY <2>4 DEF Plan, Evaluate, Waiting
        <3>2. admitted \subseteq admitted'
            BY <2>4 DEF Plan, Evaluate
        <3> QED BY <2>1, <2>4, <3>1, <3>2, PlanStage, TypeLists DEF Plan, Statuses
    <2>5. ASSUME NEW r \in Request, Finish(r) PROVE StepInv'
        <3>1. \E w \in Answers : result' = [result EXCEPT ![r] = w]
            BY <2>5 DEF Finish, Waiting, Answers, TypeOK
        <3> QED BY <2>1, <2>5, <3>1, FinishStage, TypeLists DEF Finish, Statuses
    <2>6. CASE Tick
        BY <2>6 DEF Tick, StepInv, StageOf, Governed
    <2>7. CASE UNCHANGED vars
        BY <2>7 DEF vars, StepInv, StageOf, Governed
    <2> QED BY <2>2, <2>3, <2>4, <2>5, <2>6, <2>7 DEF Next, Handle
<1>3. TypeOK /\ StepInv => TracesMatchAnswers
    <2> SUFFICES ASSUME TypeOK, StepInv, NEW r \in Request
                 PROVE  /\ Len(steps[r]) <= 6
                        /\ \A n \in DOMAIN steps[r] : steps[r][n].type = Whole[n]
                        /\ Len(steps[r]) = 6 <=>
                               result[r] \in {"done success", "done denied", "done skipped"}
                        /\ result[r] = "blocked" => steps[r] =
                               <<[by |-> r, type |-> "ingress", status |-> "blocked"]>>
                        /\ result[r] = "done success" =>
                               /\ Governed(r) /\ InputOf[r].scope = "code"
                               /\ \E c \in admitted : c.by = r
        <3>1. Len(Whole) = 6
            BY DEF Whole
        <3> QED BY <3>1 DEF TracesMatchAnswers, StepInv
    <2>1. StageOf(r) /\ result[r] \in Results
        BY DEF StepInv, TypeOK
    <2>2. CASE result[r] = "none"
        <3>1. Len(steps[r]) = 0 /\ DOMAIN steps[r] = {}
            BY <2>2, NoneYet
        <3> QED BY <2>2, <3>1
    <2>3. CASE result[r] = "blocked"
        <3>1. Len(steps[r]) = 1
            BY <2>1, <2>3 DEF StageOf
        <3> QED BY <2>1, <2>3, <3>1 DEF StageOf
    <2>4. CASE result[r] \in Waiting \cup (Answers \ {"blocked"})
        <3>1. result[r] # "blocked"
            BY <2>4 DEF Waiting
        <3>2. \A n \in DOMAIN steps[r] : steps[r][n].type = Whole[n]
            BY <2>1 DEF StageOf
        <3>3. CASE result[r] \in Waiting \/ result[r] = "threw"
            <4>1. Len(steps[r]) \in {0, 2, 3, 4}
                BY <2>1, <3>3 DEF StageOf
            <4>2. result[r] \notin {"done success", "done denied", "done skipped"}
                BY <3>3 DEF Waiting
            <4>3. Len(steps[r]) <= 6 /\ Len(steps[r]) # 6
                <5>1. \A n \in {0, 2, 3, 4} : n <= 6 /\ n # 6
                    OBVIOUS
                <5> QED BY <4>1, <5>1, Zenon
            <4> QED BY <3>1, <3>2, <4>2, <4>3, Zenon
        <3>4. CASE result[r] \in {"done success", "done denied", "done skipped"}
            <4>1. Len(steps[r]) = 6
                BY <2>1, <3>4 DEF StageOf
            <4>2. result[r] = "done success" =>
                      /\ Governed(r) /\ InputOf[r].scope = "code"
                      /\ \E c \in admitted : c.by = r
                BY <2>1 DEF StageOf
            <4>3. Len(steps[r]) <= 6
                BY <4>1
            <4> QED BY <3>1, <3>2, <3>4, <4>1, <4>2, <4>3, Zenon
        <3> QED BY <2>4, <3>3, <3>4 DEF Answers
    <2> QED BY <2>1, <2>2, <2>3, <2>4 DEF Results
<1> QED BY <1>1, <1>2, <1>3, TypeCorrect, PTL DEF Spec
=============================================================================
