------------------------ MODULE GovernedMemoryProofs ------------------------
(***************************************************************************)
(* Every step of a span that no client has edited carries the bindings of  *)
(* the span.  That, which no single call checks of the whole trace, is     *)
(* what makes a replay a question about one token and one version.         *)
(***************************************************************************)
EXTENDS GovernedMemory, TLAPS

\* The version of an intent is its place in the chain.
VersionsArePlaces == \A i \in DOMAIN intents : intents[i].version = i

\* Only spans that were started have steps, and the steps name what they name;
\* only spans that were started have been edited.
StepsCarryBindings ==
    \A s \in Span :
        /\ spans[s].state = "none" => spans[s] = NoSpan
        /\ ~spans[s].edited => \A i \in DOMAIN spans[s].trace :
              /\ spans[s].trace[i].version = spans[s].version
              /\ spans[s].trace[i].token = spans[s].token

IInv == TypeOK /\ VersionsArePlaces /\ StepsCarryBindings

\* Nothing has been created, issued or started.
LEMMA InitIInv == Init => IInv
<1> SUFFICES ASSUME Init PROVE IInv
  OBVIOUS
<1> USE MemoryAssumption
<1>1. NoSpan \in SpanRecord
  <2>1. <<>> \in Seq(TraceStep)
    OBVIOUS
  <2> QED  BY <2>1 DEF NoSpan, SpanRecord
<1>2. TypeOK
  BY <1>1 DEF Init, TypeOK, TokenRecord, NoToken
<1>3. VersionsArePlaces /\ StepsCarryBindings
  BY DEF Init, VersionsArePlaces, StepsCarryBindings, NoSpan
<1> QED  BY <1>2, <1>3 DEF IInv

\* createIntent appends the next version.
LEMMA CreateIntentKeepsIInv ==
    ASSUME IInv, CreateIntent
    PROVE  IInv'
<1> USE MemoryAssumption
<1> DEFINE new == [version |-> Latest + 1, prev |-> Latest, edited |-> FALSE]
<1>1. Latest = Len(intents)
  BY DEF IInv, TypeOK, VersionsArePlaces, Latest
<1>2. new \in Intent
  BY <1>1 DEF CreateIntent, IInv, TypeOK, Intent, Version
<1>3. intents' = Append(intents, new)
  BY DEF CreateIntent
<1>4. TypeOK'
  BY <1>2, <1>3 DEF CreateIntent, IInv, TypeOK
<1>5. VersionsArePlaces'
  BY <1>1, <1>3 DEF IInv, TypeOK, VersionsArePlaces
<1>6. StepsCarryBindings'
  BY DEF CreateIntent, IInv, StepsCarryBindings
<1> QED  BY <1>4, <1>5, <1>6 DEF IInv

\* An edit of an intent changes neither a version nor a span.
LEMMA EditIntentKeepsIInv ==
    ASSUME IInv, NEW v \in Version, EditIntent(v)
    PROVE  IInv'
<1>1. /\ intents \in Seq(Intent) /\ v \in DOMAIN intents
      /\ intents[v] \in Intent
  BY DEF IInv, TypeOK, EditIntent
<1>2. [intents[v] EXCEPT !.edited = ~@] \in Intent
  BY <1>1 DEF Intent
<1>3. intents' = [intents EXCEPT ![v] = [intents[v] EXCEPT !.edited = ~@]]
  BY DEF EditIntent
<1>4. intents' \in Seq(Intent)
  BY <1>1, <1>2, <1>3
<1>5. TypeOK'
  BY <1>4 DEF EditIntent, IInv, TypeOK
<1>6. VersionsArePlaces'
  BY <1>1, <1>3 DEF IInv, VersionsArePlaces, Intent
<1>7. StepsCarryBindings'
  BY DEF EditIntent, IInv, StepsCarryBindings
<1> QED  BY <1>5, <1>6, <1>7 DEF IInv

\* Issuing, revoking and editing tokens leave intents and spans alone.
LEMMA TokenCallsKeepIInv ==
    ASSUME IInv, NEW t \in Token,
           \/ Revoke(t)
           \/ \E v \in Version :
                 IssueAuthority(t, v) \/ \E revoked \in BOOLEAN : EditToken(t, v, revoked)
    PROVE  IInv'
<1>1. UNCHANGED <<intents, spans>>
  BY DEF Revoke, IssueAuthority, EditToken
<1>2. tokens' \in [Token -> TokenRecord]
  <2>1. CASE Revoke(t)
    BY <2>1 DEF Revoke, IInv, TypeOK, TokenRecord
  <2>2. ASSUME NEW v \in Version, IssueAuthority(t, v)
        PROVE  tokens' \in [Token -> TokenRecord]
    BY <2>2, MemoryAssumption DEF IssueAuthority, IInv, TypeOK, TokenRecord, Version
  <2>3. ASSUME NEW v \in Version, NEW revoked \in BOOLEAN, EditToken(t, v, revoked)
        PROVE  tokens' \in [Token -> TokenRecord]
    <3>1. tokens[t] \in TokenRecord /\ v \in 0..MaxVersions
      BY MemoryAssumption DEF IInv, TypeOK, Version
    <3>2. [tokens[t] EXCEPT !.version = v, !.revoked = revoked] \in TokenRecord
      BY <3>1 DEF TokenRecord
    <3>3. tokens' = [tokens EXCEPT ![t] =
                       [tokens[t] EXCEPT !.version = v, !.revoked = revoked]]
      BY <2>3 DEF EditToken
    <3> QED  BY <3>2, <3>3 DEF IInv, TypeOK
  <2> QED  BY <2>1, <2>2, <2>3
<1> QED  BY <1>1, <1>2 DEF IInv, TypeOK, VersionsArePlaces, StepsCarryBindings

\* What a call on one span leaves behind is a span again.
LEMMA OneSpanKeepsIInv ==
    ASSUME IInv, NEW s \in Span, NEW new \in SpanRecord,
           spans' = [spans EXCEPT ![s] = new],
           UNCHANGED <<intents, tokens>>,
           new.state # "none",
           ~new.edited => \A i \in DOMAIN new.trace :
                             /\ new.trace[i].version = new.version
                             /\ new.trace[i].token = new.token
    PROVE  IInv'
<1>1. TypeOK'
  BY DEF IInv, TypeOK
<1>2. spans'[s] = new /\ \A u \in Span \ {s} : spans'[u] = spans[u]
  BY DEF IInv, TypeOK
<1>3. StepsCarryBindings'
  BY <1>2 DEF IInv, StepsCarryBindings
<1> QED  BY <1>1, <1>3 DEF IInv, VersionsArePlaces

\* The end of a span is a state and nothing else.
LEMMA EndSpanKeepsIInv ==
    ASSUME IInv, NEW s \in Span, NEW state \in Terminal, EndSpan(s, state)
    PROVE  IInv'
<1> DEFINE new == [spans[s] EXCEPT !.state = state]
<1>1. spans[s] \in SpanRecord
  BY DEF IInv, TypeOK
<1>2. /\ new \in SpanRecord
      /\ new.state # "none" /\ new.edited = spans[s].edited
      /\ new.trace = spans[s].trace
      /\ new.version = spans[s].version /\ new.token = spans[s].token
  BY <1>1 DEF SpanRecord, Terminal
<1>3. spans' = [spans EXCEPT ![s] = new] /\ UNCHANGED <<intents, tokens>>
  BY DEF EndSpan
<1>4. ~new.edited => \A i \in DOMAIN new.trace :
                        /\ new.trace[i].version = new.version
                        /\ new.trace[i].token = new.token
  BY <1>2 DEF IInv, StepsCarryBindings
<1> HIDE DEF new
<1> QED  BY <1>2, <1>3, <1>4, OneSpanKeepsIInv

\* startSpan begins with no step.
LEMMA StartSpanKeepsIInv ==
    ASSUME IInv, NEW s \in Span, NEW v \in Version, NEW t \in Token, StartSpan(s, v, t)
    PROVE  IInv'
<1> DEFINE new == [state |-> "active", version |-> v, token |-> t, trace |-> <<>>,
                   edited |-> FALSE]
<1>1. new \in SpanRecord
  <2>1. <<>> \in Seq(TraceStep) /\ v \in 0..MaxVersions
    BY MemoryAssumption DEF Version
  <2> QED  BY <2>1 DEF SpanRecord
<1>2. spans' = [spans EXCEPT ![s] = new] /\ UNCHANGED <<intents, tokens>>
  BY DEF StartSpan
<1>3. new.state # "none" /\ DOMAIN new.trace = {}
  OBVIOUS
<1> HIDE DEF new
<1> QED  BY <1>1, <1>2, <1>3, OneSpanKeepsIInv

\* recordTrace of the span manager compares the bindings.
LEMMA SpanRecordTraceKeepsIInv ==
    ASSUME IInv, NEW s \in Span, NEW step \in TraceStep, SpanRecordTrace(s, step)
    PROVE  IInv'
<1> DEFINE tr == spans[s].trace
           new == [spans[s] EXCEPT !.trace = Append(tr, step)]
<1>1. spans[s] \in SpanRecord /\ tr \in Seq(TraceStep)
  BY DEF IInv, TypeOK, SpanRecord
<1>2. Append(tr, step) \in Seq(TraceStep)
  BY <1>1
<1>3. /\ new \in SpanRecord
      /\ new.state = spans[s].state /\ new.edited = spans[s].edited
      /\ new.trace = Append(tr, step)
      /\ new.version = spans[s].version /\ new.token = spans[s].token
  BY <1>1, <1>2 DEF SpanRecord
<1>4. spans' = [spans EXCEPT ![s] = new] /\ UNCHANGED <<intents, tokens>>
  BY DEF SpanRecordTrace, AddStep
<1>5. new.state # "none"
  BY <1>3 DEF SpanRecordTrace
<1>6. ASSUME ~new.edited, NEW i \in DOMAIN new.trace
      PROVE  new.trace[i].version = new.version /\ new.trace[i].token = new.token
  <2>1. CASE i \in DOMAIN tr
    <3>1. new.trace[i] = tr[i]
      BY <1>1, <1>3, <2>1
    <3> QED  BY <1>3, <1>6, <2>1, <3>1 DEF IInv, StepsCarryBindings
  <2>2. CASE i \notin DOMAIN tr
    <3>1. new.trace[i] = step
      BY <1>1, <1>3, <1>6, <2>2
    <3> QED  BY <1>3, <3>1 DEF SpanRecordTrace
  <2> QED  BY <2>1, <2>2
<1> HIDE DEF new
<1> QED  BY <1>3, <1>4, <1>5, <1>6, OneSpanKeepsIInv

\* What a client makes of a span is a span, which is marked.
LEMMA EditedSpan ==
    ASSUME IInv, NEW s \in Span, EditSpan(s)
    PROVE  \E new \in SpanRecord :
              spans' = [spans EXCEPT ![s] = new] /\ new.state # "none" /\ new.edited
<1> DEFINE Edited == \E new \in SpanRecord :
              spans' = [spans EXCEPT ![s] = new] /\ new.state # "none" /\ new.edited
<1>1. spans[s] \in SpanRecord /\ spans[s].trace \in Seq(TraceStep) /\ spans[s].state # "none"
  BY DEF IInv, TypeOK, SpanRecord, EditSpan
<1>2. ASSUME NEW state \in {"active"} \cup Terminal,
             spans' = [spans EXCEPT ![s].state = state, ![s].edited = TRUE]
      PROVE  Edited
  <2> DEFINE new == [spans[s] EXCEPT !.state = state, !.edited = TRUE]
  <2>1. new \in SpanRecord /\ new.state # "none" /\ new.edited
    BY <1>1 DEF SpanRecord, Terminal
  <2>2. spans' = [spans EXCEPT ![s] = new]
    BY <1>2
  <2> HIDE DEF new
  <2> QED  BY <2>1, <2>2
<1>3. ASSUME NEW v \in Version,
             spans' = [spans EXCEPT ![s].version = v, ![s].edited = TRUE]
      PROVE  Edited
  <2> DEFINE new == [spans[s] EXCEPT !.version = v, !.edited = TRUE]
  <2>1. new \in SpanRecord /\ new.state # "none" /\ new.edited
    <3>1. v \in 0..MaxVersions
      BY MemoryAssumption DEF Version
    <3> QED  BY <1>1, <3>1 DEF SpanRecord
  <2>2. spans' = [spans EXCEPT ![s] = new]
    BY <1>3
  <2> HIDE DEF new
  <2> QED  BY <2>1, <2>2
<1>4. ASSUME NEW t \in Token,
             spans' = [spans EXCEPT ![s].token = t, ![s].edited = TRUE]
      PROVE  Edited
  <2> DEFINE new == [spans[s] EXCEPT !.token = t, !.edited = TRUE]
  <2>1. new \in SpanRecord /\ new.state # "none" /\ new.edited
    BY <1>1 DEF SpanRecord
  <2>2. spans' = [spans EXCEPT ![s] = new]
    BY <1>4
  <2> HIDE DEF new
  <2> QED  BY <2>1, <2>2
<1>5. ASSUME NEW tr \in Seq(TraceStep),
             spans' = [spans EXCEPT ![s].trace = tr, ![s].edited = TRUE]
      PROVE  Edited
  <2> DEFINE new == [spans[s] EXCEPT !.trace = tr, !.edited = TRUE]
  <2>1. new \in SpanRecord /\ new.state # "none" /\ new.edited
    BY <1>1 DEF SpanRecord
  <2>2. spans' = [spans EXCEPT ![s] = new]
    BY <1>5
  <2> HIDE DEF new
  <2> QED  BY <2>1, <2>2
<1>6. <<>> \in Seq(TraceStep)
  OBVIOUS
<1>7. \A step \in TraceStep : Append(spans[s].trace, step) \in Seq(TraceStep)
  BY <1>1
<1> HIDE DEF Edited
<1>8. Edited
  BY <1>2, <1>3, <1>4, <1>5, <1>6, <1>7 DEF EditSpan
<1> QED  BY <1>8 DEF Edited

\* Of an edited span nothing more is said.
LEMMA EditSpanKeepsIInv ==
    ASSUME IInv, NEW s \in Span, EditSpan(s)
    PROVE  IInv'
<1>1. PICK new \in SpanRecord :
         spans' = [spans EXCEPT ![s] = new] /\ new.state # "none" /\ new.edited
  BY EditedSpan
<1> QED  BY <1>1, OneSpanKeepsIInv DEF EditSpan

\* IInv is inductive.
LEMMA NextIInv == IInv /\ [Next]_vars => IInv'
<1> SUFFICES ASSUME IInv, [Next]_vars PROVE IInv'
  OBVIOUS
<1>1. CASE CreateIntent
  BY <1>1, CreateIntentKeepsIInv
<1>2. CASE \E v \in Version : EditIntent(v)
  BY <1>2, EditIntentKeepsIInv
<1>3. ASSUME NEW t \in Token,
             \/ Revoke(t)
             \/ \E v \in Version :
                   IssueAuthority(t, v) \/ \E revoked \in BOOLEAN : EditToken(t, v, revoked)
      PROVE  IInv'
  BY <1>3, TokenCallsKeepIInv
<1>4. ASSUME NEW s \in Span, NEW state \in Terminal, EndSpan(s, state)
      PROVE  IInv'
  BY <1>4, EndSpanKeepsIInv
<1>5. ASSUME NEW s \in Span, NEW v \in Version, NEW t \in Token, StartSpan(s, v, t)
      PROVE  IInv'
  BY <1>5, StartSpanKeepsIInv
<1>6. ASSUME NEW s \in Span, NEW step \in TraceStep,
             SpanRecordTrace(s, step) \/ RecordTrace(s, step)
      PROVE  IInv'
  BY <1>6, SpanRecordTraceKeepsIInv DEF RecordTrace
<1>7. CASE \E s \in Span : EditSpan(s)
  BY <1>7, EditSpanKeepsIInv
<1>8. CASE UNCHANGED vars
  BY <1>8 DEF vars, IInv, TypeOK, VersionsArePlaces, StepsCarryBindings
<1> QED  BY <1>1, <1>2, <1>3, <1>4, <1>5, <1>6, <1>7, <1>8 DEF Next

\* The invariant holds of every behaviour.
LEMMA AlwaysIInv == Spec => []IInv
<1> QED  BY InitIInv, NextIInv, PTL DEF Spec

\* The ledgers and the spans have their types.
THEOREM TypeCorrect == Spec => []TypeOK
<1>1. IInv => TypeOK
  BY DEF IInv
<1> QED  BY AlwaysIInv, <1>1, PTL

\* A replay of a span no client has edited is decided by the token and the
\* version of the span alone.
THEOREM ReplayOfTheSpan == Spec => []ReplayIsOfTheSpan
<1>1. IInv => ReplayIsOfTheSpan
  <2> SUFFICES ASSUME IInv, NEW s \in Span, spans[s].trace # <<>>, ~spans[s].edited
               PROVE  ReplaysWell(s) <=>
                        /\ Governed(spans[s].version, spans[s].token)
                        /\ \A i \in DOMAIN spans[s].trace : ~spans[s].trace[i].empty
    BY DEF ReplayIsOfTheSpan
  <2>1. spans[s].trace \in Seq(TraceStep)
    BY DEF IInv, TypeOK, SpanRecord
  <2>2. 1 \in DOMAIN spans[s].trace
    BY <2>1
  <2>3. \A i \in DOMAIN spans[s].trace :
           Governed(spans[s].trace[i].version, spans[s].trace[i].token)
             <=> Governed(spans[s].version, spans[s].token)
    BY DEF IInv, StepsCarryBindings
  <2> QED  BY <2>2, <2>3 DEF ReplaysWell
<1> QED  BY AlwaysIInv, <1>1, PTL

\* A span no client has edited keeps its bindings and its steps, and gains steps
\* with those bindings while it is active.
THEOREM BindingsAreKept == Spec => SpansKeepTheirBindings
<1> DEFINE Kept(s) == ~spans'[s].edited =>
        /\ spans[s].trace # spans'[s].trace =>
              /\ spans[s].state = "active"
              /\ \E step \in TraceStep :
                    /\ spans'[s].trace = Append(spans[s].trace, step)
                    /\ step.version = spans[s].version /\ step.token = spans[s].token
        /\ spans[s].state # "none" =>
              /\ spans'[s].version = spans[s].version
              /\ spans'[s].token = spans[s].token
        /\ spans[s].state \in Terminal => spans'[s].state \in Terminal
           A == \A s \in Span : Kept(s)
<1>1. IInv /\ [Next]_vars => [A]_vars
  <2> SUFFICES ASSUME IInv, Next PROVE A
    OBVIOUS
  <2>1. CASE UNCHANGED spans
    BY <2>1
  <2>2. ASSUME NEW s \in Span, Kept(s), \A u \in Span \ {s} : spans'[u] = spans[u]
        PROVE  A
    BY <2>2
  <2>3. \A s \in Span : spans[s] \in SpanRecord
    BY DEF IInv, TypeOK
  <2>4. ASSUME NEW s \in Span, NEW state \in Terminal, EndSpan(s, state)
        PROVE  A
    <3>1. Kept(s)
      BY <2>3, <2>4 DEF EndSpan, IInv, TypeOK, SpanRecord
    <3>2. \A u \in Span \ {s} : spans'[u] = spans[u]
      BY <2>4 DEF EndSpan, IInv, TypeOK
    <3> QED  BY <2>2, <3>1, <3>2
  <2>5. ASSUME NEW s \in Span, NEW v \in Version, NEW t \in Token, StartSpan(s, v, t)
        PROVE  A
    <3>1. spans[s].state = "none" /\ "none" \notin Terminal
      BY <2>5 DEF StartSpan, Terminal
    <3>2. spans[s].trace = <<>>
      BY <3>1 DEF IInv, StepsCarryBindings, NoSpan
    <3>3. spans'[s].trace = <<>> /\ \A u \in Span \ {s} : spans'[u] = spans[u]
      BY <2>5 DEF StartSpan, IInv, TypeOK
    <3>4. Kept(s)
      BY <3>1, <3>2, <3>3
    <3> QED  BY <2>2, <3>3, <3>4
  <2>6. ASSUME NEW s \in Span, NEW step \in TraceStep, SpanRecordTrace(s, step)
        PROVE  A
    <3>1. /\ spans'[s].trace = Append(spans[s].trace, step)
          /\ spans'[s].version = spans[s].version
          /\ spans'[s].token = spans[s].token
          /\ spans'[s].state = spans[s].state
          /\ \A u \in Span \ {s} : spans'[u] = spans[u]
      BY <2>3, <2>6 DEF SpanRecordTrace, AddStep, IInv, TypeOK, SpanRecord
    <3>2. /\ spans[s].state = "active" /\ "active" \notin Terminal
          /\ step.version = spans[s].version /\ step.token = spans[s].token
      BY <2>6 DEF SpanRecordTrace, Terminal
    <3>3. Kept(s)
      BY <3>1, <3>2
    <3> QED  BY <2>2, <3>1, <3>3
  <2>7. ASSUME NEW s \in Span, EditSpan(s)
        PROVE  A
    <3>1. spans'[s].edited /\ \A u \in Span \ {s} : spans'[u] = spans[u]
      BY <2>7, EditedSpan DEF IInv, TypeOK
    <3> QED  BY <2>2, <3>1
  <2>8. ASSUME NEW s \in Span, NEW step \in TraceStep, RecordTrace(s, step)
        PROVE  A
    BY <2>6, <2>8 DEF RecordTrace
  <2> HIDE DEF A
  <2> QED  BY <2>1, <2>4, <2>5, <2>6, <2>7, <2>8
           DEF Next, CreateIntent, EditIntent, IssueAuthority, Revoke, EditToken
<1> QED  BY AlwaysIInv, <1>1, PTL DEF Spec, SpansKeepTheirBindings
=============================================================================
