--------------------------- MODULE NovaNodeProofs ---------------------------
(***************************************************************************)
(* For every set of calls, callers and limits, every number of threads and *)
(* of crashes: types, what a stored result rests on, what an execution was *)
(* charged, what a tool call leaves, how far a limit is overrun, and that  *)
(* the event log follows the bus.                                          *)
(***************************************************************************)
EXTENDS NovaNode, SequenceTheorems, FiniteSetTheorems, TLAPS

USE NodeAssumption, GovernanceAssumption DEF NodeAssumption, GovernanceAssumption

-----------------------------------------------------------------------------
(* Types *)

\* A call that is to emit has something to emit.
HasTodo == \A t \in Trace : call[t].step \in {"emit", "mirror"} => call[t].todo # <<>>

CallsOK == call \in [Trace -> CallRecord] /\ HasTodo

TypeInv == TypeOK /\ HasTodo

LEMMA MoveKeepsTypes ==
    ASSUME CallsOK, NEW t \in Trace, NEW step \in Steps,
           step \in {"emit", "mirror"} => call[t].todo # <<>>, Move(t, step)
    PROVE  CallsOK'
    BY DEF CallsOK, HasTodo, Move, CallRecord

\* A call replaced by a record of the right type that has what it is to emit.
LEMMA ReplaceKeepsTypes ==
    ASSUME CallsOK, NEW t \in Trace, NEW r \in CallRecord,
           r.step \in {"emit", "mirror"} => r.todo # <<>>,
           call' = [call EXCEPT ![t] = r]
    PROVE  CallsOK'
    BY DEF CallsOK, HasTodo

LEMMA SingleTodo ==
    /\ <<>> \in Seq(Channel)
    /\ \A ch \in Channel : <<ch>> \in Seq(Channel) /\ <<ch>> # <<>>
    BY DEF Channel

LEMMA LogKeepsTypes ==
    ASSUME TypeOK, NEW t \in Trace, NEW kind \in EntryKinds, Log(t, kind)
    PROVE  continuity' \in Seq(Entry)
<1>1. call[t].caller \in Caller
  BY DEF TypeOK, CallRecord
<1>2. [kind |-> kind, trace |-> t, caller |-> call[t].caller] \in Entry
  BY <1>1 DEF Entry
<1> QED BY <1>2 DEF Log, TypeOK

\* Whatever a call is governed by, it keeps its type and has something to emit.
LEMMA EnforceKeepsTypes ==
    ASSUME TypeInv, NEW t \in Trace, NEW caller \in Caller, Enforce(t, caller)
    PROVE  CallsOK'
<1>1. CASE Refuse(t, caller)
  <2> DEFINE step == CASE KindOf[t] = "tool" -> "emit"
                       [] KindOf[t] = "verify" -> "generate"
                       [] OTHER -> "vetoed"
             todo == IF KindOf[t] = "tool" THEN <<"blocked">> ELSE <<>>
  <2> DEFINE r == [call[t] EXCEPT !.caller = caller, !.verdict = "blocked",
                                  !.step = step, !.todo = todo]
  <2>0. CallsOK /\ call[t] \in CallRecord /\ call \in [Trace -> CallRecord]
    BY DEF CallsOK, TypeInv, TypeOK
  <2>1. step \in {"emit", "generate", "vetoed"} /\ (step = "emit" => KindOf[t] = "tool")
    OBVIOUS
  <2>2. todo \in Seq(Channel) /\ (KindOf[t] = "tool" => todo # <<>>)
    <3>1. "blocked" \in Channel
      BY DEF Channel
    <3> QED BY <3>1, SingleTodo
  <2>3. call' = [call EXCEPT ![t].caller = caller, ![t].verdict = "blocked",
                             ![t].step = step, ![t].todo = todo]
    BY <1>1 DEF Refuse
  <2> HIDE DEF step, todo
  <2>4. call' = [call EXCEPT ![t] = r]
    BY <2>0, <2>3
  <2>5. r \in CallRecord /\ r.step = step /\ r.todo = todo
    BY <2>0, <2>1, <2>2 DEF CallRecord, Steps, Ended
  <2> HIDE DEF r
  <2> QED BY <2>0, <2>1, <2>2, <2>4, <2>5, ReplaceKeepsTypes
<1>2. CASE TakeTime(t, caller)
  <2> DEFINE r == [call[t] EXCEPT !.caller = caller, !.stamp = minute, !.step = "enforce"]
  <2>0. CallsOK /\ call[t] \in CallRecord /\ call \in [Trace -> CallRecord]
    BY DEF CallsOK, TypeInv, TypeOK
  <2>1. call' = [call EXCEPT ![t] = r]
    BY <1>2, <2>0 DEF TakeTime
  <2>2. r \in CallRecord /\ r.step = "enforce"
    BY <2>0 DEF CallRecord, Steps, TypeInv, TypeOK, GovernanceTypeOK
  <2> HIDE DEF r
  <2> QED BY <2>0, <2>1, <2>2, ReplaceKeepsTypes
<1>3. CASE Break(t)
  BY <1>3, MoveKeepsTypes DEF Break, CallsOK, TypeInv, TypeOK, Steps, Ended
<1> QED BY <1>1, <1>2, <1>3 DEF Enforce

LEMMA TypeInit == Init => TypeInv
  BY DEF Init, GovernanceInit, EventsInit, NoCall, TypeInv, TypeOK, GovernanceTypeOK,
         EventsTypeOK, CallRecord, HasTodo, Steps, Ended, FileStates

LEMMA EnterKeepsTypes ==
    ASSUME TypeInv, NEW t \in Trace, Enter(t) PROVE TypeInv'
<1> USE DEF TypeInv
<1>1. CASE Begin(t)
  <2>1. CallsOK'
    BY <1>1, EnforceKeepsTypes DEF Begin
  <2> QED BY <1>1, <2>1 DEF Begin, Keep, TypeOK, CallsOK, GovernanceTypeOK, EventsTypeOK,
                            governanceVars, eventVars
<1>2. CASE \E old \in Trace : BeginReplay(t, old)
  <2>1. PICK old \in Trace : BeginReplay(t, old)
    BY <1>2
  <2>2. call[old].caller \in Caller
    BY DEF TypeOK, CallRecord
  <2>3. \/ Move(t, "unknown") \/ Move(t, "missing") \/ Enforce(t, call[old].caller)
    BY <2>1 DEF BeginReplay
  <2>4. CallsOK'
    BY <2>2, <2>3, EnforceKeepsTypes, MoveKeepsTypes DEF CallsOK, TypeOK, Steps, Ended
  <2> QED BY <2>1, <2>4 DEF BeginReplay, Keep, TypeOK, CallsOK, GovernanceTypeOK,
                            EventsTypeOK, governanceVars, eventVars
<1>3. CASE \E old \in Trace : BeginVerify(t, old)
  <2>1. PICK old \in Trace : BeginVerify(t, old)
    BY <1>3
  <2>2. \/ Move(t, "unknown") \/ Move(t, "failed") \/ Move(t, "done")
        \/ Enforce(t, Anonymous)
    BY <2>1 DEF BeginVerify
  <2>3. CallsOK'
    BY <2>2, EnforceKeepsTypes, MoveKeepsTypes DEF CallsOK, TypeOK, Steps, Ended
  <2> QED BY <2>1, <2>3 DEF BeginVerify, Keep, TypeOK, CallsOK, GovernanceTypeOK,
                            EventsTypeOK, governanceVars, eventVars
<1>4. CASE BeginResult(t)
  <2>1. CallsOK'
    BY <1>4, MoveKeepsTypes DEF BeginResult, CallsOK, TypeOK, Steps
  <2> QED BY <1>4, <2>1 DEF BeginResult, Keep, TypeOK, CallsOK, GovernanceTypeOK,
                            EventsTypeOK, governanceVars, eventVars
<1> QED BY <1>1, <1>2, <1>3, <1>4 DEF Enter

LEMMA GovernedKeepsTypes ==
    ASSUME TypeInv, NEW t \in Trace, Governed(t) PROVE TypeInv'
<1> USE DEF TypeInv
<1>1. CASE Count(t)
  <2> DEFINE verdict == IF OverLimit(call[t].caller) THEN "full" ELSE "free"
             r == [call[t] EXCEPT !.step = "charge", !.verdict = verdict]
  <2>0. CallsOK /\ call[t] \in CallRecord /\ call \in [Trace -> CallRecord]
    BY DEF CallsOK, TypeOK
  <2>a. verdict \in {"full", "free"}
    OBVIOUS
  <2>b. call' = [call EXCEPT ![t].step = "charge", ![t].verdict = verdict]
    BY <1>1 DEF Count
  <2> HIDE DEF verdict
  <2>c. call' = [call EXCEPT ![t] = r]
    BY <2>0, <2>b
  <2>d. r \in CallRecord /\ r.step = "charge"
    BY <2>0, <2>a DEF CallRecord, Steps
  <2> HIDE DEF r
  <2>1. CallsOK'
    BY <2>0, <2>c, <2>d, ReplaceKeepsTypes
  <2> QED BY <1>1, <2>1 DEF Count, Keep, TypeOK, CallsOK, GovernanceTypeOK, EventsTypeOK,
                            governanceVars, eventVars
<1>2. CASE AppendCharge(t)
  <2> DEFINE allowed == call[t].verdict = "free"
             verdict == IF allowed THEN "allowed" ELSE "blocked"
             step == CASE KindOf[t] = "verify" -> "generate"
                       [] KindOf[t] = "tool" -> "emit"
                       [] OTHER -> IF allowed THEN "admit" ELSE "vetoed"
             todo == IF KindOf[t] = "tool"
                     THEN IF allowed THEN <<"invoked">> ELSE <<"blocked">> ELSE <<>>
             r == [call[t] EXCEPT !.verdict = verdict, !.step = step, !.todo = todo]
  <2>0. CallsOK /\ call[t] \in CallRecord /\ call \in [Trace -> CallRecord]
    BY DEF CallsOK, TypeOK
  <2>1. call' = [call EXCEPT ![t].verdict = verdict, ![t].step = step, ![t].todo = todo]
    BY <1>2 DEF AppendCharge
  <2>2. /\ verdict \in {"allowed", "blocked"}
        /\ step \in {"generate", "emit", "admit", "vetoed"}
        /\ step = "emit" => KindOf[t] = "tool"
    OBVIOUS
  <2>a. todo \in Seq(Channel) /\ (KindOf[t] = "tool" => todo # <<>>)
    <3>1. "blocked" \in Channel /\ "invoked" \in Channel
      BY DEF Channel
    <3> QED BY <3>1, SingleTodo
  <2>3. rateLog' \in Seq(Charge)
    <3>1. /\ call[t].caller \in Caller /\ call[t].stamp \in 0..MaxMinute
          /\ rateLog \in Seq(Charge)
      BY DEF TypeOK, CallRecord, GovernanceTypeOK
    <3>2. [caller |-> call[t].caller, minute |-> call[t].stamp, blocked |-> ~allowed] \in Charge
      BY <3>1 DEF Charge
    <3> QED BY <1>2, <3>1, <3>2 DEF AppendCharge, Record
  <2> HIDE DEF allowed, verdict, step, todo
  <2>b. call' = [call EXCEPT ![t] = r]
    BY <2>0, <2>1
  <2>c. r \in CallRecord /\ r.step = step /\ r.todo = todo
    BY <2>0, <2>2, <2>a DEF CallRecord, Steps, Ended
  <2> HIDE DEF r
  <2>4. CallsOK'
    BY <2>0, <2>2, <2>a, <2>b, <2>c, ReplaceKeepsTypes
  <2> QED BY <1>2, <2>3, <2>4 DEF AppendCharge, TypeOK, CallsOK, GovernanceTypeOK,
                                  EventsTypeOK, eventVars
<1> QED BY <1>1, <1>2 DEF Governed

LEMMA SubmittedKeepsTypes ==
    ASSUME TypeInv, NEW t \in Trace, Submitted(t) PROVE TypeInv'
<1> USE DEF TypeInv
<1>1. CallsOK
  BY DEF CallsOK, TypeOK
<1>2. CASE Admit(t)
  <2>1. CallsOK'
    BY <1>2 DEF Admit, CallsOK, HasTodo, TypeOK, CallRecord, Steps
  <2>2. continuity' \in Seq(Entry)
    BY <1>2, LogKeepsTypes DEF Admit, EntryKinds
  <2> QED BY <1>2, <2>1, <2>2 DEF Admit, Keep, TypeOK, CallsOK, GovernanceTypeOK,
                                  EventsTypeOK, governanceVars, eventVars
<1>3. CASE Execute(t)
  <2>1. CallsOK'
    BY <1>1, <1>3, MoveKeepsTypes DEF Execute, Steps, Ended
  <2> QED BY <1>3, <2>1 DEF Execute, Keep, TypeOK, CallsOK, GovernanceTypeOK, EventsTypeOK,
                            governanceVars, eventVars
<1>4. CASE WriteReceipt(t)
  <2>1. CallsOK' /\ continuity' \in Seq(Entry)
    BY <1>1, <1>4, MoveKeepsTypes, LogKeepsTypes DEF WriteReceipt, Steps, EntryKinds
  <2> QED BY <1>4, <2>1 DEF WriteReceipt, Keep, TypeOK, CallsOK, GovernanceTypeOK,
                            EventsTypeOK, governanceVars, eventVars
<1>5. CASE WriteEvent(t)
  <2>1. CallsOK' /\ continuity' \in Seq(Entry)
    BY <1>1, <1>5, MoveKeepsTypes, LogKeepsTypes DEF WriteEvent, Steps, EntryKinds
  <2> QED BY <1>5, <2>1 DEF WriteEvent, Keep, TypeOK, CallsOK, GovernanceTypeOK,
                            EventsTypeOK, governanceVars, eventVars
<1>6. CASE OpenResult(t)
  <2>1. CallsOK'
    BY <1>1, <1>6, MoveKeepsTypes DEF OpenResult, Steps
  <2> QED BY <1>6, <2>1 DEF OpenResult, Keep, TypeOK, CallsOK, GovernanceTypeOK,
                            EventsTypeOK, governanceVars, eventVars, FileStates
<1>7. CASE FillResult(t)
  <2>1. CallsOK'
    BY <1>1, <1>7, MoveKeepsTypes DEF FillResult, Steps, Ended
  <2> QED BY <1>7, <2>1 DEF FillResult, Keep, TypeOK, CallsOK, GovernanceTypeOK,
                            EventsTypeOK, governanceVars, eventVars, FileStates
<1> QED BY <1>2, <1>3, <1>4, <1>5, <1>6, <1>7 DEF Submitted

LEMMA TooledKeepsTypes ==
    ASSUME TypeInv, NEW t \in Trace, Tooled(t) PROVE TypeInv'
<1> USE DEF TypeInv
<1>1. CallsOK /\ call[t] \in CallRecord /\ call \in [Trace -> CallRecord]
  BY DEF CallsOK, TypeOK
<1>2. CASE Emit(t)
  <2>1. call[t].todo # <<>> /\ call[t].todo \in Seq(Channel)
    BY <1>1, <1>2 DEF Emit, HasTodo, CallRecord
  <2>2. CallsOK'
    BY <1>1, <1>2, <2>1, MoveKeepsTypes DEF Emit, Steps
  <2>3. [channel |-> Head(call[t].todo), trace |-> t] \in BusEvent
    BY <2>1 DEF BusEvent
  <2>4. EventsTypeOK'
    BY <1>2, <2>3 DEF Emit, AppendEvent, TypeOK, EventsTypeOK
  <2> QED BY <1>2, <2>2, <2>4 DEF Emit, Keep, TypeOK, CallsOK, GovernanceTypeOK,
                                  governanceVars
<1>3. CASE Mirror(t)
  <2> DEFINE step == IF Len(call[t].todo) > 1 THEN "emit"
                     ELSE AfterEvents(Head(call[t].todo))
             r == [call[t] EXCEPT !.todo = Tail(call[t].todo), !.step = step]
  <2>1. call[t].todo # <<>> /\ call[t].todo \in Seq(Channel)
    BY <1>1, <1>3 DEF Mirror, HasTodo, CallRecord
  <2>2. Head(call[t].todo) \in Channel /\ Tail(call[t].todo) \in Seq(Channel)
    BY <2>1
  <2>3. step \in {"emit", "invoke", "vetoed", "done"}
    BY DEF AfterEvents
  <2>4. step = "emit" => Tail(call[t].todo) # <<>>
    <3>1. step = "emit" => Len(call[t].todo) > 1
      BY DEF AfterEvents
    <3>2. \A q \in Seq(Channel) : Len(q) > 1 => Tail(q) # <<>>
      <4>1. SUFFICES ASSUME NEW q \in Seq(Channel), Len(q) > 1 PROVE Tail(q) # <<>>
        OBVIOUS
      <4>2. q # <<>>
        BY <4>1, EmptySeq
      <4>3. Tail(q) \in Seq(Channel) /\ Len(Tail(q)) = Len(q) - 1 /\ Len(q) \in Nat
        BY <4>2, HeadTailProperties
      <4>4. Len(Tail(q)) # 0
        BY <4>1, <4>3
      <4> QED BY <4>3, <4>4, EmptySeq
    <3> HIDE DEF step
    <3> QED BY <2>1, <3>1, <3>2
  <2>5. call' = [call EXCEPT ![t].todo = Tail(call[t].todo), ![t].step = step]
    BY <1>1, <1>3 DEF Mirror
  <2> HIDE DEF step
  <2>6. call' = [call EXCEPT ![t] = r]
    BY <1>1, <2>5
  <2>7. r \in CallRecord /\ r.step = step /\ r.todo = Tail(call[t].todo)
    BY <1>1, <2>2, <2>3 DEF CallRecord, Steps, Ended
  <2> HIDE DEF r
  <2>8. CallsOK'
    BY <1>1, <2>3, <2>4, <2>6, <2>7, ReplaceKeepsTypes
  <2>9. /\ substrate \in Seq(SubstrateEvent) /\ Len(substrate) \in Nat
        /\ lastEvent \in [Trace -> Nat] /\ bus \in Seq(BusEvent)
    BY DEF TypeOK, EventsTypeOK
  <2>10. Twin(Head(call[t].todo), t) \in SubstrateEvent
    BY <2>2, <2>9 DEF Twin, SubstrateEvent
  <2>11. EventsTypeOK'
    BY <1>3, <2>9, <2>10 DEF Mirror, AppendTwin, EventsTypeOK
  <2> QED BY <1>3, <2>8, <2>11 DEF Mirror, Keep, TypeOK, CallsOK, GovernanceTypeOK,
                                   governanceVars
<1>4. CASE Invoke(t)
  <2> DEFINE r == [call[t] EXCEPT !.step = "emit", !.todo = <<"blocked">>]
  <2>1. ASSUME call' = [call EXCEPT ![t].step = "emit", ![t].todo = <<"blocked">>]
        PROVE  CallsOK'
    <3>1. call' = [call EXCEPT ![t] = r]
      BY <1>1, <2>1
    <3>2. <<"blocked">> \in Seq(Channel) /\ <<"blocked">> # <<>>
      BY SingleTodo DEF Channel
    <3>3. r \in CallRecord /\ r.todo # <<>>
      BY <1>1, <3>2 DEF CallRecord, Steps
    <3> HIDE DEF r
    <3> QED BY <1>1, <3>1, <3>3, ReplaceKeepsTypes
  <2>2. ASSUME Move(t, "openTool") \/ Move(t, "failed")
        PROVE  CallsOK'
    BY <1>1, <2>2, MoveKeepsTypes DEF Steps, Ended
  <2>3. CallsOK'
    BY <1>4, <2>1, <2>2 DEF Invoke
  <2>4. executed' \subseteq Trace
    BY <1>4 DEF Invoke, TypeOK
  <2> QED BY <1>4, <2>3, <2>4 DEF Invoke, Keep, TypeOK, CallsOK, GovernanceTypeOK,
                                  EventsTypeOK, governanceVars, eventVars
<1>5. CASE OpenToolFile(t)
  <2>1. CallsOK'
    BY <1>1, <1>5, MoveKeepsTypes DEF OpenToolFile, Steps
  <2> QED BY <1>5, <2>1 DEF OpenToolFile, Keep, TypeOK, CallsOK, GovernanceTypeOK,
                            EventsTypeOK, governanceVars, eventVars, FileStates
<1>6. CASE FillToolFile(t)
  <2>1. CallsOK'
    BY <1>1, <1>6, MoveKeepsTypes DEF FillToolFile, Steps
  <2> QED BY <1>6, <2>1 DEF FillToolFile, Keep, TypeOK, CallsOK, GovernanceTypeOK,
                            EventsTypeOK, governanceVars, eventVars, FileStates
<1>7. CASE WriteToolReceipt(t)
  <2>1. PICK patch \in {<<>>, <<"patched">>} :
          call' = [call EXCEPT ![t].step = "emit",
                               ![t].todo = patch \o <<"completed", "verified">>]
    BY <1>7 DEF WriteToolReceipt
  <2> DEFINE todo == patch \o <<"completed", "verified">>
             r == [call[t] EXCEPT !.step = "emit", !.todo = todo]
  <2>2. todo \in Seq(Channel) /\ todo # <<>>
    <3>1. patch \in Seq(Channel)
      BY SingleTodo DEF Channel
    <3>2. <<"completed", "verified">> \in Seq(Channel)
      BY DEF Channel
    <3>3. Len(todo) = Len(patch) + 2 /\ todo \in Seq(Channel)
      BY <3>1, <3>2
    <3>4. Len(patch) \in Nat
      BY <3>1
    <3> HIDE DEF todo
    <3> QED BY <3>3, <3>4
  <2> HIDE DEF todo
  <2>3. call' = [call EXCEPT ![t] = r]
    BY <1>1, <2>1 DEF todo
  <2>4. r \in CallRecord /\ r.todo # <<>>
    BY <1>1, <2>2 DEF CallRecord, Steps
  <2> HIDE DEF r
  <2>5. CallsOK' /\ continuity' \in Seq(Entry)
    BY <1>1, <1>7, <2>3, <2>4, ReplaceKeepsTypes, LogKeepsTypes DEF WriteToolReceipt, EntryKinds
  <2> QED BY <1>7, <2>5 DEF WriteToolReceipt, Keep, TypeOK, CallsOK, GovernanceTypeOK,
                            EventsTypeOK, governanceVars, eventVars
<1>8. CASE Generate(t)
  <2>1. CallsOK'
    BY <1>1, <1>8, MoveKeepsTypes DEF Generate, Steps, Ended
  <2> QED BY <1>8, <2>1 DEF Generate, Keep, TypeOK, CallsOK, GovernanceTypeOK,
                            EventsTypeOK, governanceVars, eventVars
<1> QED BY <1>2, <1>3, <1>4, <1>5, <1>6, <1>7, <1>8 DEF Tooled

LEMMA ResultedKeepsTypes ==
    ASSUME TypeInv, NEW t \in Trace, Resulted(t) PROVE TypeInv'
<1> USE DEF TypeInv
<1>1. CallsOK
  BY DEF CallsOK, TypeOK
<1>2. CASE Ask(t)
  <2>1. CallsOK'
    BY <1>1, <1>2, MoveKeepsTypes DEF Ask, Steps, Ended
  <2> QED BY <1>2, <2>1 DEF Ask, Keep, TypeOK, CallsOK, GovernanceTypeOK, EventsTypeOK,
                            governanceVars, eventVars
<1>3. CASE LogResult(t)
  <2>1. CallsOK' /\ continuity' \in Seq(Entry)
    BY <1>1, <1>3, MoveKeepsTypes, LogKeepsTypes DEF LogResult, Steps, Ended, EntryKinds
  <2> QED BY <1>3, <2>1 DEF LogResult, Keep, TypeOK, CallsOK, GovernanceTypeOK,
                            EventsTypeOK, governanceVars, eventVars
<1> QED BY <1>2, <1>3 DEF Resulted

LEMMA CrashKeepsTypes == TypeInv /\ Crash => TypeInv'
<1> SUFFICES ASSUME TypeInv, Crash PROVE TypeInv'
  OBVIOUS
<1> USE DEF TypeInv
<1>1. CallsOK'
  <2>1. SUFFICES ASSUME NEW t \in Trace
                 PROVE  /\ call'[t] \in CallRecord
                        /\ call'[t].step \in {"emit", "mirror"} => call'[t].todo # <<>>
    BY DEF Crash, CallsOK, HasTodo
  <2>2. call[t] \in CallRecord
    BY DEF TypeOK
  <2>3. CASE Running(t)
    BY <2>2, <2>3, SingleTodo DEF Crash, CallRecord, Steps, Ended
  <2>4. CASE ~Running(t)
    BY <2>2, <2>4 DEF Crash, HasTodo
  <2> QED BY <2>3, <2>4
<1>2. EventsTypeOK'
  BY DEF Crash, ForgetTraces, TypeOK, EventsTypeOK
<1>3. crashes' \in 0..MaxCrashes
  <2>1. crashes \in 0..MaxCrashes /\ crashes < MaxCrashes /\ crashes' = crashes + 1
    BY DEF Crash, TypeOK
  <2> QED BY <2>1
<1>4. UNCHANGED <<minute, rateLog, continuity, results, toolFiles, executed>>
  BY DEF Crash, governanceVars
<1> QED BY <1>1, <1>2, <1>3, <1>4 DEF TypeOK, CallsOK, GovernanceTypeOK

LEMMA TypeStep == TypeInv /\ [Next]_vars => TypeInv'
<1> SUFFICES ASSUME TypeInv, [Next]_vars PROVE TypeInv'
  OBVIOUS
<1>1. CASE Clock
  BY <1>1 DEF Clock, Tick, TypeInv, TypeOK, GovernanceTypeOK, EventsTypeOK, HasTodo,
              eventVars, callVars
<1>2. CASE Crash
  BY <1>2, CrashKeepsTypes
<1>3. CASE \E t \in Trace : Step(t)
  BY <1>3, EnterKeepsTypes, GovernedKeepsTypes, SubmittedKeepsTypes, TooledKeepsTypes,
     ResultedKeepsTypes DEF Step
<1>4. CASE UNCHANGED vars
  BY <1>4 DEF vars, governanceVars, eventVars, callVars, TypeInv, TypeOK,
              GovernanceTypeOK, EventsTypeOK, HasTodo
<1> QED BY <1>1, <1>2, <1>3, <1>4 DEF Next

LEMMA TypeInvariant == Spec => []TypeInv
  BY TypeInit, TypeStep, PTL DEF Spec

\* The types of the node (nova/node): every variable keeps its type, whatever
\* the calls, the limits and the crashes.
THEOREM TypeCorrect == Spec => []TypeOK
<1>1. TypeInv => TypeOK
  BY DEF TypeInv
<1> QED BY <1>1, TypeInvariant, PTL
-----------------------------------------------------------------------------
(* What a stored result rests on *)

ToolStep == {"emit", "mirror", "invoke", "openTool", "fillTool", "toolReceipt"}
SubmittedStep == {"execute", "receipt", "event", "openResult", "fillResult"}
Quiet == {"enforce", "charge", "admit", "generate", "log",
          "done", "vetoed", "failed", "unknown"}

\* What is in the log by the time a call is at its step.
Backing(t) ==
    /\ call[t].step \in ToolStep => KindOf[t] = "tool"
    /\ call[t].step = "ask" => KindOf[t] = "result"
    /\ call[t].step \in SubmittedStep => HasEntry(t, "submit")
    /\ call[t].step \in {"event", "openResult", "fillResult"} =>
           Before(t, "submit", "receipt")
    /\ call[t].step \in {"openResult", "fillResult"} => Before(t, "receipt", "result")
    /\ call[t].step # "missing"
    /\ t \in executed /\ KindOf[t] \in {"submit", "replay"} => HasEntry(t, "submit")
    /\ results[t] # "none" => /\ Before(t, "submit", "receipt")
                              /\ Before(t, "receipt", "result")

BackingInv == TypeInv /\ \A t \in Trace : Backing(t)

\* No entry leaves the log.
Grows == \A u \in Trace :
    /\ \A k \in EntryKinds : HasEntry(u, k) => HasEntry(u, k)'
    /\ \A k, l \in EntryKinds : Before(u, k, l) => Before(u, k, l)'

LEMMA LogGrows ==
    ASSUME TypeOK, NEW t \in Trace, NEW kind \in EntryKinds, Log(t, kind)
    PROVE  /\ Grows
           /\ HasEntry(t, kind)'
           /\ \A k \in EntryKinds : HasEntry(t, k) => Before(t, k, kind)'
<1> DEFINE e == [kind |-> kind, trace |-> t, caller |-> call[t].caller]
           n == Len(continuity)
<1>1. continuity \in Seq(Entry) /\ call[t].caller \in Caller
  BY DEF TypeOK, CallRecord
<1>2. e \in Entry /\ e.kind = kind /\ e.trace = t
  BY <1>1 DEF Entry
<1>3. continuity' = Append(continuity, e)
  BY DEF Log
<1> HIDE DEF e
<1>4. /\ DOMAIN continuity = 1..n /\ DOMAIN continuity' = 1..(n + 1) /\ n \in Nat
      /\ \A i \in 1..n : continuity'[i] = continuity[i]
      /\ continuity'[n + 1] = e
  BY <1>1, <1>2, <1>3
<1> HIDE DEF n
<1>5. Grows
  BY <1>4 DEF Grows, HasEntry, Before
<1>6. HasEntry(t, kind)'
  BY <1>2, <1>4 DEF HasEntry
<1>7. ASSUME NEW k \in EntryKinds, HasEntry(t, k) PROVE Before(t, k, kind)'
  <2>1. PICK i \in 1..n : continuity[i].kind = k /\ continuity[i].trace = t
    BY <1>4, <1>7 DEF HasEntry
  <2>2. i < n + 1 /\ i \in 1..(n + 1) /\ n + 1 \in 1..(n + 1)
    BY <1>4
  <2> QED BY <1>2, <1>4, <2>1, <2>2 DEF Before
<1> QED BY <1>5, <1>6, <1>7

LEMMA SameLogGrows == continuity' = continuity => Grows
  BY DEF Grows, HasEntry, Before

\* A call that stays where it is, or goes where nothing is asked of it.
LEMMA QuietKeepsBacking ==
    ASSUME NEW u \in Trace, Backing(u), Grows,
           call'[u].step = call[u].step \/ call'[u].step \in Quiet,
           results'[u] = results[u], u \in executed' => u \in executed
    PROVE  Backing(u)'
<1>1. /\ HasEntry(u, "submit") => HasEntry(u, "submit")'
      /\ Before(u, "submit", "receipt") => Before(u, "submit", "receipt")'
      /\ Before(u, "receipt", "result") => Before(u, "receipt", "result")'
  BY DEF Grows, EntryKinds
<1> QED BY <1>1 DEF Backing, Quiet, ToolStep, SubmittedStep

\* A step of one call: the others are where they were.
LEMMA OthersKeepBacking ==
    ASSUME \A u \in Trace : Backing(u), Grows, NEW t \in Trace, Backing(t)',
           \A u \in Trace \ {t} : /\ call'[u] = call[u] /\ results'[u] = results[u]
                                  /\ u \in executed' => u \in executed
    PROVE  \A u \in Trace : Backing(u)'
<1>1. ASSUME NEW u \in Trace \ {t} PROVE Backing(u)'
  <2>1. u \in Trace /\ Backing(u) /\ call'[u].step = call[u].step
    BY <1>1
  <2>2. results'[u] = results[u] /\ (u \in executed' => u \in executed)
    BY <1>1
  <2> HIDE <1>1
  <2> QED BY <2>1, <2>2, QuietKeepsBacking
<1> QED BY <1>1

LEMMA EnforceIsQuiet ==
    ASSUME TypeOK, NEW t \in Trace, NEW caller, Enforce(t, caller)
    PROVE  /\ \A u \in Trace \ {t} : call'[u] = call[u]
           /\ \/ call'[t].step \in Quiet
              \/ call'[t].step = "emit" /\ KindOf[t] = "tool"
<1>1. call \in [Trace -> CallRecord]
  BY DEF TypeOK
<1>2. CASE Refuse(t, caller)
  <2> DEFINE step == CASE KindOf[t] = "tool" -> "emit"
                       [] KindOf[t] = "verify" -> "generate"
                       [] OTHER -> "vetoed"
  <2>1. step \in Quiet \/ (step = "emit" /\ KindOf[t] = "tool")
    BY DEF Quiet
  <2>2. call'[t].step = step /\ \A u \in Trace \ {t} : call'[u] = call[u]
    BY <1>1, <1>2 DEF Refuse, CallRecord
  <2> QED BY <2>1, <2>2
<1>3. CASE TakeTime(t, caller)
  BY <1>1, <1>3 DEF TakeTime, Quiet, CallRecord
<1>4. CASE Break(t)
  BY <1>1, <1>4 DEF Break, Move, Quiet, CallRecord
<1> QED BY <1>2, <1>3, <1>4 DEF Enforce

LEMMA MoveMoves ==
    ASSUME TypeOK, NEW t \in Trace, NEW step, Move(t, step)
    PROVE  call'[t].step = step /\ \A u \in Trace \ {t} : call'[u] = call[u]
  BY DEF Move, TypeOK, CallRecord

\* A call that comes in is answered at once, asks the provider, or is governed.
Answered(t) ==
    \/ Move(t, "unknown") \/ Move(t, "missing") \/ Move(t, "failed")
    \/ Move(t, "done") /\ KindOf[t] = "verify"
    \/ Move(t, "ask") /\ KindOf[t] = "result"

LEMMA EnterCases ==
    ASSUME NEW t \in Trace, Enter(t)
    PROVE  Answered(t) \/ \E caller : Refuse(t, caller) \/ TakeTime(t, caller)
<1>1. CASE Begin(t)
  BY <1>1 DEF Begin, Enforce, Break, Answered
<1>2. CASE BeginResult(t)
  BY <1>2 DEF BeginResult, Answered
<1>3. CASE \E old \in Trace : BeginReplay(t, old)
  BY <1>3 DEF BeginReplay, Enforce, Break, Answered
<1>4. CASE \E old \in Trace : BeginVerify(t, old)
  BY <1>4 DEF BeginVerify, Enforce, Break, Answered
<1> QED BY <1>1, <1>2, <1>3, <1>4 DEF Enter

\* A call comes in: what it is submitted again for was backed.
LEMMA EnterKeepsBacking ==
    ASSUME BackingInv, NEW t \in Trace, Enter(t)
    PROVE  \A u \in Trace : Backing(u)'
<1>1. TypeOK /\ \A u \in Trace : Backing(u)
  BY DEF BackingInv, TypeInv
<1>2. /\ UNCHANGED <<continuity, results, executed>>
      /\ \A u \in Trace \ {t} : call'[u] = call[u]
      /\ \/ call'[t].step \in Quiet
         \/ call'[t].step = "emit" /\ KindOf[t] = "tool"
         \/ call'[t].step = "ask" /\ KindOf[t] = "result"
  <2>1. CASE Begin(t)
    <3>1. Enforce(t, CallerOf[t]) /\ UNCHANGED <<continuity, results, executed>>
      BY <2>1 DEF Begin, Keep
    <3> QED BY <1>1, <3>1, EnforceIsQuiet
  <2>2. CASE \E old \in Trace : BeginReplay(t, old)
    <3>1. PICK old \in Trace : BeginReplay(t, old)
      BY <2>2
    <3>2. results[old] = "whole" => HasEntry(old, "submit")
      BY <1>1 DEF Backing, Before, HasEntry
    <3>3. /\ Move(t, "unknown") \/ Enforce(t, call[old].caller)
          /\ UNCHANGED <<continuity, results, executed>>
      BY <3>1, <3>2 DEF BeginReplay, Keep
    <3> QED BY <1>1, <3>3, EnforceIsQuiet, MoveMoves DEF Quiet
  <2>3. CASE \E old \in Trace : BeginVerify(t, old)
    <3>1. /\ \/ Move(t, "unknown") \/ Move(t, "failed") \/ Move(t, "done")
             \/ Enforce(t, Anonymous)
          /\ UNCHANGED <<continuity, results, executed>>
      BY <2>3 DEF BeginVerify, Keep
    <3> QED BY <1>1, <3>1, EnforceIsQuiet, MoveMoves DEF Quiet
  <2>4. CASE BeginResult(t)
    <3>1. Move(t, "ask") /\ KindOf[t] = "result" /\ UNCHANGED <<continuity, results, executed>>
      BY <2>4 DEF BeginResult, Keep
    <3> QED BY <1>1, <3>1, MoveMoves
  <2> QED BY <2>1, <2>2, <2>3, <2>4 DEF Enter
<1>3. Grows
  BY <1>2, SameLogGrows
<1>4. Backing(t)'
  <2>1. CASE call'[t].step \in Quiet
    BY <1>1, <1>2, <1>3, <2>1, QuietKeepsBacking
  <2>2. CASE call'[t].step = "emit" /\ KindOf[t] = "tool"
    BY <1>1, <1>2, <2>2 DEF Backing, ToolStep, SubmittedStep, HasEntry, Before
  <2>3. CASE call'[t].step = "ask" /\ KindOf[t] = "result"
    BY <1>1, <1>2, <2>3 DEF Backing, ToolStep, SubmittedStep, HasEntry, Before
  <2> QED BY <1>2, <2>1, <2>2, <2>3
<1> QED BY <1>1, <1>2, <1>3, <1>4, OthersKeepBacking

LEMMA GovernedKeepsBacking ==
    ASSUME BackingInv, NEW t \in Trace, Governed(t)
    PROVE  \A u \in Trace : Backing(u)'
<1>1. TypeOK /\ \A u \in Trace : Backing(u)
  BY DEF BackingInv, TypeInv
<1>2. /\ UNCHANGED <<continuity, results, executed>>
      /\ \A u \in Trace \ {t} : call'[u] = call[u]
      /\ \/ call'[t].step \in Quiet
         \/ call'[t].step = "emit" /\ KindOf[t] = "tool"
  <2>1. CASE Count(t)
    BY <1>1, <2>1 DEF Count, Keep, Quiet, TypeOK, CallRecord
  <2>2. CASE AppendCharge(t)
    <3> DEFINE step == CASE KindOf[t] = "verify" -> "generate"
                         [] KindOf[t] = "tool" -> "emit"
                         [] OTHER -> IF call[t].verdict = "free" THEN "admit" ELSE "vetoed"
    <3>1. step \in Quiet \/ (step = "emit" /\ KindOf[t] = "tool")
      BY DEF Quiet
    <3>2. call'[t].step = step /\ \A u \in Trace \ {t} : call'[u] = call[u]
      BY <1>1, <2>2 DEF AppendCharge, TypeOK, CallRecord
    <3> QED BY <2>2, <3>1, <3>2 DEF AppendCharge
  <2> QED BY <2>1, <2>2 DEF Governed
<1>3. Grows
  BY <1>2, SameLogGrows
<1>4. Backing(t)'
  <2>1. CASE call'[t].step \in Quiet
    BY <1>1, <1>2, <1>3, <2>1, QuietKeepsBacking
  <2>2. CASE call'[t].step = "emit" /\ KindOf[t] = "tool"
    BY <1>1, <1>2, <2>2 DEF Backing, ToolStep, SubmittedStep, HasEntry, Before
  <2> QED BY <1>2, <2>1, <2>2
<1> QED BY <1>1, <1>2, <1>3, <1>4, OthersKeepBacking

\* submit_node_task writes in the order the result rests on.
LEMMA SubmittedKeepsBacking ==
    ASSUME BackingInv, NEW t \in Trace, Submitted(t)
    PROVE  \A u \in Trace : Backing(u)'
<1>1. TypeOK /\ Backing(t) /\ \A u \in Trace : Backing(u)
  BY DEF BackingInv, TypeInv
<1>2. CASE Admit(t)
  <2>1. /\ call'[t].step = "execute" /\ \A u \in Trace \ {t} : call'[u] = call[u]
        /\ UNCHANGED <<results, executed>>
    BY <1>1, <1>2 DEF Admit, Keep, TypeOK, CallRecord
  <2>2. Grows /\ HasEntry(t, "submit")'
    BY <1>1, <1>2, LogGrows DEF Admit, EntryKinds
  <2>3. Backing(t)'
    BY <1>1, <2>1, <2>2 DEF Backing, Grows, ToolStep, SubmittedStep, EntryKinds
  <2> QED BY <1>1, <2>1, <2>2, <2>3, OthersKeepBacking
<1>3. CASE Execute(t)
  <2>1. /\ call[t].step = "execute" /\ call'[t].step \in {"receipt", "failed"}
        /\ \A u \in Trace \ {t} : call'[u] = call[u]
        /\ UNCHANGED <<continuity, results>>
        /\ executed' \subseteq executed \cup {t}
    BY <1>1, <1>3, MoveMoves DEF Execute, Keep
  <2>2. Grows
    BY <2>1, SameLogGrows
  <2>3. Backing(t)'
    BY <1>1, <2>1, <2>2 DEF Backing, Grows, ToolStep, SubmittedStep, EntryKinds
  <2> QED BY <1>1, <2>1, <2>2, <2>3, OthersKeepBacking
<1>4. CASE WriteReceipt(t)
  <2>1. /\ call[t].step = "receipt" /\ call'[t].step = "event"
        /\ \A u \in Trace \ {t} : call'[u] = call[u]
        /\ UNCHANGED <<results, executed>>
    BY <1>1, <1>4, MoveMoves DEF WriteReceipt, Keep
  <2>2. HasEntry(t, "submit")
    BY <1>1, <2>1 DEF Backing, SubmittedStep
  <2>3. Grows /\ Before(t, "submit", "receipt")'
    BY <1>1, <1>4, <2>2, LogGrows DEF WriteReceipt, EntryKinds
  <2>4. Backing(t)'
    BY <1>1, <2>1, <2>2, <2>3 DEF Backing, Grows, ToolStep, SubmittedStep, EntryKinds
  <2> QED BY <1>1, <2>1, <2>3, <2>4, OthersKeepBacking
<1>5. CASE WriteEvent(t)
  <2>1. /\ call[t].step = "event" /\ call'[t].step = "openResult"
        /\ \A u \in Trace \ {t} : call'[u] = call[u]
        /\ UNCHANGED <<results, executed>>
    BY <1>1, <1>5, MoveMoves DEF WriteEvent, Keep
  <2>2. /\ HasEntry(t, "submit") /\ HasEntry(t, "receipt")
        /\ Before(t, "submit", "receipt")
    BY <1>1, <2>1 DEF Backing, SubmittedStep, Before, HasEntry
  <2>3. Grows /\ Before(t, "receipt", "result")'
    BY <1>1, <1>5, <2>2, LogGrows DEF WriteEvent, EntryKinds
  <2>4. Backing(t)'
    BY <1>1, <2>1, <2>2, <2>3 DEF Backing, Grows, ToolStep, SubmittedStep, EntryKinds
  <2> QED BY <1>1, <2>1, <2>3, <2>4, OthersKeepBacking
<1>6. CASE OpenResult(t) \/ FillResult(t)
  <2>1. /\ call[t].step \in {"openResult", "fillResult"}
        /\ call'[t].step \in {"fillResult", "done"}
        /\ \A u \in Trace \ {t} : call'[u] = call[u]
        /\ UNCHANGED <<continuity, executed>>
    BY <1>1, <1>6, MoveMoves DEF OpenResult, FillResult, Keep
  <2>2. \A u \in Trace \ {t} : results'[u] = results[u]
    BY <1>1, <1>6 DEF OpenResult, FillResult, TypeOK
  <2>3. Grows
    BY <2>1, SameLogGrows
  <2>4. Backing(t)'
    BY <1>1, <2>1, <2>3 DEF Backing, Grows, ToolStep, SubmittedStep, EntryKinds
  <2> QED BY <1>1, <2>1, <2>2, <2>3, <2>4, OthersKeepBacking
<1> QED BY <1>2, <1>3, <1>4, <1>5, <1>6 DEF Submitted

\* A tool call writes no result and no submit event, and is no submit.
LEMMA TooledKeepsBacking ==
    ASSUME BackingInv, NEW t \in Trace, Tooled(t)
    PROVE  \A u \in Trace : Backing(u)'
<1>1. /\ TypeOK /\ Backing(t) /\ \A u \in Trace : Backing(u)
      /\ call \in [Trace -> CallRecord] /\ HasTodo
  BY DEF BackingInv, TypeInv, TypeOK
<1>2. CASE Generate(t)
  <2>1. /\ call'[t].step \in Quiet /\ \A u \in Trace \ {t} : call'[u] = call[u]
        /\ UNCHANGED <<continuity, results, executed>>
    BY <1>1, <1>2, MoveMoves DEF Generate, Keep, Quiet
  <2>2. Grows
    BY <2>1, SameLogGrows
  <2>3. Backing(t)'
    BY <1>1, <2>1, <2>2, QuietKeepsBacking
  <2> QED BY <1>1, <2>1, <2>2, <2>3, OthersKeepBacking
<1>3. CASE ~Generate(t)
  <2>1. /\ call[t].step \in ToolStep
        /\ call'[t].step \in ToolStep \cup {"done", "vetoed", "failed"}
        /\ \A u \in Trace \ {t} : call'[u] = call[u]
    <3>1. CASE Emit(t)
      BY <1>1, <3>1, MoveMoves DEF Emit, ToolStep
    <3>2. CASE Mirror(t)
      <4> DEFINE step == IF Len(call[t].todo) > 1 THEN "emit"
                         ELSE AfterEvents(Head(call[t].todo))
      <4>1. step \in ToolStep \cup {"done", "vetoed", "failed"}
        BY DEF AfterEvents, ToolStep
      <4>2. call'[t].step = step /\ \A u \in Trace \ {t} : call'[u] = call[u]
        BY <1>1, <3>2 DEF Mirror, CallRecord
      <4> QED BY <3>2, <4>1, <4>2 DEF Mirror, ToolStep
    <3>3. CASE Invoke(t)
      BY <1>1, <3>3 DEF Invoke, Move, ToolStep, CallRecord
    <3>4. CASE OpenToolFile(t) \/ FillToolFile(t)
      BY <1>1, <3>4, MoveMoves DEF OpenToolFile, FillToolFile, ToolStep
    <3>5. CASE WriteToolReceipt(t)
      BY <1>1, <3>5 DEF WriteToolReceipt, ToolStep, CallRecord
    <3> QED BY <1>3, <3>1, <3>2, <3>3, <3>4, <3>5 DEF Tooled
  <2>2. /\ results' = results
        /\ executed' \subseteq executed \cup {t}
        /\ continuity' = continuity \/ Log(t, "toolReceipt")
    BY <1>3 DEF Tooled, Emit, Mirror, Invoke, OpenToolFile, FillToolFile,
                WriteToolReceipt, Keep
  <2>3. Grows
    BY <1>1, <2>2, SameLogGrows, LogGrows DEF EntryKinds
  <2>4. KindOf[t] = "tool"
    BY <1>1, <2>1 DEF Backing
  <2>5. Backing(t)'
    BY <1>1, <2>1, <2>2, <2>3, <2>4
       DEF Backing, Grows, ToolStep, SubmittedStep, EntryKinds
  <2> QED BY <1>1, <2>1, <2>2, <2>3, <2>5, OthersKeepBacking
<1> QED BY <1>2, <1>3

\* A call of no governance writes a result event and is no submit.
LEMMA ResultedKeepsBacking ==
    ASSUME BackingInv, NEW t \in Trace, Resulted(t)
    PROVE  \A u \in Trace : Backing(u)'
<1>1. TypeOK /\ Backing(t) /\ \A u \in Trace : Backing(u)
  BY DEF BackingInv, TypeInv
<1>2. CASE Ask(t)
  <2>1. /\ call[t].step = "ask" /\ call'[t].step \in {"log", "failed"}
        /\ \A u \in Trace \ {t} : call'[u] = call[u]
        /\ UNCHANGED <<continuity, results>>
        /\ executed' \subseteq executed \cup {t}
    BY <1>1, <1>2, MoveMoves DEF Ask, Keep
  <2>2. Grows /\ KindOf[t] = "result"
    BY <1>1, <2>1, SameLogGrows DEF Backing
  <2>3. Backing(t)'
    BY <1>1, <2>1, <2>2 DEF Backing, Grows, ToolStep, SubmittedStep, EntryKinds
  <2> QED BY <1>1, <2>1, <2>2, <2>3, OthersKeepBacking
<1>3. CASE LogResult(t)
  <2>1. /\ call'[t].step \in Quiet /\ \A u \in Trace \ {t} : call'[u] = call[u]
        /\ UNCHANGED <<results, executed>>
    BY <1>1, <1>3, MoveMoves DEF LogResult, Keep, Quiet
  <2>2. Grows
    BY <1>1, <1>3, LogGrows DEF LogResult, EntryKinds
  <2>3. Backing(t)'
    BY <1>1, <2>1, <2>2, QuietKeepsBacking
  <2> QED BY <1>1, <2>1, <2>2, <2>3, OthersKeepBacking
<1> QED BY <1>2, <1>3 DEF Resulted

LEMMA CrashKeepsBacking ==
    ASSUME BackingInv, Crash
    PROVE  \A u \in Trace : Backing(u)'
<1>1. Grows
  BY SameLogGrows DEF Crash
<1>2. ASSUME NEW u \in Trace PROVE Backing(u)'
  <2>1. call'[u].step = call[u].step \/ call'[u].step \in Quiet
    <3>1. call[u] \in CallRecord
      BY DEF BackingInv, TypeInv, TypeOK
    <3> QED BY <3>1 DEF Crash, CallRecord, Quiet
  <2>2. Backing(u) /\ results'[u] = results[u] /\ (u \in executed' => u \in executed)
    BY DEF Crash, BackingInv
  <2> QED BY <1>1, <2>1, <2>2, QuietKeepsBacking
<1> QED BY <1>2

LEMMA BackingStep == BackingInv /\ [Next]_vars => BackingInv'
<1> SUFFICES ASSUME BackingInv, [Next]_vars PROVE BackingInv'
  OBVIOUS
<1>1. TypeInv'
  BY TypeStep DEF BackingInv
<1>2. \A u \in Trace : Backing(u)'
  <2>1. CASE \E t \in Trace : Step(t)
    BY <2>1, EnterKeepsBacking, GovernedKeepsBacking, SubmittedKeepsBacking,
       TooledKeepsBacking, ResultedKeepsBacking DEF Step
  <2>2. CASE Crash
    BY <2>2, CrashKeepsBacking
  <2>3. CASE UNCHANGED <<call, continuity, results, executed>>
    BY <2>3 DEF BackingInv, Backing, HasEntry, Before
  <2> QED BY <2>1, <2>2, <2>3 DEF Next, Clock, vars, callVars
<1> QED BY <1>1, <1>2 DEF BackingInv

LEMMA BackingInvariant == Spec => []BackingInv
<1>1. Init => BackingInv
  BY TypeInit DEF Init, NoCall, BackingInv, Backing, ToolStep, SubmittedStep
<1> QED BY <1>1, BackingStep, PTL DEF Spec

\* However the process ends, a stored result has its submit event, receipt and
\* result event in the log, and a replay that found it finds its packet
\* (submit_node_task, replay_trace).
THEOREM ResultsAreBacked == Spec => []ResultIsBacked
<1>1. BackingInv => ResultIsBacked
  BY DEF BackingInv, Backing, ResultIsBacked
<1> QED BY <1>1, BackingInvariant, PTL
-----------------------------------------------------------------------------
(* What an execution was charged *)

Paid(c) == {t \in Trace : call[t].caller = c /\ call[t].verdict = "allowed"}

\* Who is to be executed, or was, has a free place of the limit, and has it for good.
Paying(t) ==
    /\ call[t].verdict = "allowed" => call[t].step \notin {"idle", "enforce", "charge"}
    /\ call[t].step \in {"admit", "execute", "invoke"} => call[t].verdict = "allowed"
    /\ call[t].step \in {"emit", "mirror"} =>
           \/ call[t].verdict = "allowed"
           \/ \A i \in DOMAIN call[t].todo : call[t].todo[i] # "invoked"
    /\ call[t].step = "ask" => KindOf[t] = "result"
    /\ t \in executed /\ KindOf[t] \in GovernedKinds => call[t].verdict = "allowed"

Balanced == \A c \in Caller :
    IsFiniteSet(Paid(c)) /\ Cardinality(Paid(c)) <= Cardinality(Charged(c))

ChargeInv == TypeInv /\ Balanced /\ \A t \in Trace : Paying(t)

LEMMA ChargedIsFinite ==
    ASSUME TypeOK, NEW c \in Caller
    PROVE  IsFiniteSet(Charged(c)) /\ Cardinality(Charged(c)) \in Nat
<1>1. rateLog \in Seq(Charge)
  BY DEF TypeOK, GovernanceTypeOK
<1>2. Charged(c) \subseteq 1..Len(rateLog) /\ Len(rateLog) \in Nat
  BY <1>1 DEF Charged
<1>3. IsFiniteSet(1..Len(rateLog))
  BY <1>2, FS_Interval
<1> QED BY <1>2, <1>3, FS_Subset, FS_CardinalityType

\* A step that charges nobody and lets nobody pass, who had not.
LEMMA NoChargeKeepsBalance ==
    ASSUME Balanced, rateLog' = rateLog,
           \A u \in Trace :
               \/ call'[u].verdict = call[u].verdict /\ call'[u].caller = call[u].caller
               \/ call'[u].verdict # "allowed" /\ call[u].verdict # "allowed"
    PROVE  Balanced'
<1>1. ASSUME NEW c \in Caller PROVE Paid(c)' = Paid(c) /\ Charged(c)' = Charged(c)
  BY DEF Paid, Charged
<1> QED BY <1>1 DEF Balanced

LEMMA EnterKeepsCharge ==
    ASSUME ChargeInv, NEW t \in Trace, Enter(t)
    PROVE  Balanced' /\ \A u \in Trace : Paying(u)'
<1>1. /\ TypeOK /\ Balanced /\ (\A u \in Trace : Paying(u))
      /\ call \in [Trace -> CallRecord]
  BY DEF ChargeInv, TypeInv, TypeOK
<1>2. /\ UNCHANGED <<rateLog, executed>> /\ call[t].step = "idle"
      /\ Answered(t) \/ \E caller : Refuse(t, caller) \/ TakeTime(t, caller)
  BY EnterCases DEF Enter, Begin, BeginReplay, BeginVerify, BeginResult, Keep, governanceVars
<1>3. call[t].verdict # "allowed" /\ ~(t \in executed /\ KindOf[t] \in GovernedKinds)
  BY <1>1, <1>2 DEF Paying
<1>4. /\ \A u \in Trace \ {t} : call'[u] = call[u]
      /\ call'[t].verdict # "allowed"
      /\ call'[t].step \notin {"admit", "execute", "invoke", "mirror"}
      /\ call'[t].step = "emit" => call'[t].todo = <<"blocked">>
      /\ call'[t].step = "ask" => KindOf[t] = "result"
  <2>1. CASE Answered(t)
    BY <1>1, <1>3, <2>1 DEF Answered, Move, CallRecord
  <2>2. CASE \E caller : TakeTime(t, caller)
    BY <1>1, <1>3, <2>2 DEF TakeTime, CallRecord
  <2>3. CASE \E caller : Refuse(t, caller)
    <3> DEFINE step == CASE KindOf[t] = "tool" -> "emit"
                         [] KindOf[t] = "verify" -> "generate"
                         [] OTHER -> "vetoed"
               todo == IF KindOf[t] = "tool" THEN <<"blocked">> ELSE <<>>
    <3>1. step \in {"emit", "generate", "vetoed"} /\ (step = "emit" => todo = <<"blocked">>)
      OBVIOUS
    <3>2. /\ call'[t].step = step /\ call'[t].todo = todo /\ call'[t].verdict = "blocked"
          /\ \A u \in Trace \ {t} : call'[u] = call[u]
      BY <1>1, <2>3 DEF Refuse, CallRecord
    <3> QED BY <3>1, <3>2
  <2> QED BY <1>2, <2>1, <2>2, <2>3
<1>5. Balanced'
  BY <1>1, <1>2, <1>3, <1>4, NoChargeKeepsBalance
<1>6. Paying(t)'
  BY <1>2, <1>3, <1>4 DEF Paying
<1>7. \A u \in Trace \ {t} : Paying(u)'
  BY <1>1, <1>2, <1>4 DEF Paying
<1> QED BY <1>5, <1>6, <1>7

\* The line that is appended and the place it takes are the same call's.
LEMMA GovernedKeepsCharge ==
    ASSUME ChargeInv, NEW t \in Trace, Governed(t)
    PROVE  Balanced' /\ \A u \in Trace : Paying(u)'
<1>1. /\ TypeOK /\ Balanced /\ (\A u \in Trace : Paying(u))
      /\ call \in [Trace -> CallRecord]
  BY DEF ChargeInv, TypeInv, TypeOK
<1>2. call[t].verdict # "allowed" /\ ~(t \in executed /\ KindOf[t] \in GovernedKinds)
  BY <1>1 DEF Paying, Governed, Count, AppendCharge
<1>3. CASE Count(t)
  <2>1. /\ UNCHANGED <<rateLog, executed>> /\ call'[t].step = "charge"
        /\ call'[t].verdict # "allowed" /\ \A u \in Trace \ {t} : call'[u] = call[u]
    BY <1>1, <1>3 DEF Count, Keep, governanceVars, CallRecord
  <2>2. Balanced'
    BY <1>1, <1>2, <2>1, NoChargeKeepsBalance
  <2>3. Paying(t)'
    BY <1>2, <2>1 DEF Paying
  <2>4. \A u \in Trace \ {t} : Paying(u)'
    BY <1>1, <2>1 DEF Paying
  <2> QED BY <2>2, <2>3, <2>4
<1>4. CASE AppendCharge(t)
  <2> DEFINE allowed == call[t].verdict = "free"
             verdict == IF allowed THEN "allowed" ELSE "blocked"
             step == CASE KindOf[t] = "verify" -> "generate"
                       [] KindOf[t] = "tool" -> "emit"
                       [] OTHER -> IF allowed THEN "admit" ELSE "vetoed"
             todo == IF KindOf[t] = "tool"
                     THEN IF allowed THEN <<"invoked">> ELSE <<"blocked">> ELSE <<>>
             d == call[t].caller
             e == [caller |-> d, minute |-> call[t].stamp, blocked |-> ~allowed]
             n == Len(rateLog)
  <2>1. /\ call'[t].verdict = verdict /\ call'[t].step = step /\ call'[t].todo = todo
        /\ call'[t].caller = d
        /\ \A u \in Trace \ {t} : call'[u] = call[u]
    BY <1>1, <1>4 DEF AppendCharge, CallRecord
  <2>2. /\ step \in {"generate", "emit", "admit", "vetoed"}
        /\ step = "admit" => verdict = "allowed"
        /\ step = "emit" => verdict = "allowed" \/ todo = <<"blocked">>
    OBVIOUS
  <2>3. executed' = executed /\ rateLog' = Append(rateLog, e)
    BY <1>4 DEF AppendCharge, Record
  <2>4. d \in Caller /\ e.caller = d /\ e.blocked = ~allowed /\ rateLog \in Seq(Charge)
        /\ e \in Charge
    BY <1>1 DEF CallRecord, TypeOK, GovernanceTypeOK, Charge
  <2>5. /\ DOMAIN rateLog = 1..n /\ DOMAIN rateLog' = 1..(n + 1) /\ n \in Nat
        /\ \A i \in 1..n : rateLog'[i] = rateLog[i]
        /\ rateLog'[n + 1] = e
    BY <2>3, <2>4
  <2>6. verdict \in {"allowed", "blocked"} /\ (verdict = "allowed" <=> allowed)
    OBVIOUS
  <2> HIDE DEF allowed, verdict, step, todo, d, e, n
  <2>7. Paying(t)'
    BY <1>2, <2>1, <2>2, <2>3, <2>6 DEF Paying
  <2>8. \A u \in Trace \ {t} : Paying(u)'
    BY <1>1, <2>1, <2>3 DEF Paying
  <2>9. ASSUME NEW c \in Caller
        PROVE  IsFiniteSet(Paid(c)') /\ Cardinality(Paid(c)') <= Cardinality(Charged(c)')
    <3>1. /\ IsFiniteSet(Paid(c)) /\ Cardinality(Paid(c)) <= Cardinality(Charged(c))
          /\ IsFiniteSet(Charged(c)) /\ Cardinality(Charged(c)) \in Nat
          /\ Cardinality(Paid(c)) \in Nat
      BY <1>1, ChargedIsFinite, FS_CardinalityType DEF Balanced
    <3>2. CASE c = d /\ allowed
      <4>1. Paid(c)' = Paid(c) \cup {t} /\ t \notin Paid(c)
        BY <1>2, <2>1, <2>6, <3>2 DEF Paid, d
      <4>2. Charged(c)' = Charged(c) \cup {n + 1} /\ n + 1 \notin Charged(c)
        <5>0. /\ Charged(c) = {i \in 1..n : rateLog[i].caller = c /\ ~rateLog[i].blocked}
              /\ Charged(c)' = {i \in 1..(n + 1) : rateLog'[i].caller = c /\ ~rateLog'[i].blocked}
          BY <2>5 DEF Charged
        <5>a. \A i \in 1..n : i \in 1..(n + 1)
          BY <2>5
        <5>b. n + 1 \in 1..(n + 1)
          BY <2>5
        <5>c. n + 1 \in Charged(c)'
          BY <2>4, <2>5, <3>2, <5>0, <5>b
        <5>1. /\ \A i \in 1..n : i \in Charged(c)' <=> i \in Charged(c)
              /\ Charged(c) \subseteq 1..n /\ Charged(c)' \subseteq 1..(n + 1)
          BY <2>5, <5>0, <5>a
        <5>2. n + 1 \notin 1..n /\ 1..(n + 1) = 1..n \cup {n + 1}
          BY <2>5
        <5> QED BY <5>1, <5>2, <5>c
      <4>3. /\ IsFiniteSet(Paid(c)') /\ Cardinality(Paid(c)') = Cardinality(Paid(c)) + 1
        BY <3>1, <4>1, FS_AddElement
      <4>4. Cardinality(Charged(c)') = Cardinality(Charged(c)) + 1
        BY <3>1, <4>2, FS_AddElement
      <4> QED BY <3>1, <4>3, <4>4
    <3>3. CASE ~(c = d /\ allowed)
      <4>1. Paid(c)' = Paid(c)
        BY <1>2, <2>1, <2>6, <3>3 DEF Paid, d
      <4>2. Charged(c)' = Charged(c)
        <5>0. /\ Charged(c) = {i \in 1..n : rateLog[i].caller = c /\ ~rateLog[i].blocked}
              /\ Charged(c)' = {i \in 1..(n + 1) : rateLog'[i].caller = c /\ ~rateLog'[i].blocked}
          BY <2>5 DEF Charged
        <5>a. \A i \in 1..n : i \in 1..(n + 1)
          BY <2>5
        <5>b. n + 1 \in 1..(n + 1)
          BY <2>5
        <5>c. n + 1 \notin Charged(c)'
          BY <2>4, <2>5, <3>3, <5>0, <5>b
        <5>1. /\ \A i \in 1..n : i \in Charged(c)' <=> i \in Charged(c)
              /\ Charged(c) \subseteq 1..n /\ Charged(c)' \subseteq 1..(n + 1)
          BY <2>5, <5>0, <5>a
        <5>2. 1..(n + 1) = 1..n \cup {n + 1}
          BY <2>5
        <5> QED BY <5>1, <5>2, <5>c
      <4> QED BY <3>1, <4>1, <4>2
    <3> QED BY <3>2, <3>3
  <2> QED BY <2>7, <2>8, <2>9 DEF Balanced
<1> QED BY <1>3, <1>4 DEF Governed

\* The rest of a call keeps its caller and its verdict; only who may is executed.
LEMMA RestKeepsCharge ==
    ASSUME ChargeInv, NEW t \in Trace, Submitted(t) \/ Tooled(t) \/ Resulted(t)
    PROVE  Balanced' /\ \A u \in Trace : Paying(u)'
<1>1. /\ TypeOK /\ Balanced /\ (\A u \in Trace : Paying(u)) /\ HasTodo
      /\ call \in [Trace -> CallRecord]
  BY DEF ChargeInv, TypeInv, TypeOK
<1>2. rateLog' = rateLog
  BY DEF Submitted, Admit, Execute, WriteReceipt, WriteEvent, OpenResult, FillResult,
         Tooled, Emit, Mirror, Invoke, OpenToolFile, FillToolFile, WriteToolReceipt,
         Generate, Resulted, Ask, LogResult, Keep, governanceVars
<1>3. /\ call'[t].verdict = call[t].verdict /\ call'[t].caller = call[t].caller
      /\ \A u \in Trace \ {t} : call'[u] = call[u]
  BY <1>1 DEF Submitted, Admit, Execute, WriteReceipt, WriteEvent, OpenResult, FillResult,
         Tooled, Emit, Mirror, Invoke, OpenToolFile, FillToolFile, WriteToolReceipt,
         Generate, Resulted, Ask, LogResult, Move, CallRecord
<1>4. Balanced'
  BY <1>1, <1>2, <1>3, NoChargeKeepsBalance
<1>5. /\ executed' \subseteq executed \cup {t}
      /\ executed' # executed => call[t].step \in {"execute", "invoke", "ask"}
  BY DEF Submitted, Admit, Execute, WriteReceipt, WriteEvent, OpenResult, FillResult,
         Tooled, Emit, Mirror, Invoke, OpenToolFile, FillToolFile, WriteToolReceipt,
         Generate, Resulted, Ask, LogResult, Keep
<1>6. \A u \in Trace \ {t} : Paying(u)'
  BY <1>1, <1>3, <1>5 DEF Paying
<1>7. /\ call[t].step \notin {"idle", "enforce", "charge"}
      /\ call'[t].step \notin {"idle", "enforce", "charge", "admit", "ask"}
      /\ call'[t].step = "execute" => call[t].step = "admit"
  <2>1. CASE ~Mirror(t)
    BY <1>1, <2>1 DEF Submitted, Admit, Execute, WriteReceipt, WriteEvent, OpenResult,
         FillResult, Tooled, Emit, Invoke, OpenToolFile, FillToolFile, WriteToolReceipt,
         Generate, Resulted, Ask, LogResult, Move, CallRecord
  <2>2. CASE Mirror(t)
    BY <1>1, <2>2 DEF Mirror, CallRecord, AfterEvents
  <2> QED BY <2>1, <2>2
<1>8. call'[t].step \in {"emit", "mirror", "invoke"} =>
          \/ call[t].verdict = "allowed"
          \/ /\ call'[t].step # "invoke"
             /\ \A i \in DOMAIN call'[t].todo : call'[t].todo[i] # "invoked"
  <2>1. CASE Emit(t)
    BY <1>1, <2>1 DEF Emit, Move, Paying, CallRecord
  <2>2. CASE Mirror(t)
    <3> DEFINE todo == call[t].todo
    <3>1. todo \in Seq(Channel) /\ todo # <<>>
      BY <1>1, <2>2 DEF Mirror, HasTodo, CallRecord
    <3>2. \/ call[t].verdict = "allowed"
          \/ \A i \in 1..Len(todo) : todo[i] # "invoked"
      BY <1>1, <2>2, <3>1 DEF Mirror, Paying
    <3>3. /\ call'[t].todo = Tail(todo)
          /\ call'[t].step = "invoke" => Head(todo) = "invoked"
      <4>1. call'[t].todo = Tail(todo)
        BY <1>1, <2>2 DEF Mirror, CallRecord
      <4>2. call'[t].step = IF Len(todo) > 1 THEN "emit" ELSE AfterEvents(Head(todo))
        BY <1>1, <2>2 DEF Mirror, CallRecord
      <4> QED BY <4>1, <4>2 DEF AfterEvents
    <3> HIDE DEF todo
    <3>4. /\ Len(todo) \in Nat /\ Len(todo) # 0 /\ Head(todo) = todo[1]
          /\ DOMAIN Tail(todo) = 1..(Len(todo) - 1)
          /\ \A i \in 1..(Len(todo) - 1) : Tail(todo)[i] = todo[i + 1]
      BY <3>1, EmptySeq, HeadTailProperties, LenProperties
    <3> QED BY <3>2, <3>3, <3>4
  <2>3. CASE Invoke(t)
    BY <1>1, <2>3 DEF Invoke, Paying
  <2>4. CASE WriteToolReceipt(t)
    <3>1. PICK patch \in {<<>>, <<"patched">>} :
              call'[t].todo = patch \o <<"completed", "verified">>
      BY <1>1, <2>4 DEF WriteToolReceipt, CallRecord
    <3>2. call'[t].step = "emit"
      BY <1>1, <2>4 DEF WriteToolReceipt, CallRecord
    <3> QED BY <3>1, <3>2
  <2>5. CASE ~(Emit(t) \/ Mirror(t) \/ Invoke(t) \/ WriteToolReceipt(t))
    BY <1>1, <2>5 DEF Submitted, Admit, Execute, WriteReceipt, WriteEvent, OpenResult,
         FillResult, Tooled, OpenToolFile, FillToolFile, Generate, Resulted,
         Ask, LogResult, Move, CallRecord
  <2> QED BY <2>1, <2>2, <2>3, <2>4, <2>5
<1>9. Paying(t)'
  BY <1>1, <1>3, <1>5, <1>7, <1>8 DEF Paying, GovernedKinds
<1> QED BY <1>4, <1>6, <1>9

LEMMA CrashKeepsCharge ==
    ASSUME ChargeInv, Crash
    PROVE  Balanced' /\ \A u \in Trace : Paying(u)'
<1>1. /\ Balanced /\ (\A u \in Trace : Paying(u)) /\ call \in [Trace -> CallRecord]
  BY DEF ChargeInv, TypeInv, TypeOK
<1>2. \A u \in Trace :
          /\ call'[u].verdict = call[u].verdict
          /\ call'[u].caller = call[u].caller
          /\ call'[u] = call[u] \/ call'[u].step = "failed"
  BY <1>1 DEF Crash, CallRecord
<1>3. rateLog' = rateLog /\ executed' = executed
  BY DEF Crash, governanceVars
<1>4. Balanced'
  BY <1>1, <1>2, <1>3, NoChargeKeepsBalance
<1>5. \A u \in Trace : Paying(u)'
  BY <1>1, <1>2, <1>3 DEF Paying
<1> QED BY <1>4, <1>5

LEMMA ChargeStep == ChargeInv /\ [Next]_vars => ChargeInv'
<1> SUFFICES ASSUME ChargeInv, [Next]_vars PROVE ChargeInv'
  OBVIOUS
<1>1. TypeInv'
  BY TypeStep DEF ChargeInv
<1>2. Balanced' /\ \A u \in Trace : Paying(u)'
  <2>1. CASE \E t \in Trace : Step(t)
    BY <2>1, EnterKeepsCharge, GovernedKeepsCharge, RestKeepsCharge DEF Step
  <2>2. CASE Crash
    BY <2>2, CrashKeepsCharge
  <2>3. CASE UNCHANGED <<call, rateLog, executed>>
    BY <2>3 DEF ChargeInv, Balanced, Paid, Charged, Paying
  <2> QED BY <2>1, <2>2, <2>3 DEF Next, Clock, Tick, vars, governanceVars, callVars
<1> QED BY <1>1, <1>2 DEF ChargeInv

LEMMA ChargeInit == Init => ChargeInv
<1> SUFFICES ASSUME Init PROVE ChargeInv
  OBVIOUS
<1>1. TypeInv
  BY TypeInit
<1>2. \A t \in Trace : Paying(t)
  BY DEF Init, NoCall, Paying
<1>3. \A c \in Caller : Paid(c) = {} /\ Charged(c) = {}
  BY DEF Init, NoCall, GovernanceInit, Paid, Charged
<1>4. Balanced
  <2>1. IsFiniteSet({}) /\ Cardinality({}) <= Cardinality({})
    BY FS_EmptySet
  <2> QED BY <1>3, <2>1 DEF Balanced
<1> QED BY <1>1, <1>2, <1>4 DEF ChargeInv

\* What a submit, a replay or a tool call has executed for a caller was charged to
\* it, whatever the number of threads and crashes (enforce_invariants and its
\* callers); calls of POST /node/result and verifies run beside them uncharged.
THEOREM GovernedRunsCharged == Spec => []GovernedRunsAreCharged
<1>1. ChargeInv => GovernedRunsAreCharged
  <2> SUFFICES ASSUME ChargeInv, NEW c \in Caller
               PROVE  Cardinality(Executed(c)) <= Cardinality(Charged(c))
    BY DEF GovernedRunsAreCharged
  <2> DEFINE E == Executed(c)
  <2>1. E \subseteq Paid(c)
    BY DEF ChargeInv, TypeInv, TypeOK, Paying, Paid, Executed
  <2>2. IsFiniteSet(Paid(c)) /\ Cardinality(Paid(c)) <= Cardinality(Charged(c))
    BY DEF ChargeInv, Balanced
  <2>3. Cardinality(E) <= Cardinality(Paid(c)) /\ IsFiniteSet(E)
    BY <2>1, <2>2, FS_Subset
  <2>4. Cardinality(E) \in Nat /\ Cardinality(Paid(c)) \in Nat
    BY <2>2, <2>3, FS_CardinalityType
  <2>5. Cardinality(Charged(c)) \in Nat
    BY ChargedIsFinite DEF ChargeInv, TypeInv
  <2> QED BY <2>2, <2>3, <2>4, <2>5
<1> QED BY <1>1, ChargeInit, ChargeStep, PTL DEF Spec
-----------------------------------------------------------------------------
(* The bus and its twins *)

\* The event loop runs one call at a time.
Alone == \A u, v \in Trace :
    ~OnThread(u) /\ ~OnThread(v) /\ Running(u) /\ Running(v) => u = v

\* Every twin has its event, and none is that of the event being emitted.
Twinned == \A i \in DOMAIN substrate : \E k \in DOMAIN bus :
    SameEvent(i, k) /\ (Emitting # {} => k < Len(bus))

\* The event being emitted is the last one of the bus.
InTurn == \A u \in Emitting :
    /\ Len(bus) # 0
    /\ bus[Len(bus)] = [channel |-> Head(call[u].todo), trace |-> u]

Drift == Len(bus) <= Len(substrate) + crashes + Cardinality(Emitting)

LogsInv == SequencesArePlaces /\ OrderKept /\ Twinned /\ InTurn /\ Drift
BusInv == BackingInv /\ Alone /\ LogsInv

LEMMA OneCallMoves ==
    ASSUME TypeInv, NEW t \in Trace, Step(t)
    PROVE  \A u \in Trace \ {t} : call'[u] = call[u]
<1>1. TypeOK /\ call \in [Trace -> CallRecord]
  BY DEF TypeInv, TypeOK
<1>2. CASE Enter(t)
  <2>1. Answered(t) \/ \E caller : Enforce(t, caller)
    BY <1>2, EnterCases DEF Enforce
  <2> QED BY <1>1, <2>1, MoveMoves, EnforceIsQuiet DEF Answered
<1>3. CASE Governed(t)
  BY <1>1, <1>3 DEF Governed, Count, AppendCharge
<1>4. CASE Submitted(t) \/ Tooled(t) \/ Resulted(t)
  BY <1>1, <1>4 DEF Submitted, Admit, Execute, WriteReceipt, WriteEvent, OpenResult,
         FillResult, Tooled, Emit, Mirror, Invoke, OpenToolFile, FillToolFile,
         WriteToolReceipt, Generate, Resulted, Ask, LogResult, Move
<1> QED BY <1>2, <1>3, <1>4 DEF Step

\* Whatever is done for a call that came in is done while it runs.
LEMMA OnlyRunningMoves ==
    ASSUME NEW t \in Trace, Governed(t) \/ Submitted(t) \/ Tooled(t) \/ Resulted(t)
    PROVE  Running(t)
  BY DEF Governed, Count, AppendCharge, Submitted, Admit, Execute, WriteReceipt,
         WriteEvent, OpenResult, FillResult, Tooled, Emit, Mirror, Invoke, OpenToolFile,
         FillToolFile, WriteToolReceipt, Generate, Resulted, Ask, LogResult, Running, Ended

LEMMA EnterWhenFree ==
    ASSUME NEW t \in Trace, Enter(t)
    PROVE  MayEnter(t) /\ call[t].step = "idle" /\ UNCHANGED <<eventVars, crashes>>
  BY DEF Enter, Begin, BeginReplay, BeginVerify, BeginResult, Keep

LEMMA CrashEndsCalls ==
    ASSUME TypeInv, Crash
    PROVE  \A u \in Trace : ~Running(u)' /\ (call'[u] = call[u] \/ call'[u].step = "failed")
<1>1. call \in [Trace -> CallRecord]
  BY DEF TypeInv, TypeOK
<1>2. SUFFICES ASSUME NEW u \in Trace
               PROVE  ~Running(u)' /\ (call'[u] = call[u] \/ call'[u].step = "failed")
  OBVIOUS
<1>3. CASE Running(u)
  BY <1>1, <1>3 DEF Crash, CallRecord, Running, Ended
<1>4. CASE ~Running(u)
  BY <1>1, <1>4 DEF Crash, Running
<1> QED BY <1>3, <1>4

LEMMA AloneStep == TypeInv /\ Alone /\ [Next]_vars => Alone'
<1> SUFFICES ASSUME TypeInv, Alone, [Next]_vars PROVE Alone'
  OBVIOUS
<1>1. ASSUME NEW t \in Trace, Step(t) PROVE Alone'
  <2>1. \A u \in Trace \ {t} : Running(u)' <=> Running(u)
    BY <1>1, OneCallMoves DEF Running
  <2>2. CASE Running(t)
    BY <2>1, <2>2 DEF Alone, OnThread
  <2>3. CASE ~Running(t)
    <3>1. MayEnter(t)
      BY <1>1, <2>3, OnlyRunningMoves, EnterWhenFree DEF Step
    <3> QED BY <2>1, <3>1 DEF Alone, OnThread, MayEnter
  <2> QED BY <2>2, <2>3
<1>2. CASE Crash
  BY <1>2, CrashEndsCalls DEF Alone, OnThread
<1>3. CASE UNCHANGED call
  BY <1>3 DEF Alone, OnThread, Running
<1> QED BY <1>1, <1>2, <1>3 DEF Next, Clock, vars, callVars

\* Who writes an event has the event loop.
LEMMA EmitterIsAlone ==
    ASSUME BackingInv, Alone, NEW t \in Trace, call[t].step \in {"emit", "mirror"}
    PROVE  Emitting = IF call[t].step = "mirror" THEN {t} ELSE {}
<1>1. \A u \in Trace : call[u].step \in {"emit", "mirror"} => Running(u) /\ ~OnThread(u)
  BY DEF BackingInv, Backing, ToolStep, Running, Ended, OnThread
<1> QED BY <1>1 DEF Alone, Emitting

LEMMA EmitKeepsLogs ==
    ASSUME BusInv, NEW t \in Trace, Emit(t)
    PROVE  LogsInv'
<1> DEFINE e == [channel |-> Head(call[t].todo), trace |-> t]
           n == Len(bus)
<1>1. /\ TypeInv /\ BackingInv /\ Alone /\ LogsInv /\ call \in [Trace -> CallRecord]
      /\ bus \in Seq(BusEvent) /\ substrate \in Seq(SubstrateEvent)
      /\ crashes \in Nat
  BY DEF BusInv, BackingInv, TypeInv, TypeOK, EventsTypeOK
<1>2. Emitting = {}
  BY <1>1, EmitterIsAlone DEF Emit
<1>3. /\ call' = [call EXCEPT ![t].step = "mirror"] /\ bus' = Append(bus, e)
      /\ UNCHANGED <<substrate, crashes>>
  BY DEF Emit, AppendEvent, Move, Keep
<1>4. Emitting' = {t} /\ call'[t].todo = call[t].todo
  BY <1>1, <1>2, <1>3 DEF Emitting, CallRecord
<1>5. /\ n \in Nat /\ DOMAIN bus = 1..n /\ DOMAIN bus' = 1..(n + 1) /\ Len(bus') = n + 1
      /\ bus'[n + 1] = e /\ \A k \in 1..n : bus'[k] = bus[k]
  <2>1. e \in BusEvent
    <3>1. call[t].todo # <<>> /\ call[t].todo \in Seq(Channel)
      BY <1>1 DEF Emit, TypeInv, HasTodo, CallRecord
    <3> QED BY <3>1 DEF BusEvent
  <2> HIDE DEF e
  <2> QED BY <1>1, <1>3, <2>1
<1> HIDE DEF n
<1>6. Len(substrate) \in Nat
  BY <1>1
<1>7. \A i \in DOMAIN substrate, k \in 1..n : SameEvent(i, k)' <=> SameEvent(i, k)
  BY <1>3, <1>5 DEF SameEvent
<1>8. SequencesArePlaces'
  BY <1>1, <1>3 DEF LogsInv, SequencesArePlaces
<1>9. OrderKept'
  <2>1. SUFFICES ASSUME NEW i \in DOMAIN substrate, NEW j \in DOMAIN substrate, i < j
                 PROVE  \E k, l \in 1..(n + 1) : k < l /\ SameEvent(i, k)' /\ SameEvent(j, l)'
    BY <1>3, <1>5 DEF OrderKept
  <2>2. PICK k \in 1..n, l \in 1..n : k < l /\ SameEvent(i, k) /\ SameEvent(j, l)
    BY <1>1, <1>5, <2>1 DEF LogsInv, OrderKept
  <2>3. k \in 1..(n + 1) /\ l \in 1..(n + 1)
    BY <1>5
  <2> QED BY <1>7, <2>2, <2>3
<1>10. Twinned'
  <2>1. SUFFICES ASSUME NEW i \in DOMAIN substrate
                 PROVE  \E k \in 1..(n + 1) : SameEvent(i, k)' /\ k < n + 1
    BY <1>3, <1>5 DEF Twinned
  <2>2. PICK k \in 1..n : SameEvent(i, k)
    BY <1>1, <1>5 DEF LogsInv, Twinned
  <2>3. k \in 1..(n + 1) /\ k < n + 1
    BY <1>5
  <2> QED BY <1>7, <2>2, <2>3
<1>11. InTurn'
  BY <1>4, <1>5 DEF InTurn
<1>12. Drift'
  <2>1. Cardinality(Emitting) = 0 /\ Cardinality(Emitting') = 1
    BY <1>2, <1>4, FS_EmptySet, FS_Singleton
  <2>2. n <= Len(substrate) + crashes + 0
    BY <1>1, <2>1 DEF LogsInv, Drift, n
  <2>3. n + 1 <= Len(substrate) + crashes + 1
    BY <1>1, <1>5, <1>6, <2>2
  <2> QED BY <1>3, <1>5, <2>1, <2>3 DEF Drift
<1> QED BY <1>8, <1>9, <1>10, <1>11, <1>12 DEF LogsInv

LEMMA MirrorKeepsLogs ==
    ASSUME BusInv, NEW t \in Trace, Mirror(t)
    PROVE  LogsInv'
<1> DEFINE e == Twin(Head(call[t].todo), t)
<1>0. PICK n, m : n = Len(bus) /\ m = Len(substrate)
  OBVIOUS
<1>1. /\ TypeInv /\ BackingInv /\ Alone /\ LogsInv /\ call \in [Trace -> CallRecord]
      /\ bus \in Seq(BusEvent) /\ substrate \in Seq(SubstrateEvent)
      /\ lastEvent \in [Trace -> Nat] /\ crashes \in Nat
  BY DEF BusInv, BackingInv, TypeInv, TypeOK, EventsTypeOK
<1>2. Emitting = {t}
  BY <1>1, EmitterIsAlone DEF Mirror
<1>3. bus' = bus /\ substrate' = Append(substrate, e) /\ crashes' = crashes
  BY DEF Mirror, AppendTwin, Keep
<1>4. Emitting' = {}
  <2>1. call'[t].step # "mirror" /\ \A u \in Trace \ {t} : call'[u] = call[u]
    BY <1>1 DEF Mirror, AfterEvents, CallRecord
  <2> QED BY <1>2, <2>1 DEF Emitting
<1>5. /\ m \in Nat /\ DOMAIN substrate = 1..m /\ DOMAIN substrate' = 1..(m + 1)
      /\ Len(substrate') = m + 1
      /\ substrate'[m + 1] = e /\ \A i \in 1..m : substrate'[i] = substrate[i]
  <2>1. e \in SubstrateEvent
    <3>1. call[t].todo # <<>> /\ call[t].todo \in Seq(Channel)
      BY <1>1 DEF Mirror, TypeInv, HasTodo, CallRecord
    <3>2. Head(call[t].todo) \in Channel /\ Len(substrate) \in Nat
      BY <1>1, <3>1
    <3> QED BY <1>1, <3>2 DEF Twin, SubstrateEvent
  <2> HIDE DEF e
  <2> QED BY <1>0, <1>1, <1>3, <2>1
<1>6. n \in Nat /\ n # 0 /\ DOMAIN bus = 1..n /\ n \in 1..n
      /\ bus[n] = [channel |-> Head(call[t].todo), trace |-> t]
  BY <1>0, <1>1, <1>2 DEF LogsInv, InTurn
<1>7. e.channel = Head(call[t].todo) /\ e.trace = t /\ e.sequence = m + 1
  BY <1>0 DEF Twin
<1> HIDE DEF e
<1>8. SequencesArePlaces'
  BY <1>1, <1>5, <1>7 DEF LogsInv, SequencesArePlaces
<1>9. /\ SameEvent(m + 1, n)'
      /\ \A i \in 1..m, k \in 1..n : SameEvent(i, k)' <=> SameEvent(i, k)
  BY <1>3, <1>5, <1>6, <1>7 DEF SameEvent
<1>10. \A i \in 1..m : \E k \in 1..n : SameEvent(i, k) /\ k < n
  BY <1>0, <1>1, <1>2, <1>5, <1>6 DEF LogsInv, Twinned
<1>11. OrderKept'
  <2>1. SUFFICES ASSUME NEW i \in 1..(m + 1), NEW j \in 1..(m + 1), i < j
                 PROVE  \E k, l \in 1..n : k < l /\ SameEvent(i, k)' /\ SameEvent(j, l)'
    BY <1>3, <1>5, <1>6 DEF OrderKept
  <2>2. i \in 1..m
    BY <1>5, <2>1
  <2>3. CASE j \in 1..m
    BY <1>1, <1>5, <1>6, <1>9, <2>1, <2>2, <2>3 DEF LogsInv, OrderKept
  <2>4. CASE j = m + 1
    BY <1>6, <1>9, <1>10, <2>2, <2>4
  <2> QED BY <1>5, <2>3, <2>4
<1>12. Twinned'
  <2>1. SUFFICES ASSUME NEW i \in 1..(m + 1)
                 PROVE  \E k \in 1..n : SameEvent(i, k)'
    BY <1>3, <1>4, <1>5, <1>6 DEF Twinned
  <2>2. CASE i \in 1..m
    BY <1>9, <1>10, <2>2
  <2>3. CASE i = m + 1
    BY <1>6, <1>9, <2>3
  <2> QED BY <1>5, <2>2, <2>3
<1>13. InTurn'
  BY <1>4 DEF InTurn
<1>14. Drift'
  <2>1. Cardinality(Emitting) = 1 /\ Cardinality(Emitting') = 0
    BY <1>2, <1>4, FS_EmptySet, FS_Singleton
  <2>2. n <= m + crashes + 1
    BY <1>0, <1>1, <2>1 DEF LogsInv, Drift
  <2>3. n <= (m + 1) + crashes + 0
    BY <1>1, <1>5, <1>6, <2>2
  <2> QED BY <1>0, <1>3, <1>5, <2>1, <2>3 DEF Drift
<1> QED BY <1>8, <1>11, <1>12, <1>13, <1>14 DEF LogsInv

\* A step that writes neither log and leaves alone who emits.
LEMMA SilentKeepsLogs ==
    ASSUME LogsInv, UNCHANGED <<bus, substrate, crashes>>,
           \A u \in Trace : \/ call'[u] = call[u]
                            \/ call[u].step # "mirror" /\ call'[u].step # "mirror"
    PROVE  LogsInv'
<1>1. Emitting' = Emitting /\ \A u \in Emitting : call'[u] = call[u]
  BY DEF Emitting
<1> QED BY <1>1 DEF LogsInv, SequencesArePlaces, OrderKept, Twinned, InTurn, Drift, SameEvent

LEMMA CrashKeepsLogs ==
    ASSUME BusInv, Crash
    PROVE  LogsInv'
<1>1. /\ TypeInv /\ BackingInv /\ Alone /\ LogsInv /\ call \in [Trace -> CallRecord]
      /\ Len(bus) \in Nat /\ Len(substrate) \in Nat /\ crashes \in Nat
  BY DEF BusInv, BackingInv, TypeInv, TypeOK, EventsTypeOK
<1>2. Emitting' = {}
  BY <1>1, CrashEndsCalls DEF Emitting, Running, Ended
<1>3. UNCHANGED <<bus, substrate>> /\ crashes' = crashes + 1
  BY DEF Crash, ForgetTraces
<1>4. Cardinality(Emitting) \in {0, 1}
  <2>1. Emitting = {} \/ \E t \in Trace : Emitting = {t}
    BY <1>1, EmitterIsAlone DEF Emitting
  <2> QED BY <2>1, FS_EmptySet, FS_Singleton
<1>5. Drift'
  <2>1. Len(bus) <= Len(substrate) + crashes + Cardinality(Emitting)
    BY <1>1 DEF LogsInv, Drift
  <2>2. Cardinality(Emitting') = 0
    BY <1>2, FS_EmptySet
  <2>3. Len(bus) <= Len(substrate) + (crashes + 1) + 0
    BY <1>1, <1>4, <2>1
  <2> QED BY <1>3, <2>2, <2>3 DEF Drift
<1>6. /\ SequencesArePlaces' /\ OrderKept' /\ InTurn'
  BY <1>1, <1>2, <1>3 DEF LogsInv, SequencesArePlaces, OrderKept, InTurn, SameEvent
<1>7. Twinned'
  BY <1>1, <1>2, <1>3 DEF LogsInv, Twinned, SameEvent
<1> QED BY <1>5, <1>6, <1>7 DEF LogsInv

\* What a step of a call other than an emission does to the logs: nothing.
LEMMA OthersAreSilent ==
    ASSUME TypeInv, NEW t \in Trace, Step(t), ~Emit(t), ~Mirror(t)
    PROVE  /\ UNCHANGED <<eventVars, crashes>>
           /\ call[t].step # "mirror" /\ call'[t].step # "mirror"
<1>1. TypeOK /\ call \in [Trace -> CallRecord]
  BY DEF TypeInv, TypeOK
<1>2. CASE Enter(t)
  <2>1. /\ UNCHANGED <<eventVars, crashes>> /\ call[t].step = "idle"
        /\ Answered(t) \/ \E caller : Enforce(t, caller)
    BY <1>2, EnterCases, EnterWhenFree DEF Enforce
  <2> QED BY <1>1, <2>1, MoveMoves, EnforceIsQuiet DEF Quiet, Answered
<1>3. CASE Count(t)
  BY <1>1, <1>3 DEF Count, Keep, CallRecord
<1>4. CASE AppendCharge(t)
  <2> DEFINE step == CASE KindOf[t] = "verify" -> "generate"
                       [] KindOf[t] = "tool" -> "emit"
                       [] OTHER -> IF call[t].verdict = "free" THEN "admit" ELSE "vetoed"
  <2>1. step # "mirror"
    OBVIOUS
  <2>2. call'[t].step = step
    BY <1>1, <1>4 DEF AppendCharge, CallRecord
  <2> QED BY <1>4, <2>1, <2>2 DEF AppendCharge
<1>5. CASE Submitted(t)
  BY <1>1, <1>5 DEF Submitted, Admit, Execute, WriteReceipt, WriteEvent, OpenResult,
         FillResult, Move, Keep, CallRecord
<1>6. CASE Tooled(t)
  BY <1>1, <1>6 DEF Tooled, Invoke, OpenToolFile, FillToolFile, WriteToolReceipt,
         Generate, Move, Keep, CallRecord
<1>7. CASE Resulted(t)
  BY <1>1, <1>7 DEF Resulted, Ask, LogResult, Move, Keep, CallRecord
<1> QED BY <1>2, <1>3, <1>4, <1>5, <1>6, <1>7 DEF Step, Governed

LEMMA BusStep == BusInv /\ [Next]_vars => BusInv'
<1> SUFFICES ASSUME BusInv, [Next]_vars PROVE BusInv'
  OBVIOUS
<1>1. BackingInv' /\ Alone' /\ TypeInv
  BY BackingStep, AloneStep DEF BusInv, BackingInv
<1>2. ASSUME NEW t \in Trace, Step(t) PROVE LogsInv'
  <2>1. CASE Emit(t) \/ Mirror(t)
    BY <2>1, EmitKeepsLogs, MirrorKeepsLogs
  <2>2. CASE ~Emit(t) /\ ~Mirror(t)
    BY <1>1, <1>2, <2>2, OthersAreSilent, OneCallMoves, SilentKeepsLogs
       DEF BusInv, eventVars
  <2> QED BY <2>1, <2>2
<1>3. ASSUME Crash PROVE LogsInv'
  BY <1>3, CrashKeepsLogs
<1>4. ASSUME UNCHANGED <<bus, substrate, crashes, call>> PROVE LogsInv'
  BY <1>4, SilentKeepsLogs DEF BusInv
<1>5. LogsInv'
  BY <1>2, <1>3, <1>4 DEF Next, Clock, vars, callVars, eventVars
<1> QED BY <1>1, <1>5 DEF BusInv

LEMMA BusInvariant == Spec => []BusInv
<1>1. Init => BusInv
  <2> SUFFICES ASSUME Init PROVE BusInv
    OBVIOUS
  <2>1. BackingInv
    BY TypeInit DEF Init, NoCall, BackingInv, Backing, ToolStep, SubmittedStep
  <2>2. /\ bus = <<>> /\ substrate = <<>> /\ crashes = 0
        /\ \A t \in Trace : call[t].step = "idle"
    BY DEF Init, EventsInit, NoCall
  <2>3. Alone /\ Emitting = {}
    BY <2>2 DEF Alone, Running, Emitting
  <2>4. Drift
    BY <2>2, <2>3, FS_EmptySet DEF Drift
  <2>5. SequencesArePlaces /\ OrderKept /\ Twinned /\ InTurn
    BY <2>2, <2>3 DEF SequencesArePlaces, OrderKept, Twinned, InTurn
  <2> QED BY <2>1, <2>3, <2>4, <2>5 DEF BusInv, LogsInv
<1> QED BY <1>1, BusStep, PTL DEF Spec

\* However the process ends, every event of the bus has its twin in the substrate
\* log but for the one being emitted and one per crash, and the twins come in the
\* order of the bus, numbered without a gap (event_bus.emit,
\* append_substrate_event).
THEOREM TwinsFollowTheBus == Spec => []EventsMirrored
<1>1. BusInv => EventsMirrored
  BY DEF BusInv, LogsInv, Drift, EventsMirrored
<1> QED BY <1>1, BusInvariant, PTL
-----------------------------------------------------------------------------
(* The evidence of a tool call *)

Receipt(t) == HasEntry(t, "toolReceipt")

\* What is remembered of a trace is an event of that trace.
LastEvents == \A t \in Trace : lastEvent[t] # 0 =>
    lastEvent[t] \in DOMAIN substrate /\ substrate[lastEvent[t]].trace = t

\* The tool was announced, in the life of this process, and has left its receipt.
Receipted(t) == Receipt(t) /\ lastEvent[t] # 0 /\ Mirrored(t, "invoked")

\* What a call that emits has still to emit tells how far it got.
Pending(t) ==
    \/ call[t].todo = <<"invoked">> /\ ~Receipt(t)
    \/ call[t].todo = <<"blocked">>
    \/ /\ \/ call[t].todo = <<"patched", "completed", "verified">>
          \/ call[t].todo = <<"completed", "verified">>
       /\ Receipted(t)
    \/ /\ call[t].todo = <<"verified">>
       /\ Receipted(t) /\ Mirrored(t, "completed")

InTool == {"invoke", "openTool", "fillTool", "toolReceipt"}

\* What there is of a call by the time it is at its step.
Evidence(t) ==
    /\ call[t].step \in SubmittedStep \cup {"admit", "generate", "ask", "log"} =>
           KindOf[t] # "tool"
    /\ call[t].step \in {"idle", "enforce", "charge"} \cup InTool => ~Receipt(t)
    /\ call[t].step \in InTool => lastEvent[t] # 0 /\ Mirrored(t, "invoked")
    /\ call[t].step = "toolReceipt" => toolFiles[t] = "whole"
    /\ call[t].step \in {"emit", "mirror"} => Pending(t)
    /\ Receipt(t) => toolFiles[t] = "whole"
    /\ Mirrored(t, "completed") => Receipt(t)
    /\ KindOf[t] = "tool" /\ call[t].step = "done" =>
           Mirrored(t, "invoked") /\ Mirrored(t, "completed") /\ Mirrored(t, "verified")
    /\ KindOf[t] = "tool" /\ call[t].step = "vetoed" => Mirrored(t, "blocked")

EvidenceInv == BackingInv /\ RefersBack /\ LastEvents /\ \A t \in Trace : Evidence(t)

LEMMA LogAddsOne ==
    ASSUME TypeOK, NEW t \in Trace, NEW kind \in EntryKinds, Log(t, kind)
    PROVE  \A u \in Trace, k \in EntryKinds :
               HasEntry(u, k)' <=> HasEntry(u, k) \/ (u = t /\ k = kind)
<1> DEFINE e == [kind |-> kind, trace |-> t, caller |-> call[t].caller]
<1>1. continuity \in Seq(Entry) /\ e \in Entry /\ Len(continuity) \in Nat
  BY DEF TypeOK, CallRecord, Entry
<1>2. continuity' = Append(continuity, e) /\ e.kind = kind /\ e.trace = t
  BY DEF Log
<1> HIDE DEF e
<1>3. PICK n \in Nat :
          /\ n = Len(continuity)
          /\ DOMAIN continuity = 1..n /\ DOMAIN continuity' = 1..(n + 1)
          /\ \A i \in 1..n : continuity'[i] = continuity[i]
          /\ continuity'[n + 1] = e
  BY <1>1, <1>2
<1>4. 1..(n + 1) = 1..n \cup {n + 1}
  OBVIOUS
<1> QED BY <1>2, <1>3, <1>4 DEF HasEntry

LEMMA TwinAddsOne ==
    ASSUME TypeOK, NEW t \in Trace, NEW ch \in Channel, AppendTwin(ch, t)
    PROVE  /\ \A u \in Trace, c \in Channel :
                  Mirrored(u, c)' <=> Mirrored(u, c) \/ (u = t /\ c = ch)
           /\ lastEvent'[t] # 0
           /\ \A u \in Trace \ {t} : lastEvent'[u] = lastEvent[u]
           /\ LastEvents => LastEvents'
           /\ /\ RefersBack /\ LastEvents
              /\ ch \in {"completed", "verified"} => lastEvent[t] # 0
              => RefersBack'
<1> DEFINE e == Twin(ch, t)
<1>1. /\ substrate \in Seq(SubstrateEvent) /\ lastEvent \in [Trace -> Nat]
      /\ Len(substrate) \in Nat
  BY DEF TypeOK, EventsTypeOK
<1>2. /\ e \in SubstrateEvent /\ e.channel = ch /\ e.trace = t
      /\ e.refers = IF ch \in Referring THEN lastEvent[t] ELSE 0
  BY <1>1 DEF Twin, SubstrateEvent
<1>3. substrate' = Append(substrate, e)
      /\ lastEvent' = [lastEvent EXCEPT ![t] = Len(substrate) + 1]
  BY DEF AppendTwin
<1> HIDE DEF e
<1>4. PICK n \in Nat :
          /\ n = Len(substrate)
          /\ DOMAIN substrate = 1..n /\ DOMAIN substrate' = 1..(n + 1)
          /\ \A i \in 1..n : substrate'[i] = substrate[i]
          /\ substrate'[n + 1] = e
  BY <1>1, <1>2, <1>3
<1>5. 1..(n + 1) = 1..n \cup {n + 1} /\ n + 1 # 0
  OBVIOUS
<1>6. lastEvent'[t] = n + 1 /\ \A u \in Trace \ {t} : lastEvent'[u] = lastEvent[u]
  BY <1>1, <1>3, <1>4
<1>7. \A u \in Trace, c \in Channel :
          Mirrored(u, c)' <=> Mirrored(u, c) \/ (u = t /\ c = ch)
  BY <1>2, <1>4, <1>5 DEF Mirrored
<1>8. ASSUME LastEvents PROVE LastEvents'
  <2>1. SUFFICES ASSUME NEW u \in Trace, lastEvent'[u] # 0
                 PROVE  lastEvent'[u] \in 1..(n + 1) /\ substrate'[lastEvent'[u]].trace = u
    BY <1>4 DEF LastEvents
  <2>2. CASE u = t
    BY <1>2, <1>4, <1>5, <1>6, <2>2
  <2>3. CASE u # t
    BY <1>4, <1>5, <1>6, <1>8, <2>1, <2>3 DEF LastEvents
  <2> QED BY <2>2, <2>3
<1>9. ASSUME RefersBack, LastEvents,
             ch \in {"completed", "verified"} => lastEvent[t] # 0
      PROVE  RefersBack'
  <2>1. SUFFICES ASSUME NEW i \in 1..(n + 1)
                 PROVE  /\ substrate'[i].channel \in {"completed", "verified"} =>
                               substrate'[i].refers # 0
                        /\ substrate'[i].refers # 0 =>
                               /\ substrate'[i].refers < i
                               /\ substrate'[substrate'[i].refers].trace = substrate'[i].trace
    BY <1>4 DEF RefersBack
  <2>2. CASE i \in 1..n
    <3>0. substrate[i] \in SubstrateEvent
      BY <1>1, <1>4, <2>2
    <3>1. substrate'[i] = substrate[i] /\ substrate[i].refers \in Nat
      BY <1>4, <2>2, <3>0 DEF SubstrateEvent
    <3>2. /\ substrate[i].channel \in {"completed", "verified"} => substrate[i].refers # 0
          /\ substrate[i].refers # 0 =>
                 /\ substrate[i].refers < i
                 /\ substrate[substrate[i].refers].trace = substrate[i].trace
      BY <1>4, <1>9, <2>2 DEF RefersBack
    <3>3. substrate[i].refers # 0 => substrate[i].refers \in 1..n
      BY <2>2, <3>1, <3>2
    <3> QED BY <1>4, <3>1, <3>2, <3>3
  <2>3. CASE i = n + 1
    <3>1. substrate'[i] = e /\ e.refers = (IF ch \in Referring THEN lastEvent[t] ELSE 0)
      BY <1>2, <1>4, <2>3
    <3>2. lastEvent[t] # 0 => lastEvent[t] \in 1..n /\ substrate[lastEvent[t]].trace = t
      BY <1>4, <1>9 DEF LastEvents
    <3>3. ch \in {"completed", "verified"} => ch \in Referring
      BY DEF Referring
    <3> QED BY <1>2, <1>4, <1>9, <2>3, <3>1, <3>2, <3>3
  <2> QED BY <1>5, <2>2, <2>3
<1> QED BY <1>5, <1>6, <1>7, <1>8, <1>9

\* A call nobody touches has what it had.
LEMMA OthersKeepEvidence ==
    ASSUME NEW u \in Trace, Evidence(u), call'[u] = call[u], toolFiles'[u] = toolFiles[u],
           lastEvent'[u] = lastEvent[u], Receipt(u)' <=> Receipt(u),
           \A c \in Channel : Mirrored(u, c)' <=> Mirrored(u, c)
    PROVE  Evidence(u)'
<1>1. \A c \in {"invoked", "completed", "verified", "blocked"} :
          Mirrored(u, c)' <=> Mirrored(u, c)
  BY DEF Channel
<1>2. Pending(u) => Pending(u)'
  BY <1>1 DEF Pending, Receipted
<1> QED BY <1>1, <1>2 DEF Evidence

\* A step of a call leaves the files, the entries and the twins of the others.
LEMMA StepIsLocal ==
    ASSUME EvidenceInv, NEW t \in Trace, Step(t)
    PROVE  \A u \in Trace \ {t} :
               /\ call'[u] = call[u] /\ toolFiles'[u] = toolFiles[u]
               /\ lastEvent'[u] = lastEvent[u]
               /\ Receipt(u)' <=> Receipt(u)
               /\ \A c \in Channel : Mirrored(u, c)' <=> Mirrored(u, c)
<1>1. /\ TypeInv /\ TypeOK /\ HasTodo /\ call \in [Trace -> CallRecord]
      /\ toolFiles \in [Trace -> FileStates]
  BY DEF EvidenceInv, BackingInv, TypeInv, TypeOK
<1>2. \A u \in Trace \ {t} : call'[u] = call[u]
  BY <1>1, OneCallMoves
<1>3. \A u \in Trace \ {t} : toolFiles'[u] = toolFiles[u]
  BY <1>1 DEF Step, Enter, Begin, BeginReplay, BeginVerify, BeginResult,
         Governed, Count, AppendCharge,
         Submitted, Admit, Execute, WriteReceipt, WriteEvent, OpenResult, FillResult,
         Tooled, Emit, Mirror, Invoke, OpenToolFile, FillToolFile, WriteToolReceipt,
         Generate, Resulted, Ask, LogResult, Keep
<1>4. \/ UNCHANGED continuity
      \/ \E kind \in EntryKinds : Log(t, kind)
  BY DEF Step, Enter, Begin, BeginReplay, BeginVerify, BeginResult,
         Governed, Count, AppendCharge,
         Submitted, Admit, Execute, WriteReceipt, WriteEvent, OpenResult, FillResult,
         Tooled, Emit, Mirror, Invoke, OpenToolFile, FillToolFile, WriteToolReceipt,
         Generate, Resulted, Ask, LogResult, Keep, EntryKinds
<1>5. \A u \in Trace \ {t} : Receipt(u)' <=> Receipt(u)
  <2>1. CASE UNCHANGED continuity
    BY <2>1 DEF Receipt, HasEntry
  <2>2. CASE \E kind \in EntryKinds : Log(t, kind)
    BY <1>1, <2>2, LogAddsOne DEF Receipt, EntryKinds
  <2> QED BY <1>4, <2>1, <2>2
<1>6. \A u \in Trace \ {t} : /\ lastEvent'[u] = lastEvent[u]
                             /\ \A c \in Channel : Mirrored(u, c)' <=> Mirrored(u, c)
  <2>1. CASE Mirror(t)
    <3>1. Head(call[t].todo) \in Channel /\ AppendTwin(Head(call[t].todo), t)
      BY <1>1, <2>1 DEF Mirror, HasTodo, CallRecord
    <3> QED BY <1>1, <3>1, TwinAddsOne
  <2>2. CASE Emit(t)
    BY <2>2 DEF Emit, AppendEvent, Mirrored
  <2>3. CASE ~Emit(t) /\ ~Mirror(t)
    BY <1>1, <2>3, OthersAreSilent DEF eventVars, Mirrored
  <2> QED BY <2>1, <2>2, <2>3
<1> QED BY <1>2, <1>3, <1>5, <1>6

\* Nothing but an announced call reaches the tool: a refused one has only its
\* refusal to emit.
LEMMA GovernedEvidence ==
    ASSUME EvidenceInv, NEW t \in Trace, Enter(t) \/ Governed(t)
    PROVE  Evidence(t)' /\ UNCHANGED <<continuity, toolFiles, eventVars>>
<1>1. /\ TypeOK /\ Evidence(t) /\ call \in [Trace -> CallRecord]
  BY DEF EvidenceInv, BackingInv, TypeInv, TypeOK
<1>2. /\ UNCHANGED <<continuity, toolFiles, eventVars>>
      /\ call[t].step \in {"idle", "enforce", "charge"}
  BY DEF Enter, Begin, BeginReplay, BeginVerify, BeginResult, Governed, Count,
         AppendCharge, Keep
<1>3. ~Receipt(t)
  BY <1>1, <1>2 DEF Evidence
<1>4. /\ call'[t].step \in {"unknown", "missing", "failed", "enforce", "charge", "admit",
                            "generate", "vetoed", "emit", "done", "ask"}
      /\ call'[t].step \in {"admit", "generate", "vetoed", "done", "ask"} =>
             KindOf[t] # "tool"
      /\ call'[t].step = "emit" => call'[t].todo \in {<<"blocked">>, <<"invoked">>}
  <2>1. CASE Answered(t)
    BY <1>1, <2>1, MoveMoves DEF Answered
  <2>2. CASE \E caller : TakeTime(t, caller)
    BY <1>1, <2>2 DEF TakeTime, CallRecord
  <2>3. CASE \E caller : Refuse(t, caller)
    <3> DEFINE step == CASE KindOf[t] = "tool" -> "emit"
                         [] KindOf[t] = "verify" -> "generate"
                         [] OTHER -> "vetoed"
               todo == IF KindOf[t] = "tool" THEN <<"blocked">> ELSE <<>>
    <3>1. /\ step \in {"emit", "generate", "vetoed"}
          /\ step # "emit" => KindOf[t] # "tool"
          /\ step = "emit" => todo = <<"blocked">>
      OBVIOUS
    <3>2. call'[t].step = step /\ call'[t].todo = todo
      BY <1>1, <2>3 DEF Refuse, CallRecord
    <3> QED BY <3>1, <3>2
  <2>4. CASE Count(t)
    BY <1>1, <2>4 DEF Count, CallRecord
  <2>5. CASE AppendCharge(t)
    <3> DEFINE allowed == call[t].verdict = "free"
               step == CASE KindOf[t] = "verify" -> "generate"
                         [] KindOf[t] = "tool" -> "emit"
                         [] OTHER -> IF allowed THEN "admit" ELSE "vetoed"
               todo == IF KindOf[t] = "tool"
                       THEN IF allowed THEN <<"invoked">> ELSE <<"blocked">> ELSE <<>>
    <3>1. /\ step \in {"emit", "generate", "vetoed", "admit"}
          /\ step # "emit" => KindOf[t] # "tool"
          /\ step = "emit" => todo \in {<<"blocked">>, <<"invoked">>}
      OBVIOUS
    <3>2. call'[t].step = step /\ call'[t].todo = todo
      BY <1>1, <2>5 DEF AppendCharge, CallRecord
    <3> QED BY <3>1, <3>2
  <2>6. \/ Answered(t) \/ \E caller : Refuse(t, caller) \/ TakeTime(t, caller)
        \/ Count(t) \/ AppendCharge(t)
    BY EnterCases DEF Governed
  <2> QED BY <2>1, <2>2, <2>3, <2>4, <2>5, <2>6
<1>5. Receipt(t)' <=> Receipt(t)
  BY <1>2 DEF Receipt, HasEntry
<1>6. Mirrored(t, "completed")' <=> Mirrored(t, "completed")
  BY <1>2 DEF eventVars, Mirrored
<1>7. call'[t].step = "emit" => Pending(t)'
  BY <1>3, <1>4, <1>5 DEF Pending
<1> QED BY <1>1, <1>2, <1>3, <1>4, <1>5, <1>6, <1>7 DEF Evidence, SubmittedStep, InTool

\* A submit or a replay has no part in the evidence of tools.
LEMMA SubmittedEvidence ==
    ASSUME EvidenceInv, NEW t \in Trace, Submitted(t)
    PROVE  Evidence(t)' /\ UNCHANGED eventVars
<1>1. /\ TypeOK /\ Evidence(t) /\ call \in [Trace -> CallRecord]
  BY DEF EvidenceInv, BackingInv, TypeInv, TypeOK
<1>2. /\ UNCHANGED <<toolFiles, eventVars>>
      /\ call[t].step \in SubmittedStep \cup {"admit"}
      /\ call'[t].step \in SubmittedStep \cup {"done", "failed"}
  BY <1>1, MoveMoves DEF Submitted, Admit, Execute, WriteReceipt, WriteEvent, OpenResult,
         FillResult, Keep, SubmittedStep, CallRecord
<1>3. KindOf[t] # "tool"
  BY <1>1, <1>2 DEF Evidence
<1>4. Receipt(t)' <=> Receipt(t)
  <2>1. UNCHANGED continuity \/ \E kind \in EntryKinds \ {"toolReceipt"} : Log(t, kind)
    BY DEF Submitted, Admit, Execute, WriteReceipt, WriteEvent, OpenResult,
           FillResult, Keep, EntryKinds
  <2>2. CASE UNCHANGED continuity
    BY <2>2 DEF Receipt, HasEntry
  <2>3. CASE \E kind \in EntryKinds \ {"toolReceipt"} : Log(t, kind)
    BY <1>1, <2>3, LogAddsOne DEF Receipt, EntryKinds
  <2> QED BY <2>1, <2>2, <2>3
<1>5. Mirrored(t, "completed")' <=> Mirrored(t, "completed")
  BY <1>2 DEF eventVars, Mirrored
<1> QED BY <1>1, <1>2, <1>3, <1>4, <1>5 DEF Evidence, SubmittedStep, InTool

\* Nor has a call of no governance.
LEMMA ResultedEvidence ==
    ASSUME EvidenceInv, NEW t \in Trace, Resulted(t)
    PROVE  Evidence(t)' /\ UNCHANGED eventVars
<1>1. /\ TypeOK /\ Evidence(t) /\ call \in [Trace -> CallRecord]
  BY DEF EvidenceInv, BackingInv, TypeInv, TypeOK
<1>2. /\ UNCHANGED <<toolFiles, eventVars>>
      /\ call[t].step \in {"ask", "log"} /\ call'[t].step \in {"log", "done", "failed"}
      /\ UNCHANGED continuity \/ Log(t, "result")
  BY <1>1, MoveMoves DEF Resulted, Ask, LogResult, Keep
<1>3. KindOf[t] # "tool"
  BY <1>1, <1>2 DEF Evidence
<1>4. Receipt(t)' <=> Receipt(t)
  <2>1. CASE UNCHANGED continuity
    BY <2>1 DEF Receipt, HasEntry
  <2>2. CASE Log(t, "result")
    BY <1>1, <2>2, LogAddsOne DEF Receipt, EntryKinds
  <2> QED BY <1>2, <2>1, <2>2
<1>5. Mirrored(t, "completed")' <=> Mirrored(t, "completed")
  BY <1>2 DEF eventVars, Mirrored
<1> QED BY <1>1, <1>2, <1>3, <1>4, <1>5 DEF Evidence, SubmittedStep, InTool

\* An emission that is over: what it was tells what there is of the call.
LEMMA MirrorEvidence ==
    ASSUME EvidenceInv, NEW t \in Trace, Mirror(t)
    PROVE  Evidence(t)' /\ RefersBack' /\ LastEvents'
<1> DEFINE todo == call[t].todo
<1>1. /\ TypeOK /\ Evidence(t) /\ Backing(t) /\ call \in [Trace -> CallRecord]
      /\ LastEvents /\ RefersBack /\ todo \in Seq(Channel) /\ todo # <<>>
  BY DEF EvidenceInv, BackingInv, TypeInv, TypeOK, HasTodo, CallRecord, Mirror
<1>2. Pending(t)
  BY <1>1 DEF Evidence, Mirror
<1>3. /\ UNCHANGED <<continuity, toolFiles>> /\ AppendTwin(Head(todo), t)
      /\ Head(todo) \in Channel /\ call[t].step = "mirror"
  BY <1>1 DEF Mirror, Keep
<1>4. /\ call'[t].todo = Tail(todo)
      /\ call'[t].step = IF Len(todo) > 1 THEN "emit" ELSE AfterEvents(Head(todo))
  BY <1>1 DEF Mirror, CallRecord
<1>5. /\ Receipt(t)' <=> Receipt(t)
      /\ lastEvent'[t] # 0
      /\ \A c \in Channel : Mirrored(t, c)' <=> Mirrored(t, c) \/ c = Head(todo)
      /\ LastEvents'
  BY <1>1, <1>3, TwinAddsOne DEF Receipt, HasEntry
<1>6. RefersBack'
  <2>1. Head(todo) \in {"completed", "verified"} => lastEvent[t] # 0
    BY <1>2 DEF Pending, Receipted
  <2> QED BY <1>1, <1>3, <2>1, TwinAddsOne
<1>7. /\ Receipt(t) => toolFiles'[t] = "whole"
      /\ Mirrored(t, "completed") => Receipt(t)
  BY <1>1, <1>3 DEF Evidence
<1>8. \A c \in {"invoked", "completed", "verified", "blocked"} :
          Mirrored(t, c)' <=> Mirrored(t, c) \/ c = Head(todo)
  BY <1>5 DEF Channel
<1>9. CASE todo = <<"invoked">> /\ ~Receipt(t)
  <2>1. Head(todo) = "invoked" /\ call'[t].step = "invoke"
    BY <1>4, <1>9 DEF AfterEvents
  <2> QED BY <1>5, <1>6, <1>7, <1>8, <1>9, <2>1 DEF Evidence, SubmittedStep, InTool
<1>10. CASE todo = <<"blocked">>
  <2>1. Head(todo) = "blocked" /\ call'[t].step = "vetoed"
    BY <1>4, <1>10 DEF AfterEvents
  <2> QED BY <1>5, <1>6, <1>7, <1>8, <2>1 DEF Evidence, SubmittedStep, InTool
<1>11. CASE todo = <<"patched", "completed", "verified">> /\ Receipted(t)
  <2>1. /\ Head(todo) = "patched" /\ call'[t].step = "emit"
        /\ call'[t].todo = <<"completed", "verified">>
    BY <1>4, <1>11
  <2>2. Pending(t)'
    BY <1>5, <1>8, <1>11, <2>1 DEF Pending, Receipted
  <2> QED BY <1>5, <1>6, <1>7, <1>8, <1>11, <2>1, <2>2
      DEF Evidence, SubmittedStep, InTool, Receipted
<1>12. CASE todo = <<"completed", "verified">> /\ Receipted(t)
  <2>1. /\ Head(todo) = "completed" /\ call'[t].step = "emit"
        /\ call'[t].todo = <<"verified">>
    BY <1>4, <1>12
  <2>2. Pending(t)'
    BY <1>5, <1>8, <1>12, <2>1 DEF Pending, Receipted
  <2> QED BY <1>5, <1>6, <1>7, <1>8, <1>12, <2>1, <2>2
      DEF Evidence, SubmittedStep, InTool, Receipted
<1>13. CASE todo = <<"verified">> /\ Receipted(t) /\ Mirrored(t, "completed")
  <2>1. Head(todo) = "verified" /\ call'[t].step = "done"
    BY <1>4, <1>13 DEF AfterEvents
  <2> QED BY <1>5, <1>6, <1>7, <1>8, <1>13, <2>1
      DEF Evidence, SubmittedStep, InTool, Receipted
<1> QED BY <1>2, <1>9, <1>10, <1>11, <1>12, <1>13 DEF Pending

\* The steps of a tool call between two emissions.
LEMMA ToolEvidenceSteps ==
    ASSUME EvidenceInv, NEW t \in Trace, Tooled(t), ~Mirror(t)
    PROVE  Evidence(t)' /\ UNCHANGED <<substrate, lastEvent>>
<1>1. /\ TypeOK /\ Evidence(t) /\ Backing(t) /\ call \in [Trace -> CallRecord]
      /\ toolFiles \in [Trace -> FileStates]
  BY DEF EvidenceInv, BackingInv, TypeInv, TypeOK
<1>2. UNCHANGED <<substrate, lastEvent>>
  BY DEF Tooled, Emit, Invoke, OpenToolFile, FillToolFile, WriteToolReceipt, Generate,
         AppendEvent, Keep, eventVars
<1>3. \A c : Mirrored(t, c)' <=> Mirrored(t, c)
  BY <1>2 DEF Mirrored
<1>4. UNCHANGED continuity => (Receipt(t)' <=> Receipt(t))
  BY DEF Receipt, HasEntry
<1>5. CASE Emit(t)
  <2>1. /\ call[t].step = "emit" /\ call'[t].step = "mirror" /\ call'[t].todo = call[t].todo
        /\ UNCHANGED <<continuity, toolFiles>>
    BY <1>1, <1>5 DEF Emit, Move, Keep, CallRecord
  <2>2. Pending(t)'
    BY <1>1, <1>2, <1>3, <1>4, <2>1 DEF Evidence, Pending, Receipted
  <2> QED BY <1>1, <1>2, <1>3, <1>4, <2>1, <2>2 DEF Evidence, SubmittedStep, InTool
<1>6. CASE Invoke(t)
  <2>1. /\ call[t].step = "invoke" /\ UNCHANGED <<continuity, toolFiles>>
        /\ \/ call'[t].step \in {"openTool", "failed"}
           \/ call'[t].step = "emit" /\ call'[t].todo = <<"blocked">>
    BY <1>1, <1>6 DEF Invoke, Move, Keep, CallRecord
  <2>2. call'[t].step = "emit" => Pending(t)'
    BY <2>1 DEF Pending
  <2> QED BY <1>1, <1>2, <1>3, <1>4, <2>1, <2>2 DEF Evidence, SubmittedStep, InTool
<1>7. CASE OpenToolFile(t)
  <2>1. /\ call[t].step = "openTool" /\ call'[t].step = "fillTool" /\ UNCHANGED continuity
    BY <1>1, <1>7, MoveMoves DEF OpenToolFile, Keep
  <2>2. ~Receipt(t)
    BY <1>1, <2>1 DEF Evidence, InTool
  <2> QED BY <1>1, <1>2, <1>3, <1>4, <2>1, <2>2 DEF Evidence, SubmittedStep, InTool
<1>8. CASE FillToolFile(t)
  <2>1. /\ call[t].step = "fillTool" /\ call'[t].step = "toolReceipt" /\ UNCHANGED continuity
        /\ toolFiles'[t] = "whole"
    BY <1>1, <1>8, MoveMoves DEF FillToolFile, Keep
  <2> QED BY <1>1, <1>2, <1>3, <1>4, <2>1 DEF Evidence, SubmittedStep, InTool
<1>9. CASE WriteToolReceipt(t)
  <2>1. PICK patch \in {<<>>, <<"patched">>} :
            call'[t].todo = patch \o <<"completed", "verified">>
    BY <1>1, <1>9 DEF WriteToolReceipt, CallRecord
  <2>2. /\ call[t].step = "toolReceipt" /\ call'[t].step = "emit"
        /\ toolFiles' = toolFiles /\ Log(t, "toolReceipt")
    BY <1>1, <1>9 DEF WriteToolReceipt, Keep, CallRecord
  <2>3. \/ call'[t].todo = <<"patched", "completed", "verified">>
        \/ call'[t].todo = <<"completed", "verified">>
    <3>1. <<>> \o <<"completed", "verified">> = <<"completed", "verified">>
      OBVIOUS
    <3>2. <<"patched">> \o <<"completed", "verified">> = <<"patched", "completed", "verified">>
      <4> DEFINE q == <<"patched">> \o <<"completed", "verified">>
                 r == <<"patched", "completed", "verified">>
      <4>1. q \in Seq(Channel) /\ r \in Seq(Channel)
        BY DEF Channel
      <4>2. Len(q) = 3 /\ q[1] = "patched" /\ q[2] = "completed" /\ q[3] = "verified"
        OBVIOUS
      <4>3. Len(r) = 3 /\ r[1] = "patched" /\ r[2] = "completed" /\ r[3] = "verified"
        OBVIOUS
      <4> HIDE DEF q, r
      <4>4. \A i \in 1..3 : q[i] = r[i]
        BY <4>2, <4>3
      <4> QED BY <4>1, <4>2, <4>3, <4>4, SeqEqual DEF q, r
    <3> QED BY <2>1, <3>1, <3>2
  <2>4. Receipt(t)'
    BY <1>1, <2>2, LogAddsOne DEF Receipt, EntryKinds
  <2>5. /\ lastEvent[t] # 0 /\ Mirrored(t, "invoked") /\ toolFiles[t] = "whole"
    BY <1>1, <2>2 DEF Evidence, InTool
  <2>6. Pending(t)'
    BY <1>2, <1>3, <2>3, <2>4, <2>5 DEF Pending, Receipted
  <2>7. toolFiles'[t] = "whole"
    BY <2>2, <2>5
  <2> QED BY <1>2, <2>2, <2>4, <2>6, <2>7 DEF Evidence, SubmittedStep, InTool
<1>10. CASE Generate(t)
  <2>1. /\ call[t].step = "generate" /\ call'[t].step = "done"
        /\ UNCHANGED <<continuity, toolFiles>>
    BY <1>1, <1>10, MoveMoves DEF Generate, Keep
  <2>2. KindOf[t] # "tool"
    BY <1>1, <2>1 DEF Evidence
  <2>3. /\ Receipt(t)' => toolFiles'[t] = "whole"
        /\ Mirrored(t, "completed")' => Receipt(t)'
    BY <1>1, <1>3, <1>4, <2>1 DEF Evidence
  <2> QED BY <1>2, <2>1, <2>2, <2>3 DEF Evidence, SubmittedStep, InTool
<1> QED BY <1>2, <1>5, <1>6, <1>7, <1>8, <1>9, <1>10 DEF Tooled

\* A restarted process remembers no trace, and no call goes on.
LEMMA CrashEvidence ==
    ASSUME EvidenceInv, Crash
    PROVE  RefersBack' /\ LastEvents' /\ \A u \in Trace : Evidence(u)'
<1>1. /\ TypeInv /\ RefersBack /\ \A u \in Trace : Evidence(u)
  BY DEF EvidenceInv, BackingInv
<1>2. /\ UNCHANGED <<substrate, continuity, toolFiles>> /\ \A u \in Trace : lastEvent'[u] = 0
  BY DEF Crash, ForgetTraces
<1>3. RefersBack' /\ LastEvents'
  BY <1>1, <1>2 DEF RefersBack, LastEvents
<1>4. ASSUME NEW u \in Trace PROVE Evidence(u)'
  <2>1. /\ Receipt(u)' <=> Receipt(u)
        /\ \A c : Mirrored(u, c)' <=> Mirrored(u, c)
    BY <1>2 DEF Receipt, HasEntry, Mirrored
  <2>2. /\ call'[u].step \in Ended \cup {"idle"}
        /\ call'[u] = call[u] \/ call'[u].step = "failed"
    BY <1>1, CrashEndsCalls DEF Running
  <2> QED BY <1>1, <1>2, <2>1, <2>2 DEF Evidence, SubmittedStep, InTool, Ended
<1> QED BY <1>3, <1>4

LEMMA EvidenceStep == EvidenceInv /\ [Next]_vars => EvidenceInv'
<1> SUFFICES ASSUME EvidenceInv, [Next]_vars PROVE EvidenceInv'
  OBVIOUS
<1>1. BackingInv' /\ TypeInv /\ RefersBack /\ LastEvents /\ \A u \in Trace : Evidence(u)
  BY BackingStep DEF EvidenceInv, BackingInv
<1>2. ASSUME NEW t \in Trace, Step(t)
      PROVE  RefersBack' /\ LastEvents' /\ \A u \in Trace : Evidence(u)'
  <2>1. RefersBack' /\ LastEvents' /\ Evidence(t)'
    <3>1. CASE UNCHANGED <<substrate, lastEvent>>
      <4>1. RefersBack' /\ LastEvents'
        BY <1>1, <3>1 DEF RefersBack, LastEvents
      <4>2. ~Mirror(t)
        <5>1. SUFFICES ASSUME Mirror(t) PROVE FALSE
          OBVIOUS
        <5>2. substrate \in Seq(SubstrateEvent)
          BY <1>1 DEF TypeInv, TypeOK, EventsTypeOK
        <5>3. Len(substrate') = Len(substrate) + 1 /\ Len(substrate) \in Nat
          BY <5>1, <5>2 DEF Mirror, AppendTwin
        <5> QED BY <3>1, <5>3
      <4> QED BY <1>2, <4>1, <4>2, GovernedEvidence, SubmittedEvidence, ToolEvidenceSteps,
              ResultedEvidence DEF Step
    <3>2. CASE ~UNCHANGED <<substrate, lastEvent>>
      <4>1. Mirror(t)
        BY <1>2, <3>2, GovernedEvidence, SubmittedEvidence, ToolEvidenceSteps,
           ResultedEvidence DEF Step, eventVars
      <4> QED BY <4>1, MirrorEvidence
    <3> QED BY <3>1, <3>2
  <2>2. \A u \in Trace \ {t} : Evidence(u)'
    BY <1>1, <1>2, StepIsLocal, OthersKeepEvidence
  <2> QED BY <2>1, <2>2
<1>3. ASSUME UNCHANGED <<call, eventVars, continuity, toolFiles>>
      PROVE  RefersBack' /\ LastEvents' /\ \A u \in Trace : Evidence(u)'
  <2>1. RefersBack' /\ LastEvents'
    BY <1>1, <1>3 DEF RefersBack, LastEvents, eventVars
  <2>2. \A u \in Trace : Evidence(u)'
    BY <1>1, <1>3, OthersKeepEvidence DEF eventVars, Receipt, HasEntry, Mirrored
  <2> QED BY <2>1, <2>2
<1>4. RefersBack' /\ LastEvents' /\ \A u \in Trace : Evidence(u)'
  BY <1>2, <1>3, CrashEvidence DEF Next, Clock, vars, callVars
<1> QED BY <1>1, <1>4 DEF EvidenceInv

\* However the process ends, a receipt of a tool has its file, whole; a completion
\* in the substrate log has that receipt and names an earlier event of its trace;
\* a tool call that was answered has its completion and its decision there
\* (node_tool, write_coding_receipt, legacy_event_to_substrate).
THEOREM ToolsLeaveEvidence == Spec => []ToolEvidence
<1>1. Init => EvidenceInv
  <2> SUFFICES ASSUME Init PROVE EvidenceInv
    OBVIOUS
  <2>1. BackingInv
    BY TypeInit DEF Init, NoCall, BackingInv, Backing, ToolStep, SubmittedStep
  <2>2. /\ substrate = <<>> /\ continuity = <<>> /\ lastEvent = [t \in Trace |-> 0]
        /\ \A t \in Trace : call[t].step = "idle"
    BY DEF Init, EventsInit, NoCall
  <2>3. RefersBack /\ LastEvents
    BY <2>2 DEF RefersBack, LastEvents
  <2>4. \A t \in Trace : ~Receipt(t) /\ \A c : ~Mirrored(t, c)
    BY <2>2 DEF Receipt, HasEntry, Mirrored
  <2>5. \A t \in Trace : Evidence(t)
    BY <2>2, <2>4 DEF Evidence, SubmittedStep, InTool
  <2> QED BY <2>1, <2>3, <2>5 DEF EvidenceInv
<1>2. EvidenceInv => ToolEvidence
  BY DEF EvidenceInv, Evidence, Receipt, ToolEvidence
<1> QED BY <1>1, <1>2, EvidenceStep, PTL DEF Spec
-----------------------------------------------------------------------------
(* How far the limit is overrun *)

Flying == {u \in Trace : Running(u)}
Pooled == {u \in Trace : OnThread(u) /\ Running(u)}

\* No more submits run than there are threads.
Pool == IsFiniteSet(Pooled) /\ Cardinality(Pooled) <= Threads

\* Nobody holds a time that is still to come.
Stamped == \A t \in Trace : call[t].stamp <= minute

\* Who was admitted in a minute has a line of that minute.
Lined == \A c \in Caller, m \in 0..MaxMinute :
    /\ IsFiniteSet(Admitted(c, m))
    /\ Cardinality(Admitted(c, m)) <= Cardinality(InMinute(c, m))

\* Who was admitted in a minute, or will be whatever the log becomes.
Counted(c, m) == {t \in Trace :
    /\ call[t].caller = c /\ call[t].stamp = m
    /\ \/ call[t].verdict = "allowed"
       \/ call[t].step = "charge" /\ call[t].verdict = "free"}

\* And who has taken the time, and may be admitted yet.
Coming(c, m) == Counted(c, m) \cup {t \in Trace :
    call[t].caller = c /\ call[t].stamp = m /\ call[t].step = "enforce"}

\* The last slot of the running minute is given away once; a minute that is over
\* takes nobody in any more.
Taken == \A c \in Caller, m \in 0..MaxMinute :
    /\ m = minute => /\ IsFiniteSet(Counted(c, m))
                     /\ Cardinality(Counted(c, m)) < PerMinute + InFlight
    /\ m < minute => /\ IsFiniteSet(Coming(c, m))
                     /\ Cardinality(Coming(c, m)) < PerMinute + 2 * InFlight

LimitInv == ChargeInv /\ Alone /\ Pool /\ Stamped /\ Lined /\ Taken

LEMMA FewFly ==
    ASSUME Alone, Pool
    PROVE  /\ IsFiniteSet(Flying) /\ Cardinality(Flying) \in Nat
           /\ Cardinality(Flying) <= InFlight
<1> DEFINE loop == Flying \ Pooled
<1>1. loop = {} \/ \E u : loop = {u}
  BY DEF Flying, Pooled, Alone
<1> HIDE DEF loop
<1>2. IsFiniteSet(loop) /\ Cardinality(loop) \in {0, 1}
  <2>1. CASE loop = {}
    BY <2>1, FS_EmptySet
  <2>2. ASSUME NEW u, loop = {u} PROVE IsFiniteSet(loop) /\ Cardinality(loop) \in {0, 1}
    BY <2>2, FS_Singleton
  <2> QED BY <1>1, <2>1, <2>2
<1>3. Flying = Pooled \cup loop /\ Pooled \cap loop = {}
  BY DEF Flying, Pooled, loop
<1>4. /\ IsFiniteSet(Flying)
      /\ Cardinality(Flying) = Cardinality(Pooled) + Cardinality(loop) - Cardinality({})
  BY <1>2, <1>3, FS_Union DEF Pool
<1>5. Cardinality({}) = 0 /\ Cardinality(Pooled) \in Nat /\ Cardinality(Pooled) <= Threads
  BY FS_EmptySet, FS_CardinalityType DEF Pool
<1> QED BY <1>2, <1>4, <1>5 DEF InFlight

LEMMA PoolStep == TypeInv /\ Pool /\ [Next]_vars => Pool'
<1> SUFFICES ASSUME TypeInv, Pool, [Next]_vars PROVE Pool'
  OBVIOUS
<1>1. ASSUME Pooled' \subseteq Pooled PROVE Pool'
  <2>1. IsFiniteSet(Pooled') /\ Cardinality(Pooled') <= Cardinality(Pooled)
    BY <1>1, FS_Subset DEF Pool
  <2>2. Cardinality(Pooled') \in Nat /\ Cardinality(Pooled) \in Nat
    BY <2>1, FS_CardinalityType DEF Pool
  <2> QED BY <2>1, <2>2 DEF Pool
<1>2. ASSUME NEW t \in Trace, Step(t) PROVE Pool'
  <2>1. \A u \in Trace \ {t} : Running(u)' <=> Running(u)
    BY <1>2, OneCallMoves DEF Running
  <2>2. CASE Running(t) \/ ~OnThread(t)
    <3>1. Pooled' \subseteq Pooled
      BY <2>1, <2>2 DEF Pooled, OnThread
    <3> QED BY <1>1, <3>1
  <2>3. CASE ~Running(t) /\ OnThread(t)
    <3>1. Cardinality(Pooled) < Threads
      BY <1>2, <2>3, OnlyRunningMoves, EnterWhenFree DEF Step, MayEnter, Pooled
    <3>2. Pooled' \subseteq Pooled \cup {t}
      BY <2>1 DEF Pooled, OnThread
    <3>3. /\ IsFiniteSet(Pooled \cup {t}) /\ Cardinality(Pooled) \in Nat
          /\ Cardinality(Pooled \cup {t}) \in {Cardinality(Pooled), Cardinality(Pooled) + 1}
      BY FS_AddElement, FS_CardinalityType DEF Pool
    <3>4. IsFiniteSet(Pooled') /\ Cardinality(Pooled') <= Cardinality(Pooled \cup {t})
      BY <3>2, <3>3, FS_Subset
    <3>5. Cardinality(Pooled') \in Nat
      BY <3>4, FS_CardinalityType
    <3> QED BY <3>1, <3>3, <3>4, <3>5 DEF Pool
  <2> QED BY <2>2, <2>3
<1>3. ASSUME Crash PROVE Pool'
  BY <1>1, <1>3, CrashEndsCalls DEF Pooled
<1>4. ASSUME UNCHANGED call PROVE Pool'
  BY <1>1, <1>4 DEF Pooled, Running
<1> QED BY <1>2, <1>3, <1>4 DEF Next, Clock, vars, callVars

\* A step that brings nobody in.
LEMMA NobodyNew ==
    ASSUME Taken, minute' = minute, minute \in 0..MaxMinute,
           \A c \in Caller : Counted(c, minute)' \subseteq Counted(c, minute),
           \A c \in Caller, m \in 0..MaxMinute : 
               m < minute => Coming(c, m)' \subseteq Coming(c, m)
    PROVE  Taken'
<1>0. InFlight \in Nat /\ PerMinute \in Nat
  BY DEF InFlight
<1>1. SUFFICES ASSUME NEW c \in Caller, NEW m \in 0..MaxMinute
               PROVE  /\ m = minute => /\ IsFiniteSet(Counted(c, m)')
                                       /\ Cardinality(Counted(c, m)') < PerMinute + InFlight
                      /\ m < minute => /\ IsFiniteSet(Coming(c, m)')
                                       /\ Cardinality(Coming(c, m)') < PerMinute + 2 * InFlight
  BY DEF Taken, InFlight
<1>2. ASSUME m = minute
      PROVE  IsFiniteSet(Counted(c, m)') /\ Cardinality(Counted(c, m)') < PerMinute + InFlight
  <2>1. /\ IsFiniteSet(Counted(c, m)) /\ Cardinality(Counted(c, m)) < PerMinute + InFlight
        /\ Counted(c, m)' \subseteq Counted(c, m)
    BY <1>2 DEF Taken
  <2>2. IsFiniteSet(Counted(c, m)') /\ Cardinality(Counted(c, m)') <= Cardinality(Counted(c, m))
    BY <2>1, FS_Subset
  <2>3. Cardinality(Counted(c, m)') \in Nat /\ Cardinality(Counted(c, m)) \in Nat
    BY <2>1, <2>2, FS_CardinalityType
  <2> QED BY <1>0, <2>1, <2>2, <2>3
<1>3. ASSUME m < minute
      PROVE  IsFiniteSet(Coming(c, m)') /\ Cardinality(Coming(c, m)') < PerMinute + 2 * InFlight
  <2>1. /\ IsFiniteSet(Coming(c, m)) /\ Cardinality(Coming(c, m)) < PerMinute + 2 * InFlight
        /\ Coming(c, m)' \subseteq Coming(c, m)
    BY <1>3 DEF Taken
  <2>2. IsFiniteSet(Coming(c, m)') /\ Cardinality(Coming(c, m)') <= Cardinality(Coming(c, m))
    BY <2>1, FS_Subset
  <2>3. Cardinality(Coming(c, m)') \in Nat /\ Cardinality(Coming(c, m)) \in Nat
    BY <2>1, <2>2, FS_CardinalityType
  <2> QED BY <1>0, <2>1, <2>2, <2>3
<1> QED BY <1>2, <1>3

\* A step that writes no line, in which each call keeps its place, loses it, or
\* takes the time.
LEMMA NoLineKeepsLimit ==
    ASSUME TypeOK, Stamped, Lined, Taken, UNCHANGED <<minute, rateLog>>,
           \A u \in Trace :
               \/ /\ call'[u].caller = call[u].caller /\ call'[u].stamp = call[u].stamp
                  /\ call'[u].verdict = call[u].verdict
                  /\ \/ call'[u].step = call[u].step
                     \/ call'[u].step \notin {"enforce", "charge"}
               \/ /\ call[u].verdict # "allowed" /\ call'[u].verdict # "allowed"
                  /\ call'[u].stamp <= minute /\ call'[u].step # "charge"
                  /\ call'[u].step = "enforce" => call'[u].stamp = minute
    PROVE  Stamped' /\ Lined' /\ Taken'
<1>0. minute \in 0..MaxMinute
  BY DEF TypeOK, GovernanceTypeOK
<1>1. Stamped'
  BY DEF Stamped
<1>2. Lined'
  <2>1. \A c \in Caller, m \in 0..MaxMinute :
            Admitted(c, m)' = Admitted(c, m) /\ InMinute(c, m)' = InMinute(c, m)
    BY DEF Admitted, InMinute
  <2> QED BY <2>1 DEF Lined
<1>3. \A c \in Caller : Counted(c, minute)' \subseteq Counted(c, minute)
  BY DEF Counted
<1>4. \A c \in Caller, m \in 0..MaxMinute :
          m < minute => Coming(c, m)' \subseteq Coming(c, m)
  BY <1>0 DEF Counted, Coming
<1>5. Taken'
  BY <1>0, <1>3, <1>4, NobodyNew
<1> QED BY <1>1, <1>2, <1>5

LEMMA EnterKeepsLimit ==
    ASSUME LimitInv, NEW t \in Trace, Enter(t)
    PROVE  Stamped' /\ Lined' /\ Taken'
<1>1. /\ TypeOK /\ Stamped /\ Lined /\ Taken /\ call \in [Trace -> CallRecord] /\ TypeInv
      /\ Paying(t) /\ minute \in 0..MaxMinute
  BY DEF LimitInv, ChargeInv, TypeInv, TypeOK, GovernanceTypeOK
<1>2. /\ UNCHANGED <<minute, rateLog>> /\ call[t].step = "idle"
      /\ Answered(t) \/ \E caller : Refuse(t, caller) \/ TakeTime(t, caller)
  BY EnterCases DEF Enter, Begin, BeginReplay, BeginVerify, BeginResult, Keep, governanceVars
<1>3. call[t].verdict # "allowed" /\ call[t].stamp <= minute
  BY <1>1, <1>2 DEF Paying, Stamped
<1>4. /\ call'[t].verdict # "allowed" /\ call'[t].stamp <= minute /\ call'[t].step # "charge"
      /\ call'[t].step = "enforce" => call'[t].stamp = minute
  <2>1. CASE Answered(t)
    <3>1. PICK step \in {"unknown", "missing", "failed", "done", "ask"} : Move(t, step)
      BY <2>1 DEF Answered
    <3>2. call'[t] = [call[t] EXCEPT !.step = step]
      BY <1>1, <3>1 DEF Move
    <3>3. call[t] \in CallRecord
      BY <1>1
    <3>4. /\ call'[t].verdict = call[t].verdict /\ call'[t].stamp = call[t].stamp
          /\ call'[t].step = step
      BY <3>2, <3>3 DEF CallRecord
    <3> QED BY <1>3, <3>4
  <2>2. CASE \E caller : TakeTime(t, caller)
    BY <1>1, <1>3, <2>2 DEF TakeTime, CallRecord
  <2>3. CASE \E caller : Refuse(t, caller)
    <3> DEFINE step == CASE KindOf[t] = "tool" -> "emit"
                         [] KindOf[t] = "verify" -> "generate"
                         [] OTHER -> "vetoed"
    <3>1. step \in {"emit", "generate", "vetoed"}
      OBVIOUS
    <3>2. call'[t].step = step /\ call'[t].stamp = call[t].stamp /\ call'[t].verdict = "blocked"
      BY <1>1, <2>3 DEF Refuse, CallRecord
    <3> QED BY <1>3, <3>1, <3>2
  <2> QED BY <1>2, <2>1, <2>2, <2>3
<1>5. \A u \in Trace \ {t} : call'[u] = call[u]
  BY <1>1, OneCallMoves DEF Step
<1> QED BY <1>1, <1>2, <1>3, <1>4, <1>5, NoLineKeepsLimit

\* After the limit a call keeps what it was admitted with.
LEMMA RestKeepsLimit ==
    ASSUME LimitInv, NEW t \in Trace, Submitted(t) \/ Tooled(t) \/ Resulted(t)
    PROVE  Stamped' /\ Lined' /\ Taken'
<1>1. /\ TypeOK /\ Stamped /\ Lined /\ Taken /\ call \in [Trace -> CallRecord] /\ TypeInv
  BY DEF LimitInv, ChargeInv, TypeInv, TypeOK
<1>2. /\ UNCHANGED <<minute, rateLog>>
      /\ call'[t].caller = call[t].caller /\ call'[t].stamp = call[t].stamp
      /\ call'[t].verdict = call[t].verdict
  BY <1>1 DEF Submitted, Admit, Execute, WriteReceipt, WriteEvent, OpenResult, FillResult,
         Tooled, Emit, Mirror, Invoke, OpenToolFile, FillToolFile, WriteToolReceipt,
         Generate, Resulted, Ask, LogResult, Move, Keep, governanceVars, CallRecord
<1>3. call'[t].step \notin {"enforce", "charge"}
  <2>1. CASE Mirror(t)
    BY <1>1, <2>1 DEF Mirror, AfterEvents, CallRecord
  <2>2. CASE ~Mirror(t)
    BY <1>1, <2>2 DEF Submitted, Admit, Execute, WriteReceipt, WriteEvent, OpenResult,
         FillResult, Tooled, Emit, Invoke, OpenToolFile, FillToolFile, WriteToolReceipt,
         Generate, Resulted, Ask, LogResult, Move, CallRecord
  <2> QED BY <2>1, <2>2
<1>4. \A u \in Trace \ {t} : call'[u] = call[u]
  BY <1>1, OneCallMoves DEF Step
<1> QED BY <1>1, <1>2, <1>3, <1>4, NoLineKeepsLimit

LEMMA CrashKeepsLimit ==
    ASSUME LimitInv, Crash
    PROVE  Stamped' /\ Lined' /\ Taken'
<1>1. /\ TypeOK /\ Stamped /\ Lined /\ Taken /\ call \in [Trace -> CallRecord] /\ TypeInv
  BY DEF LimitInv, ChargeInv, TypeInv, TypeOK
<1>2. UNCHANGED <<minute, rateLog>>
  BY DEF Crash, governanceVars
<1>3. \A u \in Trace :
          /\ call'[u].caller = call[u].caller /\ call'[u].stamp = call[u].stamp
          /\ call'[u].verdict = call[u].verdict
          /\ call'[u].step = call[u].step \/ call'[u].step = "failed"
  BY <1>1 DEF Crash, CallRecord
<1> QED BY <1>1, <1>2, <1>3, NoLineKeepsLimit

\* The log is read: a call that finds a free slot finds fewer admitted than slots,
\* and those that found one before it and have no line yet are in flight.
LEMMA CountKeepsLimit ==
    ASSUME LimitInv, NEW t \in Trace, Count(t)
    PROVE  Stamped' /\ Lined' /\ Taken'
<1>1. /\ TypeOK /\ Stamped /\ Lined /\ Taken /\ call \in [Trace -> CallRecord] /\ TypeInv
      /\ Paying(t) /\ minute \in 0..MaxMinute /\ Alone /\ Pool
  BY DEF LimitInv, ChargeInv, TypeInv, TypeOK, GovernanceTypeOK
<1> DEFINE full == OverLimit(call[t].caller)
           d == call[t].caller
<1>2. /\ UNCHANGED <<minute, rateLog>> /\ call[t].step = "enforce" /\ call'[t].step = "charge"
      /\ call'[t].caller = d /\ call'[t].stamp = call[t].stamp
      /\ call'[t].verdict = IF full THEN "full" ELSE "free"
      /\ \A u \in Trace \ {t} : call'[u] = call[u]
  BY <1>1 DEF Count, Keep, governanceVars, CallRecord
<1>3. call[t].verdict # "allowed" /\ call'[t].verdict # "allowed" /\ d \in Caller
  BY <1>1, <1>2 DEF Paying, CallRecord
<1>4. Stamped'
  BY <1>1, <1>2 DEF Stamped
<1>5. \A c \in Caller, m \in 0..MaxMinute :
          Admitted(c, m)' = Admitted(c, m) /\ InMinute(c, m)' = InMinute(c, m)
  BY <1>2, <1>3 DEF Admitted, InMinute
<1>6. Lined'
  BY <1>1, <1>5 DEF Lined
<1>7. \A c \in Caller, m \in 0..MaxMinute : Coming(c, m)' \subseteq Coming(c, m)
  BY <1>2, <1>3 DEF Counted, Coming
<1>8. Taken'
  <2>1. CASE full
    <3>1. \A c \in Caller : Counted(c, minute)' \subseteq Counted(c, minute)
      BY <1>2, <1>3, <2>1 DEF Counted
    <3> QED BY <1>1, <1>2, <1>7, <3>1, NobodyNew
  <2>2. CASE ~full
    <3>1. Cardinality(Admitted(d, minute)) < PerMinute /\ IsFiniteSet(Admitted(d, minute))
      <4>1. /\ IsFiniteSet(InMinute(d, minute))
        <5>1. rateLog \in Seq(Charge)
          BY <1>1 DEF TypeOK, GovernanceTypeOK
        <5>2. InMinute(d, minute) \subseteq 1..Len(rateLog) /\ Len(rateLog) \in Nat
          BY <5>1 DEF InMinute
        <5>3. IsFiniteSet(1..Len(rateLog))
          BY <5>2, FS_Interval
        <5> QED BY <5>2, <5>3, FS_Subset
      <4>2. Cardinality(InMinute(d, minute)) \in Nat
        BY <4>1, FS_CardinalityType
      <4>3. Cardinality(InMinute(d, minute)) < PerMinute
        BY <2>2, <4>2 DEF OverLimit
      <4>4. /\ IsFiniteSet(Admitted(d, minute))
            /\ Cardinality(Admitted(d, minute)) <= Cardinality(InMinute(d, minute))
        BY <1>1, <1>3 DEF Lined
      <4>5. Cardinality(Admitted(d, minute)) \in Nat
        BY <4>4, FS_CardinalityType
      <4> QED BY <4>2, <4>3, <4>4, <4>5
    <3>2. /\ IsFiniteSet(Flying) /\ Cardinality(Flying) \in Nat
          /\ Cardinality(Flying) <= InFlight
      BY <1>1, FewFly
    <3>3. Counted(d, minute)' \subseteq Admitted(d, minute) \cup Flying
      BY <1>2, <1>3 DEF Counted, Admitted, Flying, Running, Ended
    <3>4. /\ IsFiniteSet(Counted(d, minute)')
          /\ Cardinality(Counted(d, minute)') < PerMinute + InFlight
      <4> DEFINE A == Admitted(d, minute)
      <4>1. /\ IsFiniteSet(A \cup Flying)
            /\ Cardinality(A \cup Flying) =
                   Cardinality(A) + Cardinality(Flying) - Cardinality(A \cap Flying)
        BY <3>1, <3>2, FS_Union
      <4>2. /\ Cardinality(A) \in Nat /\ Cardinality(A \cap Flying) \in Nat
        BY <3>1, FS_Intersection, FS_CardinalityType
      <4>3. /\ IsFiniteSet(Counted(d, minute)')
            /\ Cardinality(Counted(d, minute)') <= Cardinality(A \cup Flying)
        BY <3>3, <4>1, FS_Subset
      <4>4. Cardinality(Counted(d, minute)') \in Nat
        BY <4>3, FS_CardinalityType
      <4> QED BY <3>1, <3>2, <4>1, <4>2, <4>3, <4>4 DEF InFlight
    <3>5. \A c \in Caller \ {d} : Counted(c, minute)' \subseteq Counted(c, minute)
      BY <1>2 DEF Counted
    <3>6. ASSUME NEW c \in Caller, NEW m \in 0..MaxMinute
          PROVE  /\ m = minute => /\ IsFiniteSet(Counted(c, m)')
                                  /\ Cardinality(Counted(c, m)') < PerMinute + InFlight
                 /\ m < minute => /\ IsFiniteSet(Coming(c, m)')
                                  /\ Cardinality(Coming(c, m)') < PerMinute + 2 * InFlight
      <4>0. InFlight \in Nat /\ PerMinute \in Nat
        BY DEF InFlight
      <4>1. CASE m = minute /\ c = d
        BY <1>2, <3>4, <4>1
      <4>2. CASE m = minute /\ c # d
        <5>1. /\ IsFiniteSet(Counted(c, m)) /\ Cardinality(Counted(c, m)) < PerMinute + InFlight
              /\ Counted(c, m)' \subseteq Counted(c, m)
          BY <1>1, <1>2, <3>5, <4>2 DEF Taken
        <5>2. /\ IsFiniteSet(Counted(c, m)')
              /\ Cardinality(Counted(c, m)') <= Cardinality(Counted(c, m))
          BY <5>1, FS_Subset
        <5>3. Cardinality(Counted(c, m)') \in Nat /\ Cardinality(Counted(c, m)) \in Nat
          BY <5>1, <5>2, FS_CardinalityType
        <5> QED BY <4>0, <4>2, <5>1, <5>2, <5>3
      <4>3. CASE m < minute
        <5>1. /\ IsFiniteSet(Coming(c, m))
              /\ Cardinality(Coming(c, m)) < PerMinute + 2 * InFlight
              /\ Coming(c, m)' \subseteq Coming(c, m)
          BY <1>1, <1>7, <4>3 DEF Taken
        <5>2. /\ IsFiniteSet(Coming(c, m)')
              /\ Cardinality(Coming(c, m)') <= Cardinality(Coming(c, m))
          BY <5>1, FS_Subset
        <5>3. Cardinality(Coming(c, m)') \in Nat /\ Cardinality(Coming(c, m)) \in Nat
          BY <5>1, <5>2, FS_CardinalityType
        <5> QED BY <4>0, <4>3, <5>1, <5>2, <5>3
      <4> QED BY <4>1, <4>2, <4>3
    <3> QED BY <1>2, <3>6 DEF Taken, InFlight
  <2> QED BY <2>1, <2>2
<1> QED BY <1>4, <1>6, <1>8

\* The line is written: the call that was to be admitted is, and has its line.
LEMMA ChargeKeepsLimit ==
    ASSUME LimitInv, NEW t \in Trace, AppendCharge(t)
    PROVE  Stamped' /\ Lined' /\ Taken'
<1>1. /\ TypeOK /\ Stamped /\ Lined /\ Taken /\ call \in [Trace -> CallRecord] /\ TypeInv
      /\ Paying(t) /\ minute \in 0..MaxMinute /\ rateLog \in Seq(Charge)
  BY DEF LimitInv, ChargeInv, TypeInv, TypeOK, GovernanceTypeOK
<1> DEFINE allowed == call[t].verdict = "free"
           step == CASE KindOf[t] = "verify" -> "generate"
                     [] KindOf[t] = "tool" -> "emit"
                     [] OTHER -> IF allowed THEN "admit" ELSE "vetoed"
           e == [caller |-> call[t].caller, minute |-> call[t].stamp, blocked |-> ~allowed]
<1>2. /\ minute' = minute /\ rateLog' = Append(rateLog, e)
      /\ call[t].step = "charge"
      /\ call'[t].caller = call[t].caller /\ call'[t].stamp = call[t].stamp
      /\ call'[t].verdict = IF allowed THEN "allowed" ELSE "blocked"
      /\ call'[t].step = step
      /\ \A u \in Trace \ {t} : call'[u] = call[u]
  BY <1>1 DEF AppendCharge, Record, CallRecord
<1>3. step \in {"generate", "emit", "admit", "vetoed"} /\ call[t].verdict # "allowed"
  BY <1>1, <1>2 DEF Paying
<1>4. PICK n \in Nat : /\ n = Len(rateLog)
                       /\ DOMAIN rateLog = 1..n /\ DOMAIN rateLog' = 1..(n + 1)
                       /\ \A i \in 1..n : rateLog'[i] = rateLog[i]
                       /\ rateLog'[n + 1] = e
  <2>1. e \in Charge /\ Len(rateLog) \in Nat
    BY <1>1 DEF Charge, CallRecord
  <2>2. rateLog' = Append(rateLog, e)
    BY <1>2
  <2> HIDE DEF e
  <2> QED BY <1>1, <2>1, <2>2
<1>5. e.caller = call[t].caller /\ e.minute = call[t].stamp
  OBVIOUS
<1> HIDE DEF e, step, allowed
<1>6. Stamped'
  BY <1>1, <1>2 DEF Stamped
<1>7. /\ \A c \in Caller : Counted(c, minute)' \subseteq Counted(c, minute)
      /\ \A c \in Caller, m \in 0..MaxMinute : Coming(c, m)' \subseteq Coming(c, m)
  BY <1>2, <1>3 DEF Counted, Coming, allowed
<1>8. Taken'
  BY <1>1, <1>2, <1>7, NobodyNew
<1>9. Lined'
  <2>1. SUFFICES ASSUME NEW c \in Caller, NEW m \in 0..MaxMinute
                 PROVE  /\ IsFiniteSet(Admitted(c, m)')
                        /\ Cardinality(Admitted(c, m)') <= Cardinality(InMinute(c, m)')
    BY DEF Lined
  <2>2. /\ IsFiniteSet(Admitted(c, m)) /\ Cardinality(Admitted(c, m)) \in Nat
        /\ Cardinality(Admitted(c, m)) <= Cardinality(InMinute(c, m))
    BY <1>1, FS_CardinalityType DEF Lined
  <2>3. /\ IsFiniteSet(InMinute(c, m)) /\ Cardinality(InMinute(c, m)) \in Nat
    <3>1. InMinute(c, m) \subseteq 1..n
      BY <1>4 DEF InMinute
    <3>2. IsFiniteSet(1..n)
      BY FS_Interval
    <3> QED BY <3>1, <3>2, FS_Subset, FS_CardinalityType
  <2>4. 1..(n + 1) = 1..n \cup {n + 1} /\ n + 1 \notin 1..n
    OBVIOUS
  <2>5. CASE call[t].caller = c /\ call[t].stamp = m
    <3>1. InMinute(c, m)' = InMinute(c, m) \cup {n + 1} /\ n + 1 \notin InMinute(c, m)
      BY <1>4, <1>5, <2>4, <2>5 DEF InMinute
    <3>2. Admitted(c, m)' \subseteq Admitted(c, m) \cup {t}
      BY <1>2 DEF Admitted
    <3>3. Cardinality(InMinute(c, m)') = Cardinality(InMinute(c, m)) + 1
      BY <2>3, <3>1, FS_AddElement
    <3>4. /\ IsFiniteSet(Admitted(c, m) \cup {t})
          /\ Cardinality(Admitted(c, m) \cup {t}) <= Cardinality(Admitted(c, m)) + 1
          /\ Cardinality(Admitted(c, m) \cup {t}) \in Nat
      BY <2>2, FS_AddElement, FS_CardinalityType
    <3>5. /\ IsFiniteSet(Admitted(c, m)')
          /\ Cardinality(Admitted(c, m)') <= Cardinality(Admitted(c, m) \cup {t})
      BY <3>2, <3>4, FS_Subset
    <3>6. Cardinality(Admitted(c, m)') \in Nat
      BY <3>5, FS_CardinalityType
    <3> QED BY <2>2, <2>3, <3>3, <3>4, <3>5, <3>6
  <2>6. CASE ~(call[t].caller = c /\ call[t].stamp = m)
    <3>1. InMinute(c, m)' = InMinute(c, m)
      BY <1>4, <1>5, <2>4, <2>6 DEF InMinute
    <3>2. Admitted(c, m)' = Admitted(c, m)
      BY <1>2, <2>6 DEF Admitted
    <3> QED BY <2>2, <3>1, <3>2
  <2> QED BY <2>5, <2>6
<1> QED BY <1>6, <1>8, <1>9

\* The minute turns: who may be admitted yet is in flight.
LEMMA TickKeepsLimit ==
    ASSUME LimitInv, Clock
    PROVE  Stamped' /\ Lined' /\ Taken'
<1>1. /\ TypeOK /\ Stamped /\ Lined /\ Taken /\ call \in [Trace -> CallRecord]
      /\ minute \in 0..MaxMinute /\ Alone /\ Pool
  BY DEF LimitInv, ChargeInv, TypeInv, TypeOK, GovernanceTypeOK
<1>2. minute' = minute + 1 /\ UNCHANGED <<call, rateLog>>
  BY DEF Clock, Tick, callVars
<1>3. \A t \in Trace : call[t].stamp \in Nat /\ call[t].stamp <= minute
  BY <1>1 DEF Stamped, CallRecord
<1>4. Stamped'
  BY <1>1, <1>2, <1>3 DEF Stamped
<1>5. \A c \in Caller, m \in 0..MaxMinute :
          /\ Admitted(c, m)' = Admitted(c, m) /\ InMinute(c, m)' = InMinute(c, m)
          /\ Counted(c, m)' = Counted(c, m) /\ Coming(c, m)' = Coming(c, m)
  BY <1>2 DEF Admitted, InMinute, Counted, Coming
<1>6. Lined'
  BY <1>1, <1>5 DEF Lined
<1>7. ASSUME NEW c \in Caller, NEW m \in 0..MaxMinute
      PROVE  /\ m = minute' => /\ IsFiniteSet(Counted(c, m))
                               /\ Cardinality(Counted(c, m)) < PerMinute + InFlight
             /\ m < minute' => /\ IsFiniteSet(Coming(c, m))
                               /\ Cardinality(Coming(c, m)) < PerMinute + 2 * InFlight
  <2>0. InFlight \in Nat \ {0} /\ PerMinute \in Nat \ {0}
    BY DEF InFlight
  <2>1. CASE m = minute + 1
    <3>1. Counted(c, m) = {}
      BY <1>1, <1>3, <2>1 DEF Counted
    <3>2. ~(m < minute')
      BY <1>1, <1>2, <2>1
    <3> QED BY <1>2, <2>0, <3>1, <3>2, FS_EmptySet
  <2>2. CASE m = minute
    <3>1. /\ IsFiniteSet(Counted(c, m)) /\ Cardinality(Counted(c, m)) \in Nat
          /\ Cardinality(Counted(c, m)) < PerMinute + InFlight
      BY <1>1, <2>2, FS_CardinalityType DEF Taken
    <3>2. /\ IsFiniteSet(Flying) /\ Cardinality(Flying) \in Nat
          /\ Cardinality(Flying) <= InFlight
      BY <1>1, FewFly
    <3> DEFINE A == Counted(c, m)
    <3>3. Coming(c, m) \subseteq A \cup Flying
      BY DEF Coming, Flying, Running, Ended
    <3>4. /\ IsFiniteSet(A \cup Flying)
          /\ Cardinality(A \cup Flying) =
                 Cardinality(A) + Cardinality(Flying) - Cardinality(A \cap Flying)
      BY <3>1, <3>2, FS_Union
    <3>5. Cardinality(A \cap Flying) \in Nat
      BY <3>1, FS_Intersection, FS_CardinalityType
    <3>6. /\ IsFiniteSet(Coming(c, m)) /\ Cardinality(Coming(c, m)) <= Cardinality(A \cup Flying)
      BY <3>3, <3>4, FS_Subset
    <3>7. Cardinality(Coming(c, m)) \in Nat
      BY <3>6, FS_CardinalityType
    <3>8. Cardinality(Coming(c, m)) < PerMinute + 2 * InFlight
      BY <2>0, <3>1, <3>2, <3>4, <3>5, <3>6, <3>7
    <3>9. m # minute'
      BY <1>1, <1>2, <2>2
    <3> QED BY <3>6, <3>8, <3>9
  <2>3. CASE m < minute
    <3>1. /\ IsFiniteSet(Coming(c, m)) /\ Cardinality(Coming(c, m)) < PerMinute + 2 * InFlight
      BY <1>1, <2>3 DEF Taken
    <3>2. m # minute'
      BY <1>1, <1>2, <2>3
    <3> QED BY <3>1, <3>2
  <2>4. CASE m > minute + 1
    BY <1>1, <1>2, <2>4
  <2> QED BY <1>1, <2>1, <2>2, <2>3, <2>4
<1>8. Taken'
  BY <1>5, <1>7 DEF Taken, InFlight
<1> QED BY <1>4, <1>6, <1>8

LEMMA LimitStep == LimitInv /\ [Next]_vars => LimitInv'
<1> SUFFICES ASSUME LimitInv, [Next]_vars PROVE LimitInv'
  OBVIOUS
<1>1. TypeInv /\ ChargeInv' /\ Alone' /\ Pool'
  BY ChargeStep, AloneStep, PoolStep DEF LimitInv, ChargeInv
<1>2. ASSUME NEW t \in Trace, Step(t) PROVE Stamped' /\ Lined' /\ Taken'
  BY <1>2, EnterKeepsLimit, CountKeepsLimit, ChargeKeepsLimit, RestKeepsLimit
     DEF Step, Governed
<1>3. ASSUME UNCHANGED vars PROVE Stamped' /\ Lined' /\ Taken'
  <2>1. UNCHANGED <<call, minute, rateLog>>
    BY <1>3 DEF vars, callVars, governanceVars
  <2>2. Stamped /\ Lined /\ Taken
    BY DEF LimitInv
  <2>3. \A c, m : /\ Admitted(c, m)' = Admitted(c, m) /\ InMinute(c, m)' = InMinute(c, m)
                  /\ Counted(c, m)' = Counted(c, m) /\ Coming(c, m)' = Coming(c, m)
    BY <2>1 DEF Admitted, InMinute, Counted, Coming
  <2> QED BY <2>1, <2>2, <2>3 DEF Stamped, Lined, Taken, InFlight
<1>4. Stamped' /\ Lined' /\ Taken'
  BY <1>2, <1>3, CrashKeepsLimit, TickKeepsLimit DEF Next
<1> QED BY <1>1, <1>4 DEF LimitInv

LEMMA LimitInit == Init => LimitInv
<1> SUFFICES ASSUME Init PROVE LimitInv
  OBVIOUS
<1>0. InFlight \in Nat \ {0} /\ PerMinute \in Nat \ {0}
  BY DEF InFlight
<1>1. ChargeInv
  BY ChargeInit
<1>2. /\ minute = 0 /\ rateLog = <<>>
      /\ \A t \in Trace : /\ call[t].step = "idle" /\ call[t].stamp = 0
                          /\ call[t].verdict = "none"
  BY DEF Init, GovernanceInit, NoCall
<1>3. Alone /\ Pooled = {} /\ Stamped
  BY <1>2 DEF Alone, Pooled, Running, Stamped
<1>4. Pool
  BY <1>3, FS_EmptySet DEF Pool
<1>5. \A c \in Caller, m \in 0..MaxMinute :
          Admitted(c, m) = {} /\ InMinute(c, m) = {} /\ Counted(c, m) = {}
  BY <1>2 DEF Admitted, InMinute, Counted
<1>6. Lined
  BY <1>5, FS_EmptySet DEF Lined
<1>7. Taken
  <2>1. Cardinality({}) < PerMinute + InFlight /\ IsFiniteSet({})
    BY <1>0, FS_EmptySet
  <2>2. \A m \in 0..MaxMinute : ~(m < minute)
    BY <1>2
  <2> QED BY <1>5, <2>1, <2>2 DEF Taken
<1> QED BY <1>1, <1>3, <1>4, <1>6, <1>7 DEF LimitInv

\* The limit of a minute is overrun by no more than the calls in flight, once when
\* the last slot is taken and once when the minute turns, for every limit and every
\* number of threads (_enforce_rate_limits, get_rate_limit_state).
THEOREM OverrunIsBounded == Spec => []OverrunBounded
<1>1. LimitInv => OverrunBounded
  <2> SUFFICES ASSUME LimitInv, NEW c \in Caller, NEW m \in 0..MaxMinute
               PROVE  Cardinality(Admitted(c, m)) < PerMinute + 2 * InFlight
    BY DEF OverrunBounded
  <2>0. /\ InFlight \in Nat /\ PerMinute \in Nat \ {0} /\ minute \in 0..MaxMinute
        /\ \A t \in Trace : call[t].stamp \in Nat /\ call[t].stamp <= minute
    BY DEF InFlight, LimitInv, ChargeInv, TypeInv, TypeOK, GovernanceTypeOK, Stamped,
           CallRecord
  <2>1. CASE m = minute
    <3>1. /\ IsFiniteSet(Counted(c, m)) /\ Cardinality(Counted(c, m)) < PerMinute + InFlight
      BY <2>1 DEF LimitInv, Taken
    <3>2. Admitted(c, m) \subseteq Counted(c, m)
      BY DEF Admitted, Counted
    <3>3. /\ Cardinality(Admitted(c, m)) <= Cardinality(Counted(c, m))
          /\ IsFiniteSet(Admitted(c, m))
      BY <3>1, <3>2, FS_Subset
    <3>4. Cardinality(Admitted(c, m)) \in Nat /\ Cardinality(Counted(c, m)) \in Nat
      BY <3>1, <3>3, FS_CardinalityType
    <3> QED BY <2>0, <3>1, <3>3, <3>4
  <2>2. CASE m < minute
    <3>1. /\ IsFiniteSet(Coming(c, m)) /\ Cardinality(Coming(c, m)) < PerMinute + 2 * InFlight
      BY <2>2 DEF LimitInv, Taken
    <3>2. Admitted(c, m) \subseteq Coming(c, m)
      BY DEF Admitted, Counted, Coming
    <3>3. /\ Cardinality(Admitted(c, m)) <= Cardinality(Coming(c, m))
          /\ IsFiniteSet(Admitted(c, m))
      BY <3>1, <3>2, FS_Subset
    <3>4. Cardinality(Admitted(c, m)) \in Nat /\ Cardinality(Coming(c, m)) \in Nat
      BY <3>1, <3>3, FS_CardinalityType
    <3> QED BY <2>0, <3>1, <3>3, <3>4
  <2>3. CASE m > minute
    <3>1. Admitted(c, m) = {}
      BY <2>0, <2>3 DEF Admitted
    <3> QED BY <2>0, <3>1, FS_EmptySet
  <2> QED BY <2>0, <2>1, <2>2, <2>3
<1> QED BY <1>1, LimitInit, LimitStep, PTL DEF Spec
=============================================================================
