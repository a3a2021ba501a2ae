-------------------------- MODULE Erop2Way_proofs --------------------------
(***************************************************************************)
(* Theorems about the 2-way handshake.  The steps it has in common with    *)
(* the 3-way handshake are proved about in EropEngine_proofs.              *)
(***************************************************************************)
EXTENDS Erop2Way, EropEngine_proofs

\* tr_2clInvoker04 preserves the types.
LEMMA InvokerResult2Typed ==
    ASSUME TypeInv, NEW m \in net, NEW kind \in {"result", "error"},
           InvokerResult2(m, kind)
    PROVE  TypeInv'
<1>1. m.type \in OpPdu
  BY DEF InvokerResult2, Receive, ResultType, OpPdu
<1>2. m.dst \in Node /\ m.op \in Op
  BY <1>1, PduInNet DEF TypeInv, PduTyped
<1>3. PICK d \in refToInvoker(m.dst, m.ref, m.src) :
        /\ inv[d].state = "InvokePduSent"
        /\ inv' = [inv EXCEPT
                     ![d].state = "InvokerRefWait",
                     ![d].invokePdu = relPdu(@),
                     ![d].tmrs = tmrCreate({}, "refNu", refKeepTime, 0)]
        /\ invokerInd(d, kind, m.op)
        /\ UNCHANGED <<newRef, net, asked, exec, work, answer, cnf>>
  BY DEF InvokerResult2
<1>4. d \in Desc /\ inv[d].state # "free"
  BY <1>2, <1>3, MappedInDesc DEF refToInvoker
<1> DEFINE ts == tmrCreate({}, "refNu", refKeepTime, 0)
<1>5. ts \in Timers
  BY <1>4, InUse, TimersTyped, DelaysTyped DEF TimerName
<1>6. inv' = [inv EXCEPT ![d] = [inv[d] EXCEPT
                !.state = "InvokerRefWait",
                !.invokePdu = relPdu(inv[d].invokePdu),
                !.resultPdu = inv[d].resultPdu, !.tmrs = ts]]
  BY <1>3, <1>4, InUse DEF InvokeInfo
<1>7. inv' \in [Desc -> InvokeInfo] /\ LiveTyped'
  <2> HIDE DEF ts
  <2> QED
    BY <1>4, <1>5, <1>6, InUse, RelPduTyped, ChangeTyped DEF State, InvokerState
<1>8. sch' \in [Node -> Seq(Task)] /\ ind' \in [Op -> Seq(Outcome)]
  BY <1>2, <1>3, <1>4, InUse, InvokerIndTyped DEF TypeInv
<1> QED
  BY <1>3, <1>7, <1>8 DEF TypeInv, TypeOK, PduTyped

\* tr_2clInvoker06 preserves the types.
LEMMA InvokerRefWaitAgain2Typed ==
    ASSUME TypeInv, NEW m \in net, InvokerRefWaitAgain2(m)
    PROVE  TypeInv'
<1> DEFINE ts == tmrCreate({}, "refNu", refKeepTime, 0)
<1>1. PICK d \in refToInvoker(m.dst, m.ref, m.src) :
        /\ inv[d].state = "InvokerRefWait"
        /\ inv' = [inv EXCEPT ![d].tmrs = ts]
        /\ UNCHANGED <<newRef, net, sch, userVars>>
  BY DEF InvokerRefWaitAgain2
<1>2. d \in Desc /\ inv[d].state # "free"
  BY <1>1, PduInNet, MappedInDesc DEF refToInvoker
<1>3. ts \in Timers
  BY <1>2, InUse, TimersTyped, DelaysTyped DEF TimerName
<1> HIDE DEF ts
<1>4. inv' \in [Desc -> InvokeInfo] /\ LiveTyped'
  BY <1>1, <1>2, <1>3, RetimedTyped
<1> QED
  BY <1>1, <1>4 DEF TypeInv, TypeOK, PduTyped, userVars

\* tr_2clPerformer06 preserves the types.
LEMMA PerformerInactivity2Typed ==
    ASSUME TypeInv, NEW d \in Desc, PerformerInactivity2(d)
    PROVE  TypeInv'
<1>1. inv[d].isResult \in {"result", "error", "failure"}
  BY DEF TypeInv, TypeOK, InvokeInfo
<1> QED
  BY <1>1, PerformerEndTyped DEF PerformerInactivity2

\* Every step preserves the types.
LEMMA NextTyped2 == TypeInv /\ [Next]_vars => TypeInv'
<1> SUFFICES ASSUME TypeInv, [Next]_vars PROVE TypeInv'
  OBVIOUS
<1>1. ASSUME UNCHANGED vars PROVE TypeInv'
  BY <1>1 DEF vars, TypeInv, TypeOK, LiveTyped, PduTyped
<1>2. ASSUME UserStep PROVE TypeInv'
  <2>1. ASSUME NEW op \in Op, InvokeReq2(op) PROVE TypeInv'
    BY <2>1, InvokeReqTyped DEF InvokeReq2
  <2>2. ASSUME NEW d \in Desc, NEW kind \in Reply, ResultReq2(d, kind) PROVE TypeInv'
    BY <2>2, AnswerSentTyped, DelaysTyped DEF ResultReq2, AnswerState, TimerName
  <2> QED
    BY <1>2, <2>1, <2>2, InvokeReqRefusedTyped, ResultReqIgnoredTyped DEF UserStep
<1>3. ASSUME NEW m \in net, PduStep(m) PROVE TypeInv'
  <2>1. ASSUME PerformerInvokeAgain2(m) \/ PduIgnored2(m) PROVE TypeInv'
    BY <1>1, <2>1 DEF PerformerInvokeAgain2, PerformerInvokeAgain, PduIgnored2,
                      IgnorePdu
  <2>2. ASSUME PerformerResend2(m) PROVE TypeInv'
    BY <2>2, AnswerAgainTyped DEF PerformerResend2, AnswerState
  <2> QED
    BY <1>3, <2>1, <2>2, InvokerResult2Typed, InvokerFailureTyped,
       InvokerRefWaitAgain2Typed, ResultPduUnknownTyped, PerformerInvokeTyped,
       InvokePduRefusedTyped, PerformerLateInvokeTyped
    DEF PduStep, InvokerFailure2, PerformerInvoke2, PerformerLateInvoke2
<1>4. ASSUME NEW d \in Desc, TimerStep(d) PROVE TypeInv'
  BY <1>4, InvokerRetranTyped, InvokerLastTyped, InvokerReleaseTyped,
     PerformerNoResponseTyped, PerformerInactivity2Typed,
     PerformerReleaseTyped, IgnoreTimerTyped
  DEF TimerStep, InvokerRetran2, InvokerLast2, InvokerRelease2,
      PerformerNoResponse2, PerformerRelease2, TimerIgnored2
<1> QED
  BY <1>1, <1>2, <1>3, <1>4, RunTaskTyped, TickTyped DEF Next

\* Type correctness of the 2-way handshake, whatever the constants.
THEOREM TypeCorrect2 == Spec => []TypeOK
<1>1. Init => TypeInv
  BY InitTyped
<1>2. TypeInv /\ [Next]_vars => TypeInv'
  BY NextTyped2
<1>3. TypeInv => TypeOK
  BY DEF TypeInv
<1> QED
  BY <1>1, <1>2, <1>3, PTL DEF Spec

-----------------------------------------------------------------------------
(* One outcome.                                                            *)

\* A RESULT or ERROR PDU ends an open invocation.
LEMMA InvokerResult2Once ==
    ASSUME TypeInv, OnceInv, NEW m \in net, NEW kind \in {"result", "error"},
           InvokerResult2(m, kind)
    PROVE  OnceInv'
<1>1. m.type \in OpPdu
  BY DEF InvokerResult2, Receive, ResultType, OpPdu
<1>2. m.dst \in Node /\ m.op \in Op
  BY <1>1, PduInNet DEF TypeInv, PduTyped
<1>3. PICK d \in refToInvoker(m.dst, m.ref, m.src) :
        /\ inv[d].state = "InvokePduSent"
        /\ inv' = [inv EXCEPT
                     ![d].state = "InvokerRefWait",
                     ![d].invokePdu = relPdu(@),
                     ![d].tmrs = tmrCreate({}, "refNu", refKeepTime, 0)]
        /\ invokerInd(d, kind, m.op)
        /\ asked' = asked
  BY DEF InvokerResult2
<1>4. d \in Desc
  BY <1>2, <1>3, MappedInDesc DEF refToInvoker
<1> DEFINE new == [inv[d] EXCEPT !.state = "InvokerRefWait",
                     !.invokePdu = relPdu(@),
                     !.tmrs = tmrCreate({}, "refNu", refKeepTime, 0)]
<1>5. inv' = [inv EXCEPT ![d] = new]
  BY <1>3
<1>6. new.state # "InvokePduSent"
  BY <1>4 DEF TypeInv, TypeOK, InvokeInfo
<1>7. Open(d)
  BY <1>3 DEF Open
<1> HIDE DEF new
<1> QED
  BY <1>2, <1>3, <1>4, <1>5, <1>6, <1>7, IndicatedOnce, ZenonT(60)

\* A repeated RESULT or ERROR PDU is quiet.
LEMMA InvokerRefWaitAgain2Quiet ==
    ASSUME TypeInv, NEW m \in net, InvokerRefWaitAgain2(m)
    PROVE  Quiet
<1>1. PICK d \in refToInvoker(m.dst, m.ref, m.src) :
        /\ inv' = [inv EXCEPT ![d].tmrs = tmrCreate({}, "refNu", refKeepTime, 0)]
        /\ UNCHANGED userVars
  BY DEF InvokerRefWaitAgain2
<1>2. d \in Desc
  BY <1>1, PduInNet, MappedInDesc DEF refToInvoker
<1> QED
  BY <1>1, <1>2, RetimeQuiet DEF userVars

\* Every step preserves the invariant.
LEMMA NextOnce2 == TypeInv /\ OnceInv /\ [Next]_vars => OnceInv'
<1> SUFFICES ASSUME TypeInv, OnceInv, [Next]_vars PROVE OnceInv'
  OBVIOUS
<1>1. ASSUME UNCHANGED vars PROVE Quiet
  BY <1>1 DEF vars, Quiet, Open
<1>2. ASSUME UserStep PROVE OnceInv'
  <2>1. ASSUME NEW d \in Desc, NEW kind \in Reply, ResultReq2(d, kind) PROVE Quiet
    BY <2>1, AnswerSentQuiet DEF ResultReq2, AnswerState
  <2>2. ASSUME NEW d \in Desc, NEW kind \in Reply, ResultReqIgnored(d, kind)
        PROVE  Quiet
    BY <2>2 DEF ResultReqIgnored, Quiet, Open
  <2> QED
    BY <1>2, <2>1, <2>2, QuietOnce, InvokeReqOnce, InvokeReqRefusedOnce
    DEF UserStep, InvokeReq2
<1>3. ASSUME NEW m \in net, PduStep(m) PROVE OnceInv'
  <2>1. ASSUME PerformerInvokeAgain2(m) \/ PduIgnored2(m) PROVE Quiet
    BY <1>1, <2>1 DEF PerformerInvokeAgain2, PerformerInvokeAgain, PduIgnored2,
                      IgnorePdu
  <2>2. ASSUME ResultPduUnknown(m) \/ InvokePduRefused(m) PROVE Quiet
    BY <2>2 DEF ResultPduUnknown, InvokePduRefused, Quiet, Open, userVars
  <2>3. ASSUME PerformerResend2(m) PROVE Quiet
    BY <2>3, AnswerAgainQuiet DEF PerformerResend2
  <2> QED
    BY <1>3, <2>1, <2>2, <2>3, QuietOnce, InvokerResult2Once,
       InvokerFailureOnce, InvokerRefWaitAgain2Quiet, PerformerInvokeQuiet,
       PerformerLateInvokeQuiet
    DEF PduStep, InvokerFailure2, PerformerInvoke2, PerformerLateInvoke2
<1>4. ASSUME NEW d \in Desc, TimerStep(d) PROVE OnceInv'
  <2>1. ASSUME PerformerInactivity2(d) PROVE Quiet
    BY <2>1, PerformerEndQuiet DEF PerformerInactivity2
  <2> QED
    BY <1>4, <2>1, QuietOnce, InvokerRetranQuiet, InvokerLastOnce,
       ReleaseQuiet, PerformerNoResponseQuiet, IgnoreTimerQuiet
    DEF TimerStep, InvokerRetran2, InvokerLast2, InvokerRelease2,
        PerformerNoResponse2, PerformerRelease2, TimerIgnored2
<1> QED
  BY <1>1, <1>2, <1>3, <1>4, QuietOnce, RunTaskQuiet, TickQuiet DEF Next

\* An invocation of the 2-way handshake is answered at most once, for any
\* number of engines, operations and reference numbers and whatever PDUs are
\* lost, repeated or late.
THEOREM AnsweredOnce2 == Spec => []OutcomeOnce
<1>1. Init => TypeInv /\ OnceInv
  BY InitTyped, InitOnce
<1>2. TypeInv /\ OnceInv /\ [Next]_vars => TypeInv' /\ OnceInv'
  BY NextTyped2, NextOnce2
<1>3. OnceInv => OutcomeOnce
  BY DEF OnceInv
<1> QED
  BY <1>1, <1>2, <1>3, PTL DEF Spec

-----------------------------------------------------------------------------
(* Reference numbers.                                                      *)

\* The RESULT or ERROR PDU and its repetition leave the invoker's number in
\* its map.
LEMMA InvokerRef2Quiet ==
    ASSUME TypeInv, NEW m \in net,
           \/ \E kind \in {"result", "error"} : InvokerResult2(m, kind)
           \/ InvokerRefWaitAgain2(m)
    PROVE  RefQuiet
<1>1. ASSUME NEW d \in refToInvoker(m.dst, m.ref, m.src)
      PROVE  d \in Desc
  BY PduInNet, MappedInDesc DEF refToInvoker
<1>2. ASSUME NEW kind \in {"result", "error"}, InvokerResult2(m, kind)
      PROVE  RefQuiet
  <2>1. PICK d \in refToInvoker(m.dst, m.ref, m.src) :
          inv' = [inv EXCEPT
                    ![d].state = "InvokerRefWait",
                    ![d].invokePdu = relPdu(@),
                    ![d].tmrs = tmrCreate({}, "refNu", refKeepTime, 0)]
    BY <1>2 DEF InvokerResult2
  <2>2. d \in Desc
    BY <1>1
  <2> DEFINE new == [inv[d] EXCEPT !.state = "InvokerRefWait",
                       !.invokePdu = relPdu(@),
                       !.tmrs = tmrCreate({}, "refNu", refKeepTime, 0)]
  <2>3. inv' = [inv EXCEPT ![d] = new]
    BY <2>1
  <2>4. KeepsEntry(inv[d], new)
    BY <2>2 DEF KeepsEntry, TypeInv, TypeOK, InvokeInfo
  <2> HIDE DEF new
  <2> QED
    BY <2>2, <2>3, <2>4, UpdateRefQuiet
<1>3. ASSUME InvokerRefWaitAgain2(m) PROVE RefQuiet
  <2>1. PICK d \in refToInvoker(m.dst, m.ref, m.src) : \E ts :
          inv' = [inv EXCEPT ![d].tmrs = ts]
    BY <1>3 DEF InvokerRefWaitAgain2
  <2> QED
    BY <1>1, <2>1, RetimeRefQuiet
<1> QED
  BY <1>2, <1>3

\* Every step preserves the invariant.
LEMMA NextRef2 == TypeInv /\ RefInv /\ [Next]_vars => RefInv'
<1> SUFFICES ASSUME TypeInv, RefInv, [Next]_vars PROVE RefInv'
  OBVIOUS
<1>1. ASSUME UNCHANGED inv PROVE RefInv'
  BY <1>1, SameRefQuiet, QuietRef
<1>2. ASSUME UserStep PROVE RefInv'
  <2>1. ASSUME NEW d \in Desc, NEW kind \in Reply, ResultReq2(d, kind) PROVE RefInv'
    BY <2>1, AnswerSentRef DEF ResultReq2, AnswerState
  <2>2. ASSUME NEW d \in Desc, NEW kind \in Reply, ResultReqIgnored(d, kind)
        PROVE  RefInv'
    BY <1>1, <2>2 DEF ResultReqIgnored
  <2>3. ASSUME NEW op \in Op, InvokeReqRefused(op) PROVE RefInv'
    BY <1>1, <2>3 DEF InvokeReqRefused
  <2> QED
    BY <1>2, <2>1, <2>2, <2>3, InvokeReqRef DEF UserStep, InvokeReq2
<1>3. ASSUME NEW m \in net, PduStep(m) PROVE RefInv'
  <2>1. ASSUME \/ PerformerInvokeAgain2(m) \/ PduIgnored2(m)
               \/ ResultPduUnknown(m) \/ InvokePduRefused(m)
        PROVE  RefInv'
    BY <1>1, <2>1 DEF PerformerInvokeAgain2, PerformerInvokeAgain, PduIgnored2,
       IgnorePdu, vars, ResultPduUnknown, InvokePduRefused
  <2>2. ASSUME PerformerResend2(m) PROVE RefQuiet
    BY <2>2, RepeatedInvokeRefQuiet DEF PerformerResend2
  <2> QED
    BY <1>3, <2>1, <2>2, QuietRef, InvokerRef2Quiet, InvokerFailureRefQuiet,
       PerformerInvokeRefQuiet, RepeatedInvokeRefQuiet
    DEF PduStep, InvokerFailure2, PerformerInvoke2, PerformerLateInvoke2
<1>4. ASSUME NEW d \in Desc, TimerStep(d) PROVE RefInv'
  <2>1. ASSUME PerformerInactivity2(d) PROVE RefQuiet
    BY <2>1, PerformerEndRefQuiet DEF PerformerInactivity2
  <2> QED
    BY <1>4, <2>1, QuietRef, TimerRefQuiet
    DEF TimerStep, InvokerRetran2, InvokerLast2, InvokerRelease2,
        PerformerNoResponse2, PerformerRelease2, TimerIgnored2
<1> QED
  BY <1>1, <1>2, <1>3, <1>4, QuietRef, RunTaskRefQuiet, TickRefQuiet
  DEF Next, vars

\* In the 2-way handshake too a reference number names one operation.
THEOREM RefsUnique2 == Spec => []RefUnique
<1>1. Init => TypeInv /\ RefInv
  BY InitTyped, InitRef
<1>2. TypeInv /\ RefInv /\ [Next]_vars => TypeInv' /\ RefInv'
  BY NextTyped2, NextRef2
<1>3. RefInv => RefUnique
  BY DEF RefInv
<1> QED
  BY <1>1, <1>2, <1>3, PTL DEF Spec

-----------------------------------------------------------------------------
(* Tasks and descriptors.                                                  *)

\* The answer and its repetition.
LEMMA InvokerLive2 ==
    ASSUME TypeInv, LiveInv, NEW m \in net,
           \/ \E kind \in {"result", "error"} : InvokerResult2(m, kind)
           \/ InvokerRefWaitAgain2(m)
    PROVE  LiveInv'
<1>1. ASSUME NEW d \in refToInvoker(m.dst, m.ref, m.src)
      PROVE  d \in Desc
  BY PduInNet, MappedInDesc DEF refToInvoker
<1>2. ASSUME NEW kind \in {"result", "error"}, InvokerResult2(m, kind)
      PROVE  LiveInv'
  <2>1. m.type \in OpPdu
    BY <1>2 DEF InvokerResult2, Receive, ResultType, OpPdu
  <2>2. m.op \in Op
    BY <2>1 DEF TypeInv, PduTyped
  <2>3. PICK d \in refToInvoker(m.dst, m.ref, m.src) :
          /\ inv[d].state = "InvokePduSent" /\ invokerInd(d, kind, m.op)
          /\ inv' = [inv EXCEPT
                       ![d].state = "InvokerRefWait",
                       ![d].invokePdu = relPdu(@),
                       ![d].tmrs = tmrCreate({}, "refNu", refKeepTime, 0)]
          /\ work' = work
    BY <1>2 DEF InvokerResult2
  <2>4. d \in Desc
    BY <1>1
  <2> DEFINE new == [inv[d] EXCEPT !.state = "InvokerRefWait",
                       !.invokePdu = relPdu(@),
                       !.tmrs = tmrCreate({}, "refNu", refKeepTime, 0)]
  <2>5. inv' = [inv EXCEPT ![d] = new]
    BY <2>3
  <2>6. new.state \notin StartState \cup {"free"}
    BY <2>4 DEF TypeInv, TypeOK, InvokeInfo, StartState
  <2>7. inv[d].state = "InvokePduSent" /\ work' = work
    BY <2>3
  <2>8. PICK op \in Op : op = m.op /\ invokerInd(d, kind, op)
    BY <2>2, <2>3
  <2>9. kind \in {"result", "error", "failure"}
    OBVIOUS
  <2> HIDE DEF new
  <2> QED
    BY <2>4, <2>5, <2>6, <2>7, <2>8, <2>9, InvokerIndLive
<1>3. ASSUME InvokerRefWaitAgain2(m) PROVE LiveInv'
  <2>1. PICK d \in refToInvoker(m.dst, m.ref, m.src) : \E ts :
          inv' = [inv EXCEPT ![d].tmrs = ts]
    BY <1>3 DEF InvokerRefWaitAgain2
  <2>2. sch' = sch /\ work' = work
    BY <1>3 DEF InvokerRefWaitAgain2, userVars
  <2> QED
    BY <1>1, <2>1, <2>2, RetimeLive
<1> QED
  BY <1>2, <1>3

\* Every step preserves the invariant.
LEMMA NextLive2 == TypeInv /\ LiveInv /\ [Next]_vars => LiveInv'
<1> SUFFICES ASSUME TypeInv, LiveInv, [Next]_vars PROVE LiveInv'
  OBVIOUS
<1>1. ASSUME UNCHANGED <<inv, sch, work>> PROVE LiveInv'
  BY <1>1, UnchangedLive
<1>2. ASSUME UserStep PROVE LiveInv'
  <2>1. ASSUME NEW d \in Desc, NEW kind \in Reply, ResultReq2(d, kind)
        PROVE  LiveInv'
    BY <2>1, AnswerSentLive DEF ResultReq2, AnswerState
  <2>2. ASSUME NEW op \in Op, InvokeReqRefused(op) PROVE LiveInv'
    BY <1>1, <2>2 DEF InvokeReqRefused
  <2> QED
    BY <1>2, <2>1, <2>2, InvokeReqLive, ResultReqIgnoredLive
    DEF UserStep, InvokeReq2
<1>3. ASSUME NEW m \in net, PduStep(m) PROVE LiveInv'
  <2>1. ASSUME \/ PerformerInvokeAgain2(m) \/ PduIgnored2(m)
               \/ ResultPduUnknown(m) \/ InvokePduRefused(m)
        PROVE  LiveInv'
    BY <1>1, <2>1 DEF PerformerInvokeAgain2, PerformerInvokeAgain, PduIgnored2,
       IgnorePdu, vars, userVars, ResultPduUnknown, InvokePduRefused
  <2>2. ASSUME PerformerResend2(m) PROVE LiveInv'
    BY <2>2, RepeatedInvokeLive DEF PerformerResend2
  <2> QED
    BY <1>3, <2>1, <2>2, InvokerLive2, InvokerFailureLive, PerformerInvokeLive,
       RepeatedInvokeLive
    DEF PduStep, InvokerFailure2, PerformerInvoke2, PerformerLateInvoke2
<1>4. ASSUME NEW d \in Desc, TimerStep(d) PROVE LiveInv'
  <2>1. ASSUME PerformerInactivity2(d) PROVE LiveInv'
    <3>1. inv[d].isResult \in {"result", "error", "failure"}
      BY DEF TypeInv, TypeOK, InvokeInfo
    <3> QED
      BY <2>1, <3>1, PerformerEndLive DEF PerformerInactivity2, AnswerState
  <2> QED
    BY <1>4, <2>1, RepeatedInvokeLive, InvokerLastLive, ReleaseLive,
       PerformerNoResponseLive
    DEF TimerStep, InvokerRetran2, InvokerLast2, InvokerRelease2,
        PerformerNoResponse2, PerformerRelease2, TimerIgnored2
<1> QED
  BY <1>1, <1>2, <1>3, <1>4, RunTaskLive, TickLive DEF Next, vars

\* The invariant of the 2-way handshake.
LEMMA AlwaysLive2 == Spec => [](TypeInv /\ LiveInv)
<1>1. Init => TypeInv /\ LiveInv
  BY InitTyped, InitLive
<1>2. TypeInv /\ LiveInv /\ [Next]_vars => TypeInv' /\ LiveInv'
  BY NextTyped2, NextLive2
<1> QED
  BY <1>1, <1>2, PTL DEF Spec

\* In the 2-way handshake too no task of the scheduler refers to a released
\* InvokeInfo, and none is released twice.
THEOREM TasksAlive2 == Spec => []TasksLive
<1>1. TypeInv /\ LiveInv => TasksLive
  BY LiveTasks
<1> QED
  BY <1>1, AlwaysLive2, PTL

\* A descriptor of the 2-way handshake the user may still answer on is live,
\* or the FAILURE.indication that voids it is ahead of its release.
THEOREM HeldDescsAlive2 == Spec => []HeldDescLive
<1>1. TypeInv /\ LiveInv => HeldDescLive
  BY DEF LiveInv
<1> QED
  BY <1>1, AlwaysLive2, PTL

-----------------------------------------------------------------------------
(* Timers.                                                                 *)

\* The table of the 2-way diagrams.
LEMMA ExpectsTable2 ==
    /\ TimerTable(Expects2)
    /\ Expects2["ResultPduRetrans"] \cap TimerName = {"inactivity"}
<1>1. \A s \in State : Expects2[s] = InvokerExpects2(s) \cup PerformerExpects2(s)
  BY DEF Expects2
<1> QED
  BY <1>1 DEF TimerTable, TimerName, StartState, State, InvokerState,
     PerformerState, InvokerExpects2, PerformerExpects2

\* The answer and its repetition leave the reference number waiting for its
\* release.
LEMMA InvokerArmed2 ==
    ASSUME TypeInv, ArmedInv(Expects2), NEW m \in net,
           \/ \E kind \in {"result", "error"} : InvokerResult2(m, kind)
           \/ InvokerRefWaitAgain2(m)
    PROVE  ArmedInv(Expects2)'
<1>1. PICK d \in refToInvoker(m.dst, m.ref, m.src) :
        \/ inv' = [inv EXCEPT
                     ![d].state = "InvokerRefWait",
                     ![d].invokePdu = relPdu(@),
                     ![d].tmrs = tmrCreate({}, "refNu", refKeepTime, 0)]
        \/ /\ inv[d].state = "InvokerRefWait"
           /\ inv' = [inv EXCEPT ![d].tmrs =
                        tmrCreate({}, "refNu", refKeepTime, 0)]
  BY Zenon DEF InvokerResult2, InvokerRefWaitAgain2
<1>2. d \in Desc
  BY PduInNet, MappedInDesc DEF refToInvoker
<1>3. PICK ts : ts = tmrCreate({}, "refNu", refKeepTime, 0)
  OBVIOUS
<1>4. \E t \in ts : t.name = "refNu"
  BY <1>3, CreatedTimer
<1> DEFINE ended == [inv[d] EXCEPT !.state = "InvokerRefWait",
                       !.invokePdu = relPdu(@), !.tmrs = ts]
           again == [inv[d] EXCEPT !.tmrs = ts]
<1>5. /\ ended.state = "InvokerRefWait" /\ ended.tmrs = ts
      /\ again.state = inv[d].state /\ again.tmrs = ts
  BY <1>2 DEF TypeInv, TypeOK, InvokeInfo
<1>6. \/ inv' = [inv EXCEPT ![d] = ended]
      \/ inv[d].state = "InvokerRefWait" /\ inv' = [inv EXCEPT ![d] = again]
  BY <1>1, <1>3
<1> HIDE DEF ended, again
<1>7. PICK new : /\ new.state = "InvokerRefWait" /\ new.tmrs = ts
                 /\ inv' = [inv EXCEPT ![d] = new]
  BY <1>5, <1>6
<1>8. ArmedInfo(new, Expects2)
  BY <1>4, <1>7, ExpectsTable2 DEF ArmedInfo, Timed, TimerTable, AnswerState
<1> QED
  BY <1>2, <1>7, <1>8, OneArmed, Zenon

\* Every step preserves the invariant.
LEMMA NextArmed2 ==
    TypeInv /\ LiveInv /\ ArmedInv(Expects2) /\ [Next]_vars => ArmedInv(Expects2)'
<1> SUFFICES ASSUME TypeInv, LiveInv, ArmedInv(Expects2), [Next]_vars
             PROVE  ArmedInv(Expects2)'
  OBVIOUS
<1>0. TimerTable(Expects2)
  BY ExpectsTable2
<1>1. ASSUME UNCHANGED inv PROVE ArmedInv(Expects2)'
  BY <1>1, SameArmed
<1>2. ASSUME UserStep PROVE ArmedInv(Expects2)'
  <2>1. ASSUME NEW d \in Desc, NEW kind \in Reply, ResultReq2(d, kind)
        PROVE  ArmedInv(Expects2)'
    BY <1>0, <2>1, AnswerSentArmed, ExpectsTable2 DEF ResultReq2, AnswerState
  <2>2. ASSUME \/ \E op \in Op : InvokeReqRefused(op)
               \/ \E d \in Desc, kind \in Reply : ResultReqIgnored(d, kind)
        PROVE  ArmedInv(Expects2)'
    BY <1>1, <2>2 DEF InvokeReqRefused, ResultReqIgnored
  <2> QED
    BY <1>0, <1>2, <2>1, <2>2, InvokeReqArmed DEF UserStep, InvokeReq2
<1>3. ASSUME NEW m \in net, PduStep(m) PROVE ArmedInv(Expects2)'
  <2>1. ASSUME \/ PerformerInvokeAgain2(m) \/ PduIgnored2(m)
               \/ ResultPduUnknown(m) \/ InvokePduRefused(m)
        PROVE  ArmedInv(Expects2)'
    BY <1>1, <2>1 DEF PerformerInvokeAgain2, PerformerInvokeAgain, PduIgnored2,
       IgnorePdu, vars, ResultPduUnknown, InvokePduRefused
  <2>2. ASSUME PerformerResend2(m) \/ PerformerLateInvoke2(m)
        PROVE  ArmedInv(Expects2)'
    BY <1>0, <2>2, RepeatedInvokeArmed
    DEF PerformerResend2, PerformerLateInvoke2, AnswerState
  <2>3. ASSUME InvokerFailure2(m) \/ PerformerInvoke2(m)
        PROVE  ArmedInv(Expects2)'
    BY <1>0, <2>3, InvokerFailureArmed, PerformerInvokeArmed
    DEF InvokerFailure2, PerformerInvoke2
  <2> QED
    BY <1>3, <2>1, <2>2, <2>3, InvokerArmed2 DEF PduStep
<1>4. ASSUME NEW d \in Desc, TimerStep(d) PROVE ArmedInv(Expects2)'
  <2>1. ASSUME PerformerInactivity2(d) PROVE ArmedInv(Expects2)'
    BY <1>0, <2>1, PerformerEndArmed DEF PerformerInactivity2
  <2> QED
    BY <1>0, <1>4, <2>1, InvokerTimerArmed, ReleaseArmed, IgnoreTimerArmed
    DEF TimerStep, InvokerRetran2, InvokerLast2, InvokerRelease2,
        PerformerNoResponse2, PerformerRelease2, TimerIgnored2
<1>5. ASSUME NEW n \in Node, RunTask(n) PROVE ArmedInv(Expects2)'
  BY <1>0, <1>5, RunTaskArmed
<1>6. ASSUME Tick PROVE ArmedInv(Expects2)'
  BY <1>6, TickArmed
<1> QED
  BY <1>1, <1>2, <1>3, <1>4, <1>5, <1>6 DEF Next, vars

\* An InvokeInfo of the 2-way handshake that waits for an event that nothing
\* will bring is an invocation without a number or an answer that could not be
\* kept, failing sends or not.
THEOREM TimersArmedUnless2 ==
    Spec => [](\A d \in Desc : Armed(d, Expects2) \/ Unnumbered(d) \/ Unkept(d))
<1> DEFINE ArmedUnless ==
             \A d \in Desc : Armed(d, Expects2) \/ Unnumbered(d) \/ Unkept(d)
<1>1. Init => ArmedInv(Expects2)
  BY InitArmed, ExpectsTable2
<1>2. TypeInv /\ LiveInv /\ ArmedInv(Expects2) /\ [Next]_vars => ArmedInv(Expects2)'
  BY NextArmed2
<1>3. ArmedInv(Expects2) => ArmedUnless
  <2>1. Expects2["AckPduSent"] \cap TimerName = {}
    BY DEF Expects2, State, InvokerState, InvokerExpects2, PerformerExpects2
  <2> QED
    BY <2>1 DEF ArmedInv, ArmedInfo, Timed, Armed, Unnumbered, Unkept
<1> HIDE DEF ArmedUnless
<1>4. Spec => []ArmedUnless
  BY <1>1, <1>2, <1>3, AlwaysLive2, PTL DEF Spec
<1> QED
  BY <1>4 DEF ArmedUnless

-----------------------------------------------------------------------------
(* The service.  As in the 3-way handshake, every step serves each         *)
(* operation on its own, if the performer is also given time enough: no    *)
(* ACK PDU tells it that the invoker has stopped, and its inactivity timer *)
(* is not restarted by a repeated INVOKE PDU.                              *)

\* The inactivity time and the time the number is kept outlast the INVOKE PDUs
\* of the operation.
LongInactivity ==
    RetransmitCount * Roundtrip < inactivityDelay + MaxNSDULifeTime

\* What that means for the time from the request.
LEMMA InactivityLong ==
    ASSUME LongInactivity
    PROVE  Horizon <= inactivityDelay + refKeepTime
<1>1. PICK c \in Nat, x \in Nat, r \in Nat, life \in Nat, i \in Nat :
        /\ c = RetransmitCount /\ x = Retransmit /\ r = Roundtrip
        /\ life = MaxNSDULifeTime /\ i = inactivityDelay
  BY NumberAssumption, DelaysTyped
<1>2. PICK cx \in Nat, cr \in Nat : cx = c * x /\ cr = c * r
  OBVIOUS
<1>3. c * (x + r) = cx + cr
  BY <1>2, SMTT(40)
<1>4. /\ Horizon = cx + cr + life + 1 /\ refKeepTime = 2 * life + cx
      /\ cr < i + life
  BY <1>1, <1>2, <1>3
  DEF Horizon, refKeepTime, retransTimeout, LongInactivity
<1> QED
  BY <1>1, <1>4

\* tr_2clInvoker04: the invoking user gets the answer.
LEMMA InvokerResult2Served ==
    ASSUME TypeInv, OnceInv, NEW num, Served(num), NEW m \in net,
           NEW kind \in {"result", "error"}, InvokerResult2(m, kind)
    PROVE  Served(num)'
<1>1. PICK d \in refToInvoker(m.dst, m.ref, m.src) :
        /\ inv[d].state = "InvokePduSent"
        /\ inv' = [inv EXCEPT
                     ![d].state = "InvokerRefWait",
                     ![d].invokePdu = relPdu(@),
                     ![d].tmrs = tmrCreate({}, "refNu", refKeepTime, 0)]
        /\ invokerInd(d, kind, m.op)
  BY DEF InvokerResult2
<1>2. PICK ts : ts = tmrCreate({}, "refNu", refKeepTime, 0)
  OBVIOUS
<1>3. d \in Desc
  BY AnswerFound DEF InvokerResult2, Receive
<1>4. inv' = [inv EXCEPT ![d] = [inv[d] EXCEPT
                !.state = "InvokerRefWait",
                !.invokePdu = relPdu(inv[d].invokePdu),
                !.resultPdu = inv[d].resultPdu, !.tmrs = ts]]
  BY <1>1, <1>2, <1>3 DEF TypeInv, TypeOK, InvokeInfo
<1>5. Moved(d, "InvokerRefWait", inv[d].resultPdu, ts)
  <2>1. PICK ip : ip = relPdu(inv[d].invokePdu)
    OBVIOUS
  <2> QED
    BY <1>3, <1>4, <2>1, ChangeMoved
<1>6. /\ UNCHANGED <<newRef, asked, exec, work, answer, cnf>> /\ net' = net
      /\ m.type = ResultType(kind)
  BY DEF InvokerResult2, Receive
<1>7. \A p \in net' : p \in net \/ p = PduOf(d[1], inv[d], "ACK", NoOp)
  BY <1>6
<1>8. "InvokerRefWait" \in {"AckPduSent", "InvokerRefWait"}
  OBVIOUS
<1> QED
  BY <1>1, <1>5, <1>6, <1>7, <1>8, ResultServed

\* tr_2clInvoker06: the number is kept longer.
LEMMA InvokerRefWaitAgain2Served ==
    ASSUME TypeInv, NEW num, Served(num), NEW m \in net, InvokerRefWaitAgain2(m)
    PROVE  Served(num)'
<1>1. PICK d \in refToInvoker(m.dst, m.ref, m.src) :
        /\ inv[d].state = "InvokerRefWait"
        /\ inv' = [inv EXCEPT ![d].tmrs =
                     tmrCreate({}, "refNu", refKeepTime, 0)]
  BY DEF InvokerRefWaitAgain2
<1>2. d \in Desc
  BY PduInNet, MappedInDesc DEF refToInvoker
<1>3. PICK ts : ts = tmrCreate({}, "refNu", refKeepTime, 0)
  OBVIOUS
<1>4. ts \in Timers
  <2>1. {} \in Timers /\ "refNu" \in TimerName /\ 0 \in Nat
    BY DEF Timers, TimerName
  <2> QED
    BY <1>3, <2>1, TimersTyped, DelaysTyped
<1>5. \A t \in ts : t.name = "refNu"
  BY <1>3, CreatedOnly
<1>6. inv[d].state # "free" /\ inv[d].state \notin PerformerState
  BY <1>1 DEF PerformerState
<1>7. \A t \in ts : \/ t \in inv[d].tmrs
                    \/ /\ t.name # "invokePduRetran"
                       /\ inv[d].state \in PerformerState =>
                            KeptTimer(inv[d].state, inv[d].userRef, t)
  BY <1>5, <1>6
<1>8. UNCHANGED <<newRef, sch, userVars>> /\ \A q \in net' : q \in net
  BY DEF InvokerRefWaitAgain2
<1>9. inv' = [inv EXCEPT ![d].tmrs = ts]
  BY <1>1, <1>3
<1> QED
  BY <1>2, <1>4, <1>6, <1>7, <1>8, <1>9, RetimeServed

\* tr_2clPerformer06: the inactivity timer gave the invoker time enough.
LEMMA PerformerInactivity2Served ==
    ASSUME TypeInv, NEW num, Served(num), NEW d \in Desc,
           PerformerInactivity2(d)
    PROVE  Served(num)'
<1>1. /\ inv[d].state = "ResultPduRetrans"
      /\ inv' = [inv EXCEPT
                   ![d].state = "PerformerRefWait",
                   ![d].resultPdu = relPdu(@),
                   ![d].tmrs = tmrCreate({}, "refNu", refKeepTime, 0)]
      /\ performerCnf(d, inv[d].isResult)
      /\ UNCHANGED <<newRef, net, asked, ind, exec, work, answer>>
  BY DEF PerformerInactivity2
<1>2. inv[d].state \in AnswerState /\ inv[d].state \in PerformerState
  BY <1>1 DEF AnswerState, PerformerState
<1>3. PICK t \in inv[d].tmrs : t.name = "inactivity" /\ t.left = 0
  BY DEF PerformerInactivity2, Expired
<1>4. KeptTimer("ResultPduRetrans", inv[d].userRef, t)
  BY <1>1, <1>2 DEF Served, KeptInv, Kept
<1>5. Within(inv[d].userRef, refKeepTime)
  <2>1. 0 + refKeepTime = refKeepTime
    BY DelaysTyped
  <2> QED
    BY <1>3, <1>4, <2>1 DEF KeptTimer
<1>6. inv[d].isResult \in {"result", "error", "failure"}
  BY DEF TypeInv, TypeOK, InvokeInfo
<1> QED
  BY <1>1, <1>2, <1>5, <1>6, PerformerEndServed

\* tr_2clPerformer03 starts that timer.
LEMMA ResultReq2Served ==
    ASSUME TypeInv, LiveInv, NEW num, Served(num), LongInactivity,
           NEW d \in Desc, NEW kind \in Reply, ResultReq2(d, kind)
    PROVE  Served(num)'
<1>1. LongTimer("ResultPduRetrans", "inactivity", inactivityDelay)
  <2> SUFFICES ASSUME NEW op \in Op, NEW t, Within(op, Horizon),
                      t.name = "inactivity", t.left = inactivityDelay
               PROVE  KeptTimer("ResultPduRetrans", op, t)
    BY DEF LongTimer
  <2>1. Horizon \in Int
    BY DelaysTyped, NumberAssumption DEF Horizon
  <2>2. Within(op, inactivityDelay + refKeepTime)
    BY <2>1, InactivityLong, WithinLonger, DelaysTyped
  <2> QED
    BY <2>2 DEF KeptTimer
<1>2. /\ "ResultPduRetrans" \in AnswerState
      /\ "inactivity" \in TimerName \ {"perfNoResponse"}
  BY DEF AnswerState, TimerName
<1>3. /\ AnswerSent(d, kind, "ResultPduRetrans", "inactivity", inactivityDelay)
      /\ inactivityDelay \in Nat
  BY DelaysTyped, Zenon DEF ResultReq2
<1> QED
  BY <1>1, <1>2, <1>3, AnswerSentServed, Zenon

\* The failure of an open invocation is its outcome.
LEMMA FailureMapped2 ==
    ASSUME TypeInv, OnceInv, NEW num, Served(num), NEW d \in Desc, Open(d),
           invokerInd(d, "failure", inv[d].userRef),
           UNCHANGED <<asked, exec, answer, cnf>>
    PROVE  \E op \in Op : Service!Indicate(op, "failure")
<1>1. PICK op \in asked :
        /\ op = inv[d].userRef /\ ind[op] = <<>>
        /\ ind' = [ind EXCEPT ![op] = <<[kind |-> "failure", op |-> op]>>]
  BY OutcomeIndicated, Zenon
<1>2. op \in Op
  BY DEF TypeInv, TypeOK
<1> QED
  BY <1>1, <1>2 DEF Service!Indicate

\* Every step preserves the invariant; a request adds its number.
LEMMA NextServed2 ==
    ASSUME NoReuse, MaxNSDULifeTime >= 1, LongInactivity, TypeInv,
           OnceInv, LiveInv, NEW num, Served(num), [Next]_vars
    PROVE  \E new : Served(new)'
<1>1. ASSUME UNCHANGED vars PROVE Served(num)'
  BY <1>1, UnchangedServed
<1>2. ASSUME UserStep PROVE \E new : Served(new)'
  <2>1. ASSUME NEW op \in Op, InvokeReq2(op) PROVE \E new : Served(new)'
    BY <2>1, InvokeReqServed DEF InvokeReq2
  <2>2. ASSUME NEW op \in Op, InvokeReqRefused(op) PROVE Served(num)'
    BY <2>2, InvokeReqRefusedServed
  <2>3. ASSUME NEW d \in Desc, NEW kind \in Reply, ResultReq2(d, kind)
        PROVE  Served(num)'
    BY <2>3, ResultReq2Served
  <2>4. ASSUME NEW d \in Desc, NEW kind \in Reply, ResultReqIgnored(d, kind)
        PROVE  Served(num)'
    BY <2>4, ResultReqIgnoredServed
  <2> QED
    BY <1>2, <2>1, <2>2, <2>3, <2>4 DEF UserStep
<1>3. ASSUME NEW m \in net, PduStep(m) PROVE Served(num)'
  <2>1. ASSUME NEW kind \in {"result", "error"}, InvokerResult2(m, kind)
        PROVE  Served(num)'
    BY <2>1, InvokerResult2Served
  <2>2. ASSUME InvokerFailure2(m) PROVE Served(num)'
    BY <2>2, InvokerFailedServed DEF InvokerFailure2
  <2>3. ASSUME InvokerRefWaitAgain2(m) PROVE Served(num)'
    BY <2>3, InvokerRefWaitAgain2Served
  <2>4. ASSUME ResultPduUnknown(m) \/ InvokePduRefused(m) PROVE Served(num)'
    BY <2>4, RefusedServed
  <2>5. ASSUME PerformerInvoke2(m) PROVE Served(num)'
    BY <2>5, PerformerInvokeServed DEF PerformerInvoke2
  <2>6. ASSUME PerformerInvokeAgain2(m) \/ PduIgnored2(m) PROVE Served(num)'
    BY <1>1, <2>6 DEF PerformerInvokeAgain2, PerformerInvokeAgain, PduIgnored2,
       IgnorePdu
  <2>7. ASSUME PerformerResend2(m) PROVE Served(num)'
    <3>1. /\ "ResultPduRetrans" \in AnswerState
          /\ AnswerAgain(m, "ResultPduRetrans")
      BY <2>7 DEF AnswerState, PerformerResend2
    <3> QED
      BY <3>1, AnswerAgainServed
  <2>8. ASSUME PerformerLateInvoke2(m) PROVE Served(num)'
    BY <2>8, PerformerLateInvokeServed DEF PerformerLateInvoke2
  <2> QED
    BY <1>3, <2>1, <2>2, <2>3, <2>4, <2>5, <2>6, <2>7, <2>8 DEF PduStep
<1>4. ASSUME NEW d \in Desc, TimerStep(d) PROVE Served(num)'
  <2>1. ASSUME InvokerRetran2(d) PROVE Served(num)'
    BY <2>1, InvokerRetranServed DEF InvokerRetran2
  <2>2. ASSUME InvokerLast2(d) PROVE Served(num)'
    BY <2>2, InvokerFailedServed DEF InvokerLast2
  <2>3. ASSUME InvokerRelease2(d) \/ PerformerRelease2(d) PROVE Served(num)'
    BY <2>3, ReleaseServed DEF InvokerRelease2, PerformerRelease2
  <2>4. ASSUME PerformerInactivity2(d) PROVE Served(num)'
    BY <2>4, PerformerInactivity2Served
  <2>5. ASSUME PerformerNoResponse2(d) PROVE Served(num)'
    BY <2>5, PerformerNoResponseServed DEF PerformerNoResponse2
  <2>6. ASSUME TimerIgnored2(d) PROVE Served(num)'
    BY <2>6, IgnoreTimerServed DEF TimerIgnored2
  <2> QED
    BY <1>4, <2>1, <2>2, <2>3, <2>4, <2>5, <2>6 DEF TimerStep
<1>5. ASSUME NEW n \in Node, RunTask(n) PROVE Served(num)'
  BY <1>5, RunTaskServed
<1>6. ASSUME Tick PROVE Served(num)'
  BY <1>6, TickServed
<1> QED
  BY <1>1, <1>2, <1>3, <1>4, <1>5, <1>6 DEF Next

\* What the service does when a user asks or answers.
LEMMA UserStepMapped2 ==
    ASSUME TypeInv, OnceInv, LiveInv, NEW num, Served(num), UserStep
    PROVE  Service!AbsNext
<1>1. ASSUME NEW op \in Op, InvokeReq2(op) PROVE Service!Request(op)
  BY <1>1 DEF InvokeReq2, InvokeReq, Service!Request
<1>2. ASSUME NEW op \in Op, InvokeReqRefused(op) PROVE Service!Decline(op)
  <2>1. ind[op] = <<>> /\ op \notin asked
    BY <1>2 DEF InvokeReqRefused, OnceInv, UnaskedUntold
  <2>2. Append(<<>>, [kind |-> "refused", op |-> op])
          = <<[kind |-> "refused", op |-> op]>>
    OBVIOUS
  <2>3. ind' = [ind EXCEPT ![op] = <<[kind |-> "refused", op |-> op]>>]
    BY <1>2, <2>1, <2>2 DEF InvokeReqRefused
  <2> QED
    BY <1>2, <2>1, <2>3 DEF InvokeReqRefused, Service!Decline
<1>3. ASSUME NEW d \in Desc, NEW kind \in Reply,
             ResultReq2(d, kind) \/ ResultReqIgnored(d, kind)
      PROVE  /\ work[d] \in Op /\ kind \in {"result", "error"}
             /\ Service!Answer(work[d], kind)
  <2>1. /\ work[d] # NoOp /\ UNCHANGED <<asked, exec, ind, cnf>>
        /\ answer' = [answer EXCEPT ![work[d]] = @ \cup {kind}]
    BY <1>3 DEF ResultReq2, AnswerSent, ResultReqIgnored
  <2> QED
    BY <2>1, AnsweredFirst, ShapeAssumption DEF Service!Answer
<1> QED
  BY <1>1, <1>2, <1>3 DEF UserStep, Service!AbsNext

\* A PDU brings the operation to its performer, the answer or a failure to the
\* invoking user.
LEMMA PduStepMapped2 ==
    ASSUME TypeInv, OnceInv, LiveInv, NEW num, Served(num),
           NEW m \in net, PduStep(m)
    PROVE  Service!AbsNext \/ UNCHANGED Service!absVars
<1>1. ASSUME NEW kind \in {"result", "error"}, InvokerResult2(m, kind)
      PROVE  m.op \in Op /\ Service!Indicate(m.op, kind)
  <2>1. PICK d \in refToInvoker(m.dst, m.ref, m.src) :
          inv[d].state = "InvokePduSent" /\ invokerInd(d, kind, m.op)
    BY <1>1 DEF InvokerResult2
  <2>2. m.type = ResultType(kind) /\ UNCHANGED <<asked, exec, answer, cnf>>
    BY <1>1 DEF InvokerResult2, Receive
  <2>3. /\ d \in Desc /\ m.op = inv[d].userRef /\ m.op \in Op
        /\ kind \in answer[m.op] /\ Open(d)
    BY <2>1, <2>2, AnswerFound DEF Open
  <2>4. invokerInd(d, kind, inv[d].userRef)
    BY <2>1, <2>3
  <2>5. PICK op \in asked :
          /\ op = inv[d].userRef /\ ind[op] = <<>>
          /\ ind' = [ind EXCEPT ![op] = <<[kind |-> kind, op |-> op]>>]
    BY <2>3, <2>4, OutcomeIndicated, Zenon
  <2> QED
    BY <2>2, <2>3, <2>5 DEF Service!Indicate
<1>2. ASSUME InvokerFailure2(m)
      PROVE  \E op \in Op : Service!Indicate(op, "failure")
  <2>1. PICK d \in refToInvoker(m.dst, m.ref, m.src) :
          /\ inv[d].state = "InvokePduSent"
          /\ invokerInd(d, "failure", inv[d].userRef)
    BY <1>2 DEF InvokerFailure2, InvokerFailure, FailOperation
  <2>2. UNCHANGED <<asked, exec, answer, cnf>>
    BY <1>2 DEF InvokerFailure2, InvokerFailure, FailOperation
  <2>3. d \in Desc /\ Open(d)
    BY <2>1, PduInNet, MappedInDesc DEF refToInvoker, Open
  <2> QED
    BY <2>1, <2>2, <2>3, FailureMapped2
<1>3. ASSUME PerformerInvoke2(m) PROVE m.op \in Op /\ Service!Perform(m.op)
  BY <1>3, PerformedFirst DEF PerformerInvoke2, PerformerInvoke, Service!Perform
<1>4. ASSUME \/ InvokerRefWaitAgain2(m) \/ ResultPduUnknown(m)
             \/ InvokePduRefused(m) \/ PerformerInvokeAgain2(m)
             \/ PerformerResend2(m) \/ PerformerLateInvoke2(m)
             \/ PduIgnored2(m)
      PROVE  UNCHANGED Service!absVars
  BY <1>4 DEF InvokerRefWaitAgain2, ResultPduUnknown, InvokePduRefused,
     PerformerInvokeAgain2, PerformerInvokeAgain, PerformerResend2, AnswerAgain,
     PerformerLateInvoke2, PerformerLateInvoke, PduIgnored2, IgnorePdu, vars,
     userVars, Service!absVars
<1> QED
  BY <1>1, <1>2, <1>3, <1>4 DEF PduStep, Service!AbsNext

\* A timer confirms the answer to the performing user, reports a failure to one
\* of the users, or does nothing they see.
LEMMA TimerStepMapped2 ==
    ASSUME TypeInv, OnceInv, NEW num, Served(num), NEW d \in Desc, TimerStep(d)
    PROVE  Service!AbsNext \/ UNCHANGED Service!absVars
<1>1. ASSUME InvokerLast2(d)
      PROVE  \E op \in Op : Service!Indicate(op, "failure")
  BY <1>1, FailureMapped2 DEF InvokerLast2, InvokerLast, Open
<1>2. ASSUME PerformerNoResponse2(d)
      PROVE  \E op \in Op : Service!Tell(op, "failure")
  <2>1. /\ inv[d].state \in {"InvokePduReceived"} \cup AnswerState
        /\ cnf' = [cnf EXCEPT ![inv[d].userRef] = Append(@, "failure")]
        /\ UNCHANGED <<asked, exec, answer, ind>>
    BY <1>2 DEF PerformerNoResponse2, PerformerNoResponse, AnswerState
  <2> QED
    BY <2>1, ToldFirst DEF Service!Tell
<1>3. ASSUME PerformerInactivity2(d)
      PROVE  \E op \in Op, kind \in {"result", "error"} : Service!Tell(op, kind)
  <2>1. PICK op, kind : op = inv[d].userRef /\ kind = inv[d].isResult
    OBVIOUS
  <2>2. inv[d].state \in AnswerState /\ kind \in {"result", "error"}
    BY <1>3, <2>1 DEF PerformerInactivity2, AnswerState, TypeInv, TypeOK,
       InvokeInfo
  <2>3. cnf' = [cnf EXCEPT ![inv[d].userRef] = Append(@, kind)]
    BY <1>3, <2>1 DEF PerformerInactivity2, performerCnf
  <2>4. /\ op \in Op /\ exec[op] = 1 /\ cnf[op] = <<>>
        /\ cnf' = [cnf EXCEPT ![op] = <<kind>>] /\ answer[op] = {kind}
    BY <2>1, <2>2, <2>3, ToldFirst
  <2>5. UNCHANGED <<asked, exec, answer, ind>>
    BY <1>3 DEF PerformerInactivity2
  <2>6. Service!Tell(op, kind)
    BY <2>4, <2>5 DEF Service!Tell
  <2> QED
    BY <2>2, <2>4, <2>6
<1>4. ASSUME \/ InvokerRetran2(d) \/ InvokerRelease2(d) \/ PerformerRelease2(d)
             \/ TimerIgnored2(d)
      PROVE  UNCHANGED Service!absVars
  BY <1>4 DEF InvokerRetran2, InvokerRetran, InvokerRelease2, InvokerRelease,
     PerformerRelease2, PerformerRelease, TimerIgnored2, IgnoreTimer, userVars,
     Service!absVars
<1> QED
  BY <1>1, <1>2, <1>3, <1>4 DEF TimerStep, Service!AbsNext

\* Every step of the engines is a step of the service, or none.
LEMMA NextMapped2 ==
    ASSUME TypeInv, OnceInv, LiveInv, NEW num, Served(num), [Next]_vars
    PROVE  [Service!AbsNext]_Service!absVars
<1>1. ASSUME UserStep PROVE Service!AbsNext
  BY <1>1, UserStepMapped2
<1>2. ASSUME NEW m \in net, PduStep(m)
      PROVE  Service!AbsNext \/ UNCHANGED Service!absVars
  BY <1>2, PduStepMapped2
<1>3. ASSUME NEW d \in Desc, TimerStep(d)
      PROVE  Service!AbsNext \/ UNCHANGED Service!absVars
  BY <1>3, TimerStepMapped2
<1>4. ASSUME (\E n \in Node : RunTask(n)) \/ Tick \/ UNCHANGED vars
      PROVE  UNCHANGED Service!absVars
  BY <1>4 DEF RunTask, Tick, vars, userVars, Service!absVars
<1> QED
  BY <1>1, <1>2, <1>3, <1>4 DEF Next

\* Every reachable state serves each operation on its own.
LEMMA AlwaysServed2 ==
    ASSUME NoReuse, MaxNSDULifeTime >= 1, LongInactivity
    PROVE  Spec => [](TypeInv /\ OnceInv /\ LiveInv /\ \E num : Served(num))
<1> DEFINE Inv == TypeInv /\ OnceInv /\ LiveInv /\ \E num : Served(num)
<1>1. Init => Inv
  BY InitTyped, InitOnce, InitLive, InitServed
<1>2. Inv /\ [Next]_vars => Inv'
  <2> SUFFICES ASSUME Inv, [Next]_vars PROVE Inv'
    OBVIOUS
  <2>1. PICK num : Served(num)
    OBVIOUS
  <2>2. \E new : Served(new)'
    BY <2>1, NextServed2
  <2>3. (\E new : Served(new))'
    BY <2>2
  <2> QED
    BY <2>3, NextTyped2, NextOnce2, NextLive2
<1> HIDE DEF Inv
<1>3. Spec => []Inv
  BY <1>1, <1>2, PTL DEF Spec
<1> QED
  BY <1>3 DEF Inv

\* No InvokeInfo of the 2-way handshake waits for an event that nothing will
\* bring, failing sends or not, where no engine gives a reference number out
\* twice: every invocation then has its number and every answer keeps it.
THEOREM TimersArmed2 ==
    ASSUME NoReuse, MaxNSDULifeTime >= 1, LongInactivity
    PROVE  Spec => []TimerArmed2
<1> DEFINE Known == \E num : Served(num)
           ArmedUnless ==
             \A d \in Desc : Armed(d, Expects2) \/ Unnumbered(d) \/ Unkept(d)
<1>1. Known /\ ArmedUnless => TimerArmed2
  BY ServedNumbered DEF TimerArmed2
<1>2. Spec => []ArmedUnless
  BY TimersArmedUnless2
<1>3. Spec => [](TypeInv /\ OnceInv /\ LiveInv /\ Known)
  BY AlwaysServed2
<1> HIDE DEF Known, ArmedUnless
<1> QED
  BY <1>1, <1>2, <1>3, PTL

\* The 2-way handshake implements the ESRO service of two PDUs: an operation
\* is performed at most once, its user hears one outcome, the performing
\* user's own answer or a failure, and the performing user is told at most
\* once.  So it is as long as no engine gives a reference number out twice, a
\* datagram may live for a unit of time, and the inactivity time goes with the
\* number of retransmissions.
THEOREM Implemented2Way ==
    ASSUME NoReuse, MaxNSDULifeTime >= 1, LongInactivity
    PROVE  Spec => Implements2Way
<1> DEFINE Inv == TypeInv /\ OnceInv /\ LiveInv /\ \E num : Served(num)
<1>1. Spec => []Inv
  BY AlwaysServed2
<1>2. Inv /\ [Next]_vars => [Service!AbsNext]_Service!absVars
  <2> SUFFICES ASSUME Inv, [Next]_vars PROVE [Service!AbsNext]_Service!absVars
    OBVIOUS
  <2>1. PICK num : Served(num)
    OBVIOUS
  <2> QED
    BY <2>1, NextMapped2
<1>3. Init => Service!AbsInit
  BY DEF Init, Service!AbsInit
<1> HIDE DEF Inv
<1> QED
  BY <1>1, <1>2, <1>3, PTL DEF Spec, Implements2Way, Service!AbsSpec
=============================================================================
