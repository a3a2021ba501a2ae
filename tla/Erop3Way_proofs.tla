-------------------------- MODULE Erop3Way_proofs --------------------------
(***************************************************************************)
(* Theorems about the 3-way handshake.                                     *)
(***************************************************************************)
EXTENDS Erop3Way, EropEngine_proofs

-----------------------------------------------------------------------------
(* The steps of the 3-way diagrams preserve the types.                     *)

\* tr_clInvoker04, with its ACK sent or lost, preserves the types.
LEMMA InvokerResultTyped ==
    ASSUME TypeInv, NEW m \in net, NEW kind \in {"result", "error"},
           InvokerResult(m, kind)
    PROVE  TypeInv'
<1>1. m.type \in OpPdu
  BY DEF InvokerResult, Receive, ResultType, OpPdu
<1>2. m \in Pdu /\ m.dst \in Node /\ m.op \in Op
  BY <1>1, PduInNet DEF TypeInv, PduTyped
<1>3. PICK ok \in SendOutcome, d \in refToInvoker(m.dst, m.ref, m.src) :
        /\ inv[d].state = "InvokePduSent"
        /\ inv' = [inv EXCEPT
                     ![d].state = "AckPduSent",
                     ![d].invokePdu = relPdu(@),
                     ![d].tmrs = IF ok
                                 THEN tmrCreate({}, "inactivity",
                                                inactivityDelay, 0)
                                 ELSE {}]
        /\ net' = Send(net, PduOf(d[1], inv[d], "ACK", NoOp), ok)
        /\ invokerInd(d, kind, m.op)
        /\ UNCHANGED <<newRef, asked, exec, work, answer, cnf>>
  BY DEF InvokerResult
<1>4. d \in Desc /\ inv[d].state # "free"
  BY <1>2, <1>3, MappedInDesc DEF refToInvoker
<1> DEFINE ts == IF ok THEN tmrCreate({}, "inactivity", inactivityDelay, 0)
                 ELSE {}
<1>5. ts \in Timers
  BY <1>4, InUse, TimersTyped, DelaysTyped DEF TimerName
<1>6. inv' = [inv EXCEPT ![d] = [inv[d] EXCEPT
                !.state = "AckPduSent", !.invokePdu = relPdu(inv[d].invokePdu),
                !.resultPdu = inv[d].resultPdu, !.tmrs = ts]]
  BY <1>3, <1>4, InUse, ZenonT(60) DEF InvokeInfo
<1>7. inv' \in [Desc -> InvokeInfo] /\ LiveTyped'
  <2> HIDE DEF ts
  <2> QED
    BY <1>4, <1>5, <1>6, InUse, RelPduTyped, ChangeTyped DEF State, InvokerState
<1>8. net' \subseteq Pdu /\ PduTyped'
  <2> DEFINE pdu == PduOf(d[1], inv[d], "ACK", NoOp)
  <2>1. pdu \in Pdu /\ pdu.type = "ACK"
    BY <1>4, InUse, PduOfTyped DEF PduType, OpPdu
  <2>2. net' = Send(net, pdu, ok)
    BY <1>3
  <2> HIDE DEF pdu
  <2> QED
    BY <2>1, <2>2, SendTyped DEF OpPdu
<1>9. sch' \in [Node -> Seq(Task)] /\ ind' \in [Op -> Seq(Outcome)]
  BY <1>2, <1>3, <1>4, InUse, InvokerIndTyped DEF TypeInv
<1> QED
  BY <1>3, <1>7, <1>8, <1>9 DEF TypeInv, TypeOK

\* tr_clInvoker07, a repeated answer, preserves the types.
LEMMA InvokerResultAgainTyped ==
    ASSUME TypeInv, NEW m \in net, InvokerResultAgain(m)
    PROVE  TypeInv'
<1>1. PICK ok \in SendOutcome, d \in refToInvoker(m.dst, m.ref, m.src) :
        /\ inv[d].state = "AckPduSent"
        /\ inv' = [inv EXCEPT ![d].tmrs =
                     tmrRestart(inv[d].tmrs, "inactivity", inactivityDelay)]
        /\ net' = Send(net, PduOf(d[1], inv[d], "ACK", NoOp), ok)
        /\ UNCHANGED <<newRef, sch, userVars>>
  BY DEF InvokerResultAgain
<1>2. d \in Desc /\ inv[d].state # "free"
  BY <1>1, PduInNet, MappedInDesc DEF refToInvoker
<1>3. tmrRestart(inv[d].tmrs, "inactivity", inactivityDelay) \in Timers
  BY <1>2, InUse, TimersTyped, DelaysTyped DEF TimerName
<1>4. inv' \in [Desc -> InvokeInfo] /\ LiveTyped'
  BY <1>1, <1>2, <1>3, RetimedTyped
<1>5. net' \subseteq Pdu /\ PduTyped'
  <2> DEFINE pdu == PduOf(d[1], inv[d], "ACK", NoOp)
  <2>1. pdu \in Pdu /\ pdu.type = "ACK"
    BY <1>2, InUse, PduOfTyped DEF PduType, OpPdu
  <2>2. net' = Send(net, pdu, ok)
    BY <1>1
  <2> HIDE DEF pdu
  <2> QED
    BY <2>1, <2>2, SendTyped DEF OpPdu
<1> QED
  BY <1>1, <1>4, <1>5 DEF TypeInv, TypeOK, userVars

\* tr_clInvoker09 only restarts the refNu timer.
LEMMA InvokerRefWaitAgainTyped ==
    ASSUME TypeInv, NEW m \in net, InvokerRefWaitAgain(m)
    PROVE  TypeInv'
<1>1. PICK d \in refToInvoker(m.dst, m.ref, m.src) :
        /\ inv[d].state = "InvokerRefWait"
        /\ inv' = [inv EXCEPT ![d].tmrs = tmrRestart(@, "refNu", refKeepTime)]
        /\ UNCHANGED <<newRef, net, sch, userVars>>
  BY DEF InvokerRefWaitAgain
<1>2. d \in Desc
  BY <1>1, PduInNet, MappedInDesc DEF refToInvoker
<1> QED
  BY <1>1, <1>2, RefWaitTyped

\* tr_clPerformer11 only restarts the refNu timer.
LEMMA PerformerLateAckTyped ==
    ASSUME TypeInv, NEW m \in net, PerformerLateAck(m)
    PROVE  TypeInv'
<1>1. PICK d \in refToPerformer(m.dst, m.ref, m.src) :
        /\ inv[d].state = "PerformerRefWait"
        /\ inv' = [inv EXCEPT ![d].tmrs = tmrRestart(@, "refNu", refKeepTime)]
        /\ UNCHANGED <<newRef, sch, net, userVars>>
  BY DEF PerformerLateAck
<1>2. d \in Desc
  BY <1>1, PduInNet, MappedInDesc DEF refToPerformer
<1> QED
  BY <1>1, <1>2, RefWaitTyped

\* tr_clInvoker10, the end of the inactivity time, preserves the types.
LEMMA InvokerInactivityTyped ==
    ASSUME TypeInv, NEW d \in Desc, InvokerInactivity(d)
    PROVE  TypeInv'
<1>1. inv[d].state # "free"
  BY DEF InvokerInactivity
<1> DEFINE ts == tmrCreate({}, "refNu", refKeepTime, 0)
<1>2. ts \in Timers
  BY <1>1, InUse, TimersTyped, DelaysTyped DEF TimerName
<1>3. inv' = [inv EXCEPT ![d] = [inv[d] EXCEPT
                !.state = "InvokerRefWait",
                !.invokePdu = relPdu(inv[d].invokePdu),
                !.resultPdu = relPdu(inv[d].resultPdu), !.tmrs = ts]]
  BY DEF InvokerInactivity
<1>4. inv' \in [Desc -> InvokeInfo] /\ LiveTyped'
  <2> HIDE DEF ts
  <2> QED
    BY <1>1, <1>2, <1>3, InUse, RelPduTyped, ChangeTyped DEF State, InvokerState
<1> QED
  BY <1>4 DEF InvokerInactivity, TypeInv, TypeOK, PduTyped, userVars

\* tr_clPerformer05, with or without a kept PDU, preserves the types.
LEMMA PerformerRetranTyped ==
    ASSUME TypeInv, NEW d \in Desc, PerformerRetran(d)
    PROVE  TypeInv'
<1>1. inv[d].state # "free"
  BY DEF PerformerRetran
<1>2. PICK t \in Expired(d, "resultPduRetran"), ok \in SendOutcome :
        LET rest == inv[d].tmrs \ {t} IN
        \/ /\ inv' = [inv EXCEPT ![d].tmrs = lastTimer(rest)]
           /\ UNCHANGED net
        \/ /\ inv' = [inv EXCEPT ![d].tmrs =
                        IF inv[d].resultPdu = <<>> THEN rest
                        ELSE tmrCreate(rest, "resultPduRetran",
                                       retransTimeout, t.datum + 1)]
           /\ net' = SendKeptResult(d, net, ok)
  BY DEF PerformerRetran
<1> DEFINE rest == inv[d].tmrs \ {t}
           again == IF inv[d].resultPdu = <<>> THEN rest
                    ELSE tmrCreate(rest, "resultPduRetran", retransTimeout,
                                   t.datum + 1)
<1>3. rest \in Timers /\ t.datum + 1 \in Nat
  BY <1>1, <1>2, InUse, TimersTyped DEF Timers
<1>4. lastTimer(rest) \in Timers /\ again \in Timers
  <2> HIDE DEF rest
  <2> QED
    BY <1>3, TimersTyped, DelaysTyped DEF TimerName
<1>5. inv' \in [Desc -> InvokeInfo] /\ LiveTyped'
  <2>1. \/ inv' = [inv EXCEPT ![d].tmrs = lastTimer(rest)]
        \/ inv' = [inv EXCEPT ![d].tmrs = again]
    BY <1>2
  <2> HIDE DEF rest, again
  <2> QED
    BY <1>1, <1>4, <2>1, RetimedTyped
<1>6. net' \subseteq Pdu /\ PduTyped'
  <2>1. CASE UNCHANGED net
    BY <2>1 DEF TypeInv, TypeOK, PduTyped
  <2> QED
    BY <1>1, <1>2, <2>1, SendKeptTyped
<1>7. UNCHANGED <<newRef, sch, userVars>>
  BY DEF PerformerRetran
<1> QED
  BY <1>5, <1>6, <1>7 DEF TypeInv, TypeOK, userVars

\* tr_clPerformer03: the performer is told that its answer arrived.
LEMMA PerformerAckTyped ==
    ASSUME TypeInv, NEW m \in net, PerformerAck(m)
    PROVE  TypeInv'
<1>1. PICK d \in refToPerformer(m.dst, m.ref, m.src) :
        /\ inv[d].state = "AckPduWait"
        /\ inv' = [inv EXCEPT
                     ![d].state = "PerformerRefWait",
                     ![d].resultPdu = relPdu(@),
                     ![d].tmrs = tmrCreate({}, "refNu", refKeepTime, 0)]
        /\ performerCnf(d, inv[d].isResult)
        /\ UNCHANGED <<newRef, net, asked, ind, exec, work, answer>>
  BY DEF PerformerAck
<1>2. d \in Desc
  BY <1>1, PduInNet, MappedInDesc DEF refToPerformer
<1>3. inv[d].isResult \in {"result", "error", "failure"}
  BY <1>2 DEF TypeInv, TypeOK, InvokeInfo
<1> QED
  BY <1>1, <1>2, <1>3, PerformerEndTyped

\* tr_clPerformer09: the performer is told that it failed.
LEMMA PerformerLastTyped ==
    ASSUME TypeInv, NEW d \in Desc, PerformerLast(d)
    PROVE  TypeInv'
BY PerformerEndTyped DEF PerformerLast

\* Every step preserves the types.
LEMMA NextTyped == TypeInv /\ [Next]_vars => TypeInv'
<1> SUFFICES ASSUME TypeInv, [Next]_vars PROVE TypeInv'
  OBVIOUS
<1>1. ASSUME UNCHANGED vars PROVE TypeInv'
  BY <1>1 DEF vars, TypeInv, TypeOK, LiveTyped, PduTyped
<1>2. ASSUME UserStep PROVE TypeInv'
  <2>1. ASSUME NEW op \in Op, InvokeReq(op) PROVE TypeInv'
    BY <2>1, InvokeReqTyped
  <2>2. ASSUME NEW op \in Op, InvokeReqRefused(op) PROVE TypeInv'
    BY <2>2, InvokeReqRefusedTyped
  <2>3. ASSUME NEW d \in Desc, NEW kind \in Reply, ResultReq(d, kind) PROVE TypeInv'
    BY <2>3, AnswerSentTyped, DelaysTyped DEF ResultReq, AnswerState, TimerName
  <2>4. ASSUME NEW d \in Desc, NEW kind \in Reply, ResultReqIgnored(d, kind)
        PROVE  TypeInv'
    BY <2>4, ResultReqIgnoredTyped
  <2> QED
    BY <1>2, <2>1, <2>2, <2>3, <2>4 DEF UserStep
<1>3. ASSUME NEW m \in net, PduStep(m) PROVE TypeInv'
  <2>1. ASSUME PerformerInvokeAgain(m) \/ PduIgnored(m) PROVE TypeInv'
    BY <1>1, <2>1 DEF PerformerInvokeAgain, PduIgnored, IgnorePdu
  <2>2. ASSUME PerformerResend(m) PROVE TypeInv'
    BY <2>2, AnswerAgainTyped DEF PerformerResend, AnswerState
  <2> QED
    BY <1>3, <2>1, <2>2, InvokerResultTyped, InvokerFailureTyped,
       InvokerResultAgainTyped, InvokerRefWaitAgainTyped, ResultPduUnknownTyped,
       PerformerInvokeTyped, InvokePduRefusedTyped, PerformerAckTyped,
       PerformerLateInvokeTyped, PerformerLateAckTyped
    DEF PduStep
<1>4. ASSUME NEW d \in Desc, TimerStep(d) PROVE TypeInv'
  BY <1>4, InvokerRetranTyped, InvokerLastTyped, InvokerInactivityTyped,
     InvokerReleaseTyped, PerformerRetranTyped, PerformerLastTyped,
     PerformerNoResponseTyped, PerformerReleaseTyped, IgnoreTimerTyped
  DEF TimerStep, TimerIgnored
<1> QED
  BY <1>1, <1>2, <1>3, <1>4, RunTaskTyped, TickTyped DEF Next

\* Type correctness of the 3-way handshake: whatever the constants, every
\* InvokeInfo, task, PDU and user variable keeps its type.
THEOREM TypeCorrect == Spec => []TypeOK
<1>1. Init => TypeInv
  BY InitTyped
<1>2. TypeInv /\ [Next]_vars => TypeInv'
  BY NextTyped
<1>3. TypeInv => TypeOK
  BY DEF TypeInv
<1> QED
  BY <1>1, <1>2, <1>3, PTL DEF Spec

-----------------------------------------------------------------------------
(* One outcome.                                                            *)

\* A RESULT or ERROR PDU ends an open invocation.
LEMMA InvokerResultOnce ==
    ASSUME TypeInv, OnceInv, NEW m \in net, NEW kind \in {"result", "error"},
           InvokerResult(m, kind)
    PROVE  OnceInv'
<1>1. m.type \in OpPdu
  BY DEF InvokerResult, Receive, ResultType, OpPdu
<1>2. m.dst \in Node /\ m.op \in Op
  BY <1>1, PduInNet DEF TypeInv, PduTyped
<1>3. PICK ok \in SendOutcome, d \in refToInvoker(m.dst, m.ref, m.src) :
        /\ inv[d].state = "InvokePduSent"
        /\ inv' = [inv EXCEPT
                     ![d].state = "AckPduSent",
                     ![d].invokePdu = relPdu(@),
                     ![d].tmrs = IF ok
                                 THEN tmrCreate({}, "inactivity",
                                                inactivityDelay, 0)
                                 ELSE {}]
        /\ invokerInd(d, kind, m.op)
        /\ asked' = asked
  BY DEF InvokerResult
<1>4. d \in Desc
  BY <1>2, <1>3, MappedInDesc DEF refToInvoker
<1> DEFINE new == [inv[d] EXCEPT !.state = "AckPduSent",
                     !.invokePdu = relPdu(@),
                     !.tmrs = IF ok THEN tmrCreate({}, "inactivity",
                                                   inactivityDelay, 0)
                              ELSE {}]
<1>5. inv' = [inv EXCEPT ![d] = new]
  BY <1>3
<1>6. new.state # "InvokePduSent"
  BY <1>4 DEF TypeInv, TypeOK, InvokeInfo
<1>7. Open(d)
  BY <1>3 DEF Open
<1> HIDE DEF new
<1> QED
  BY <1>2, <1>3, <1>4, <1>5, <1>6, <1>7, IndicatedOnce, ZenonT(60)

\* A repeated RESULT or ERROR PDU, and a late ACK PDU, are quiet.
LEMMA RepeatedPduQuiet ==
    ASSUME TypeInv, NEW m \in net,
           \/ InvokerResultAgain(m) \/ InvokerRefWaitAgain(m)
           \/ PerformerLateAck(m)
    PROVE  Quiet
<1>1. \E d \in Desc : \E ts : inv' = [inv EXCEPT ![d].tmrs = ts]
  <2>1. ASSUME NEW d \in refToInvoker(m.dst, m.ref, m.src) PROVE d \in Desc
    BY PduInNet, MappedInDesc DEF refToInvoker
  <2>2. ASSUME NEW d \in refToPerformer(m.dst, m.ref, m.src) PROVE d \in Desc
    BY PduInNet, MappedInDesc DEF refToPerformer
  <2>3. CASE InvokerResultAgain(m)
    BY <2>1, <2>3 DEF InvokerResultAgain
  <2>4. CASE InvokerRefWaitAgain(m)
    BY <2>1, <2>4 DEF InvokerRefWaitAgain
  <2>5. CASE PerformerLateAck(m)
    BY <2>2, <2>5 DEF PerformerLateAck
  <2> QED
    BY <2>3, <2>4, <2>5
<1>2. ind' = ind /\ asked' = asked
  BY DEF InvokerResultAgain, InvokerRefWaitAgain, PerformerLateAck, userVars
<1> QED
  BY <1>1, <1>2, RetimeQuiet

\* The end of the inactivity time leaves nothing open.
LEMMA InvokerInactivityQuiet ==
    ASSUME TypeInv, NEW d \in Desc, InvokerInactivity(d)
    PROVE  Quiet
<1> DEFINE new == [inv[d] EXCEPT !.state = "InvokerRefWait",
                     !.invokePdu = relPdu(@), !.resultPdu = relPdu(@),
                     !.tmrs = tmrCreate({}, "refNu", refKeepTime, 0)]
<1>1. inv' = [inv EXCEPT ![d] = new]
  BY DEF InvokerInactivity
<1>2. new.state # "InvokePduSent"
  BY DEF TypeInv, TypeOK, InvokeInfo
<1> HIDE DEF new
<1> QED
  BY <1>1, <1>2, UpdateQuiet DEF InvokerInactivity, userVars

\* The retransmission of the answer is quiet.
LEMMA PerformerRetranQuiet ==
    ASSUME TypeInv, NEW d \in Desc, PerformerRetran(d)
    PROVE  Quiet
<1>1. PICK ts : inv' = [inv EXCEPT ![d].tmrs = ts]
  BY DEF PerformerRetran
<1> QED
  BY <1>1, RetimeQuiet DEF PerformerRetran, userVars

\* The end of the performer's part is quiet for the invoking user.
LEMMA PerformerToldQuiet ==
    ASSUME TypeInv,
           \/ \E m \in net : PerformerAck(m)
           \/ \E d \in Desc : PerformerLast(d)
    PROVE  Quiet
<1>1. CASE \E d \in Desc : PerformerLast(d)
  BY <1>1, PerformerEndQuiet DEF PerformerLast
<1>2. CASE \E m \in net : PerformerAck(m)
  <2>0. PICK m \in net : PerformerAck(m)
    BY <1>2
  <2>1. PICK d \in refToPerformer(m.dst, m.ref, m.src) :
          /\ inv' = [inv EXCEPT
                       ![d].state = "PerformerRefWait",
                       ![d].resultPdu = relPdu(@),
                       ![d].tmrs = tmrCreate({}, "refNu", refKeepTime, 0)]
          /\ UNCHANGED <<newRef, net, asked, ind, exec, work, answer>>
    BY <2>0 DEF PerformerAck
  <2>2. d \in Desc
    BY <2>1, PduInNet, MappedInDesc DEF refToPerformer
  <2> QED
    BY <2>1, <2>2, PerformerEndQuiet
<1> QED
  BY <1>1, <1>2

\* Every step preserves the invariant.
LEMMA NextOnce == TypeInv /\ OnceInv /\ [Next]_vars => OnceInv'
<1> SUFFICES ASSUME TypeInv, OnceInv, [Next]_vars PROVE OnceInv'
  OBVIOUS
<1>1. ASSUME UNCHANGED vars PROVE Quiet
  BY <1>1 DEF vars, Quiet, Open
<1>2. ASSUME UserStep PROVE OnceInv'
  <2>1. ASSUME NEW d \in Desc, NEW kind \in Reply, ResultReq(d, kind) PROVE Quiet
    BY <2>1, AnswerSentQuiet DEF ResultReq, AnswerState
  <2>2. ASSUME NEW d \in Desc, NEW kind \in Reply, ResultReqIgnored(d, kind)
        PROVE  Quiet
    BY <2>2 DEF ResultReqIgnored, Quiet, Open
  <2> QED
    BY <1>2, <2>1, <2>2, QuietOnce, InvokeReqOnce, InvokeReqRefusedOnce
    DEF UserStep
<1>3. ASSUME NEW m \in net, PduStep(m) PROVE OnceInv'
  <2>1. ASSUME PerformerInvokeAgain(m) \/ PduIgnored(m) PROVE Quiet
    BY <1>1, <2>1 DEF PerformerInvokeAgain, PduIgnored, IgnorePdu
  <2>2. ASSUME ResultPduUnknown(m) \/ InvokePduRefused(m) PROVE Quiet
    BY <2>2 DEF ResultPduUnknown, InvokePduRefused, Quiet, Open, userVars
  <2>3. ASSUME PerformerResend(m) PROVE Quiet
    BY <2>3, AnswerAgainQuiet DEF PerformerResend
  <2>4. ASSUME PerformerAck(m) PROVE Quiet
    BY <2>4, PerformerToldQuiet
  <2> QED
    BY <1>3, <2>1, <2>2, <2>3, <2>4, QuietOnce, InvokerResultOnce,
       InvokerFailureOnce, RepeatedPduQuiet, PerformerInvokeQuiet,
       PerformerLateInvokeQuiet
    DEF PduStep
<1>4. ASSUME NEW d \in Desc, TimerStep(d) PROVE OnceInv'
  <2>1. ASSUME PerformerLast(d) PROVE Quiet
    BY <2>1, PerformerToldQuiet
  <2> QED
    BY <1>4, <2>1, QuietOnce, InvokerRetranQuiet, InvokerLastOnce,
       InvokerInactivityQuiet, ReleaseQuiet, PerformerRetranQuiet,
       PerformerNoResponseQuiet, IgnoreTimerQuiet
    DEF TimerStep, TimerIgnored
<1> QED
  BY <1>1, <1>2, <1>3, <1>4, QuietOnce, RunTaskQuiet, TickQuiet DEF Next

\* An invocation of the 3-way handshake is answered at most once, for any
\* number of engines, operations and reference numbers and whatever PDUs are
\* lost, repeated or late.
THEOREM AnsweredOnce == Spec => []OutcomeOnce
<1>1. Init => TypeInv /\ OnceInv
  BY InitTyped, InitOnce
<1>2. TypeInv /\ OnceInv /\ [Next]_vars => TypeInv' /\ OnceInv'
  BY NextTyped, NextOnce
<1>3. OnceInv => OutcomeOnce
  BY DEF OnceInv
<1> QED
  BY <1>1, <1>2, <1>3, PTL DEF Spec

-----------------------------------------------------------------------------
(* Reference numbers.                                                      *)

\* The RESULT or ERROR PDU, its repetition and the end of the inactivity time
\* leave the invoker's number in its map.
LEMMA InvokerRefQuiet ==
    ASSUME TypeInv,
           \/ \E m \in net : \/ \E kind \in {"result", "error"} : InvokerResult(m, kind)
                             \/ InvokerResultAgain(m) \/ InvokerRefWaitAgain(m)
           \/ \E d \in Desc : InvokerInactivity(d)
    PROVE  RefQuiet
<1>1. ASSUME NEW m \in net, NEW d \in refToInvoker(m.dst, m.ref, m.src)
      PROVE  d \in Desc
  BY PduInNet, MappedInDesc DEF refToInvoker
<1>2. ASSUME NEW m \in net, NEW kind \in {"result", "error"}, InvokerResult(m, kind)
      PROVE  RefQuiet
  <2>1. PICK d \in refToInvoker(m.dst, m.ref, m.src) : \E ts :
          inv' = [inv EXCEPT ![d].state = "AckPduSent",
                             ![d].invokePdu = relPdu(@), ![d].tmrs = ts]
    BY <1>2 DEF InvokerResult
  <2>2. PICK ts :
          inv' = [inv EXCEPT ![d].state = "AckPduSent",
                             ![d].invokePdu = relPdu(@), ![d].tmrs = ts]
    BY <2>1
  <2>3. d \in Desc
    BY <1>1
  <2> DEFINE new == [inv[d] EXCEPT !.state = "AckPduSent",
                       !.invokePdu = relPdu(@), !.tmrs = ts]
  <2>4. inv' = [inv EXCEPT ![d] = new]
    BY <2>2
  <2>5. KeepsEntry(inv[d], new)
    BY <2>3 DEF KeepsEntry, TypeInv, TypeOK, InvokeInfo
  <2> HIDE DEF new
  <2> QED
    BY <2>3, <2>4, <2>5, UpdateRefQuiet
<1>3. ASSUME NEW m \in net, InvokerResultAgain(m) \/ InvokerRefWaitAgain(m)
      PROVE  RefQuiet
  <2>1. PICK d \in refToInvoker(m.dst, m.ref, m.src) : \E ts :
          inv' = [inv EXCEPT ![d].tmrs = ts]
    BY <1>3 DEF InvokerResultAgain, InvokerRefWaitAgain
  <2> QED
    BY <1>1, <2>1, RetimeRefQuiet
<1>4. ASSUME NEW d \in Desc, InvokerInactivity(d) PROVE RefQuiet
  <2>1. inv' = [inv EXCEPT ![d] = [inv[d] EXCEPT
                  !.state = "InvokerRefWait",
                  !.invokePdu = relPdu(inv[d].invokePdu),
                  !.resultPdu = relPdu(inv[d].resultPdu),
                  !.tmrs = tmrCreate({}, "refNu", refKeepTime, 0)]]
    BY <1>4 DEF InvokerInactivity
  <2> QED
    BY <2>1, ChangeRefQuiet
<1> QED
  BY <1>2, <1>3, <1>4

\* The retransmission, the acknowledgement and the end of the performer's
\* answer leave its number in its map.
LEMMA PerformerRefQuiet ==
    ASSUME TypeInv,
           \/ \E m \in net : PerformerAck(m) \/ PerformerLateAck(m)
           \/ \E d \in Desc : PerformerRetran(d) \/ PerformerLast(d)
    PROVE  RefQuiet
<1>1. ASSUME NEW m \in net, NEW d \in refToPerformer(m.dst, m.ref, m.src)
      PROVE  d \in Desc
  BY PduInNet, MappedInDesc DEF refToPerformer
<1>2. ASSUME NEW m \in net, PerformerAck(m) PROVE RefQuiet
  BY <1>1, <1>2, PerformerEndRefQuiet DEF PerformerAck
<1>3. ASSUME NEW m \in net, PerformerLateAck(m) PROVE RefQuiet
  BY <1>1, <1>3, RetimeRefQuiet DEF PerformerLateAck
<1>4. ASSUME NEW d \in Desc, PerformerRetran(d) PROVE RefQuiet
  <2>1. PICK ts : inv' = [inv EXCEPT ![d].tmrs = ts]
    BY <1>4 DEF PerformerRetran
  <2> QED
    BY <2>1, RetimeRefQuiet
<1>5. ASSUME NEW d \in Desc, PerformerLast(d) PROVE RefQuiet
  BY <1>5, PerformerEndRefQuiet DEF PerformerLast
<1> QED
  BY <1>2, <1>3, <1>4, <1>5

\* Every step preserves the invariant.
LEMMA NextRef == TypeInv /\ RefInv /\ [Next]_vars => RefInv'
<1> SUFFICES ASSUME TypeInv, RefInv, [Next]_vars PROVE RefInv'
  OBVIOUS
<1>1. ASSUME UNCHANGED inv PROVE RefInv'
  BY <1>1, SameRefQuiet, QuietRef
<1>2. ASSUME UserStep PROVE RefInv'
  <2>1. ASSUME NEW d \in Desc, NEW kind \in Reply, ResultReq(d, kind) PROVE RefInv'
    BY <2>1, AnswerSentRef DEF ResultReq, AnswerState
  <2>2. ASSUME NEW d \in Desc, NEW kind \in Reply, ResultReqIgnored(d, kind)
        PROVE  RefInv'
    BY <1>1, <2>2 DEF ResultReqIgnored
  <2>3. ASSUME NEW op \in Op, InvokeReqRefused(op) PROVE RefInv'
    BY <1>1, <2>3 DEF InvokeReqRefused
  <2> QED
    BY <1>2, <2>1, <2>2, <2>3, InvokeReqRef DEF UserStep
<1>3. ASSUME NEW m \in net, PduStep(m) PROVE RefInv'
  <2>1. ASSUME \/ PerformerInvokeAgain(m) \/ PduIgnored(m)
               \/ ResultPduUnknown(m) \/ InvokePduRefused(m)
        PROVE  RefInv'
    BY <1>1, <2>1 DEF PerformerInvokeAgain, PduIgnored, IgnorePdu, vars,
                      ResultPduUnknown, InvokePduRefused
  <2>2. ASSUME PerformerResend(m) PROVE RefQuiet
    BY <2>2, RepeatedInvokeRefQuiet DEF PerformerResend
  <2> QED
    BY <1>3, <2>1, <2>2, QuietRef, InvokerRefQuiet, InvokerFailureRefQuiet,
       PerformerInvokeRefQuiet, PerformerRefQuiet, RepeatedInvokeRefQuiet
    DEF PduStep
<1>4. ASSUME NEW d \in Desc, TimerStep(d) PROVE RefInv'
  BY <1>4, QuietRef, TimerRefQuiet, InvokerRefQuiet, PerformerRefQuiet
  DEF TimerStep, TimerIgnored
<1> QED
  BY <1>1, <1>2, <1>3, <1>4, QuietRef, RunTaskRefQuiet, TickRefQuiet
  DEF Next, vars

\* In the 3-way handshake a reference number names one operation: whatever the
\* number of engines, elements and reference numbers, no map has two entries
\* for the same number and peer.
THEOREM RefsUnique == Spec => []RefUnique
<1>1. Init => TypeInv /\ RefInv
  BY InitTyped, InitRef
<1>2. TypeInv /\ RefInv /\ [Next]_vars => TypeInv' /\ RefInv'
  BY NextTyped, NextRef
<1>3. RefInv => RefUnique
  BY DEF RefInv
<1> QED
  BY <1>1, <1>2, <1>3, PTL DEF Spec

-----------------------------------------------------------------------------
(* Tasks and descriptors.                                                  *)

\* The answer, its repetition and the end of the inactivity time: one
\* indication at most, and no release.
LEMMA InvokerLive ==
    ASSUME TypeInv, LiveInv,
           \/ \E m \in net : \/ \E kind \in {"result", "error"} : InvokerResult(m, kind)
                             \/ InvokerResultAgain(m) \/ InvokerRefWaitAgain(m)
           \/ \E d \in Desc : InvokerInactivity(d)
    PROVE  LiveInv'
<1>1. ASSUME NEW m \in net, NEW d \in refToInvoker(m.dst, m.ref, m.src)
      PROVE  d \in Desc
  BY PduInNet, MappedInDesc DEF refToInvoker
<1>2. ASSUME NEW m \in net, NEW kind \in {"result", "error"}, InvokerResult(m, kind)
      PROVE  LiveInv'
  <2>1. m.type \in OpPdu
    BY <1>2 DEF InvokerResult, Receive, ResultType, OpPdu
  <2>2. m.op \in Op
    BY <2>1, SMTT(40) DEF TypeInv, PduTyped
  <2>3. PICK d \in refToInvoker(m.dst, m.ref, m.src) : \E ts :
          /\ inv[d].state = "InvokePduSent" /\ invokerInd(d, kind, m.op)
          /\ inv' = [inv EXCEPT ![d].state = "AckPduSent",
                                ![d].invokePdu = relPdu(@), ![d].tmrs = ts]
          /\ work' = work
    BY <1>2 DEF InvokerResult
  <2>4. PICK ts :
          inv' = [inv EXCEPT ![d].state = "AckPduSent",
                             ![d].invokePdu = relPdu(@), ![d].tmrs = ts]
    BY <2>3
  <2>5. d \in Desc
    BY <1>1
  <2> DEFINE new == [inv[d] EXCEPT !.state = "AckPduSent",
                       !.invokePdu = relPdu(@), !.tmrs = ts]
  <2>6. inv' = [inv EXCEPT ![d] = new]
    BY <2>4
  <2>7. new.state \notin StartState \cup {"free"}
    BY <2>5 DEF TypeInv, TypeOK, InvokeInfo, StartState
  <2>8. inv[d].state = "InvokePduSent" /\ work' = work
    BY <2>3
  <2>9. PICK op \in Op : op = m.op /\ invokerInd(d, kind, op)
    BY <2>2, <2>3
  <2>10. kind \in {"result", "error", "failure"}
    OBVIOUS
  <2> HIDE DEF new
  <2> QED
    BY <2>5, <2>6, <2>7, <2>8, <2>9, <2>10, InvokerIndLive
<1>3. ASSUME NEW m \in net, InvokerResultAgain(m) \/ InvokerRefWaitAgain(m)
      PROVE  LiveInv'
  <2>1. PICK d \in refToInvoker(m.dst, m.ref, m.src) : \E ts :
          inv' = [inv EXCEPT ![d].tmrs = ts]
    BY <1>3 DEF InvokerResultAgain, InvokerRefWaitAgain
  <2>2. sch' = sch /\ work' = work
    BY <1>3 DEF InvokerResultAgain, InvokerRefWaitAgain, userVars
  <2> QED
    BY <1>1, <2>1, <2>2, RetimeLive
<1>4. ASSUME NEW d \in Desc, InvokerInactivity(d) PROVE LiveInv'
  <2> DEFINE new == [inv[d] EXCEPT !.state = "InvokerRefWait",
                       !.invokePdu = relPdu(@), !.resultPdu = relPdu(@),
                       !.tmrs = tmrCreate({}, "refNu", refKeepTime, 0)]
  <2>1. inv' = [inv EXCEPT ![d] = new]
    BY <1>4 DEF InvokerInactivity
  <2>2. new.state \notin StartState \cup {"free"}
    BY DEF TypeInv, TypeOK, InvokeInfo, StartState
  <2>3. /\ inv[d].state \notin StartState \cup {"free", "InvokePduReceived"}
        /\ sch' = sch /\ work' = work
    BY <1>4 DEF InvokerInactivity, StartState, userVars
  <2> HIDE DEF new
  <2> QED
    BY <2>1, <2>2, <2>3, MoveLive
<1> QED
  BY <1>2, <1>3, <1>4

\* The retransmission, the acknowledgement and the end of the answer.
LEMMA PerformerLive ==
    ASSUME TypeInv, LiveInv,
           \/ \E m \in net : PerformerAck(m) \/ PerformerLateAck(m)
           \/ \E d \in Desc : PerformerRetran(d) \/ PerformerLast(d)
    PROVE  LiveInv'
<1>1. ASSUME NEW m \in net, NEW d \in refToPerformer(m.dst, m.ref, m.src)
      PROVE  d \in Desc
  BY PduInNet, MappedInDesc DEF refToPerformer
<1>2. ASSUME NEW m \in net, PerformerAck(m) PROVE LiveInv'
  <2>1. PICK d \in refToPerformer(m.dst, m.ref, m.src) :
          /\ inv[d].state \in AnswerState
          /\ inv' = [inv EXCEPT
                       ![d].state = "PerformerRefWait",
                       ![d].resultPdu = relPdu(@),
                       ![d].tmrs = tmrCreate({}, "refNu", refKeepTime, 0)]
          /\ performerCnf(d, inv[d].isResult) /\ work' = work
    BY <1>2 DEF PerformerAck, AnswerState
  <2>2. d \in Desc
    BY <1>1
  <2>3. inv[d].isResult \in {"result", "error", "failure"}
    BY <2>2 DEF TypeInv, TypeOK, InvokeInfo
  <2> QED
    BY <2>1, <2>2, <2>3, PerformerEndLive
<1>3. ASSUME NEW m \in net, PerformerLateAck(m) PROVE LiveInv'
  BY <1>1, <1>3, RetimeLive DEF PerformerLateAck, userVars
<1>4. ASSUME NEW d \in Desc, PerformerRetran(d) PROVE LiveInv'
  <2>1. PICK ts : inv' = [inv EXCEPT ![d].tmrs = ts]
    BY <1>4 DEF PerformerRetran
  <2> QED
    BY <1>4, <2>1, RetimeLive DEF PerformerRetran, userVars
<1>5. ASSUME NEW d \in Desc, PerformerLast(d) PROVE LiveInv'
  BY <1>5, PerformerEndLive DEF PerformerLast, AnswerState
<1> QED
  BY <1>2, <1>3, <1>4, <1>5

\* Every step preserves the invariant.
LEMMA NextLive == TypeInv /\ LiveInv /\ [Next]_vars => LiveInv'
<1> SUFFICES ASSUME TypeInv, LiveInv, [Next]_vars PROVE LiveInv'
  OBVIOUS
<1>1. ASSUME UNCHANGED <<inv, sch, work>> PROVE LiveInv'
  BY <1>1, UnchangedLive
<1>2. ASSUME UserStep PROVE LiveInv'
  <2>1. ASSUME NEW d \in Desc, NEW kind \in Reply, ResultReq(d, kind)
        PROVE  LiveInv'
    BY <2>1, AnswerSentLive DEF ResultReq, AnswerState
  <2>2. ASSUME NEW op \in Op, InvokeReqRefused(op) PROVE LiveInv'
    BY <1>1, <2>2 DEF InvokeReqRefused
  <2> QED
    BY <1>2, <2>1, <2>2, InvokeReqLive, ResultReqIgnoredLive DEF UserStep
<1>3. ASSUME NEW m \in net, PduStep(m) PROVE LiveInv'
  <2>1. ASSUME \/ PerformerInvokeAgain(m) \/ PduIgnored(m)
               \/ ResultPduUnknown(m) \/ InvokePduRefused(m)
        PROVE  LiveInv'
    BY <1>1, <2>1 DEF PerformerInvokeAgain, PduIgnored, IgnorePdu, vars,
       userVars, ResultPduUnknown, InvokePduRefused
  <2>2. ASSUME PerformerResend(m) PROVE LiveInv'
    BY <2>2, RepeatedInvokeLive DEF PerformerResend
  <2> QED
    BY <1>3, <2>1, <2>2, InvokerLive, InvokerFailureLive, PerformerInvokeLive,
       PerformerLive, RepeatedInvokeLive
    DEF PduStep
<1>4. ASSUME NEW d \in Desc, TimerStep(d) PROVE LiveInv'
  BY <1>4, RepeatedInvokeLive, InvokerLastLive, InvokerLive, ReleaseLive,
     PerformerLive, PerformerNoResponseLive
  DEF TimerStep, TimerIgnored
<1> QED
  BY <1>1, <1>2, <1>3, <1>4, RunTaskLive, TickLive DEF Next, vars

\* The invariant of the 3-way handshake.
LEMMA AlwaysLive == Spec => [](TypeInv /\ LiveInv)
<1>1. Init => TypeInv /\ LiveInv
  BY InitTyped, InitLive
<1>2. TypeInv /\ LiveInv /\ [Next]_vars => TypeInv' /\ LiveInv'
  BY NextTyped, NextLive
<1> QED
  BY <1>1, <1>2, PTL DEF Spec

\* No task of the scheduler refers to a released InvokeInfo, and none is
\* released twice, whatever the size of the pool and however PDUs and timers
\* interleave with the scheduler.
THEOREM TasksAlive == Spec => []TasksLive
<1>1. TypeInv /\ LiveInv => TasksLive
  BY LiveTasks
<1> QED
  BY <1>1, AlwaysLive, PTL

\* A descriptor the performing user may still answer on is live, or the
\* FAILURE.indication that voids it is ahead of its release.
THEOREM HeldDescsAlive == Spec => []HeldDescLive
<1>1. TypeInv /\ LiveInv => HeldDescLive
  BY DEF LiveInv
<1> QED
  BY <1>1, AlwaysLive, PTL

-----------------------------------------------------------------------------
(* Timers.                                                                 *)

\* The table of the 3-way diagrams.
LEMMA ExpectsTable ==
    /\ TimerTable(Expects)
    /\ Expects["AckPduSent"] \cap TimerName = {"inactivity"}
    /\ Expects["AckPduWait"] \cap TimerName = {"resultPduRetran", "last"}
<1>1. \A s \in State : Expects[s] = InvokerExpects(s) \cup PerformerExpects(s)
  BY DEF Expects
<1> QED
  BY <1>1 DEF TimerTable, TimerName, StartState, State, InvokerState,
     PerformerState, InvokerExpects, PerformerExpects

\* tr_clInvoker04 starts the inactivity timer unless its ACK was not sent.
LEMMA InvokerArmed ==
    ASSUME TypeInv, ArmedInv(Expects),
           \/ \E m \in net : \/ \E kind \in {"result", "error"} : InvokerResult(m, kind)
                             \/ InvokerResultAgain(m) \/ InvokerRefWaitAgain(m)
           \/ \E d \in Desc : InvokerInactivity(d)
    PROVE  ArmedInv(Expects)'
<1>1. ASSUME NEW m \in net, NEW d \in refToInvoker(m.dst, m.ref, m.src)
      PROVE  d \in Desc
  BY PduInNet, MappedInDesc DEF refToInvoker
<1>2. ASSUME NEW m \in net, NEW kind \in {"result", "error"}, InvokerResult(m, kind)
      PROVE  ArmedInv(Expects)'
  <2>1. PICK ok \in SendOutcome, d \in refToInvoker(m.dst, m.ref, m.src) :
          inv' = [inv EXCEPT ![d].state = "AckPduSent",
                             ![d].invokePdu = relPdu(@),
                             ![d].tmrs = IF ok
                                         THEN tmrCreate({}, "inactivity",
                                                        inactivityDelay, 0)
                                         ELSE {}]
    BY <1>2 DEF InvokerResult
  <2>2. PICK ts : ts = IF ok THEN tmrCreate({}, "inactivity",
                                            inactivityDelay, 0)
                       ELSE {}
    OBVIOUS
  <2>3. d \in Desc
    BY <1>1
  <2> DEFINE new == [inv[d] EXCEPT !.state = "AckPduSent",
                       !.invokePdu = relPdu(@), !.tmrs = ts]
  <2>4. inv' = [inv EXCEPT ![d] = new]
    BY <2>1, <2>2
  <2>5. new.state = "AckPduSent" /\ new.tmrs = ts
    BY <2>3 DEF TypeInv, TypeOK, InvokeInfo
  <2> HIDE DEF new
  <2>6. \/ FALSE \in SendOutcome /\ ts = {}
        \/ \E t \in ts : t.name = "inactivity"
    <3>1. ok = TRUE \/ ok = FALSE
      BY ShapeAssumption
    <3>2. CASE ok = TRUE
      <4>1. ts = tmrCreate({}, "inactivity", inactivityDelay, 0)
        BY <2>2, <3>2
      <4>2. \E t \in tmrCreate({}, "inactivity", inactivityDelay, 0) :
              t.name = "inactivity"
        BY CreatedTimer
      <4> QED
        BY <4>1, <4>2
    <3>3. CASE ok = FALSE
      <4>1. FALSE \in SendOutcome
        BY <3>3
      <4>2. ts = {}
        BY <2>2, <3>3
      <4> QED
        BY <4>1, <4>2
    <3> QED
      BY <3>1, <3>2, <3>3
  <2>7. ArmedInfo(new, Expects)
    BY <2>5, <2>6, ExpectsTable DEF ArmedInfo, Timed, AnswerState
  <2> QED
    BY <2>3, <2>4, <2>7, OneArmed
<1>3. ASSUME NEW m \in net, InvokerResultAgain(m) \/ InvokerRefWaitAgain(m)
      PROVE  ArmedInv(Expects)'
  <2>1. PICK d \in refToInvoker(m.dst, m.ref, m.src) :
          \/ /\ inv[d].state = "AckPduSent"
             /\ inv' = [inv EXCEPT ![d].tmrs =
                          tmrRestart(@, "inactivity", inactivityDelay)]
          \/ /\ inv[d].state = "InvokerRefWait"
             /\ inv' = [inv EXCEPT ![d].tmrs =
                          tmrRestart(@, "refNu", refKeepTime)]
    BY <1>3 DEF InvokerResultAgain, InvokerRefWaitAgain
  <2> QED
    BY <1>1, <2>1, RestartArmed, ExpectsTable
<1>4. ASSUME NEW d \in Desc, InvokerInactivity(d) PROVE ArmedInv(Expects)'
  <2>1. inv' = [inv EXCEPT ![d] = [inv[d] EXCEPT
                  !.state = "InvokerRefWait",
                  !.invokePdu = relPdu(inv[d].invokePdu),
                  !.resultPdu = relPdu(inv[d].resultPdu),
                  !.tmrs = tmrCreate({}, "refNu", refKeepTime, 0)]]
    BY <1>4 DEF InvokerInactivity
  <2> QED
    BY <2>1, RefWaitArmed, ExpectsTable
<1> QED
  BY <1>2, <1>3, <1>4

\* tr_clPerformer05 restarts its timer unless no PDU is kept, which is so only
\* for an answer whose number could not be kept.
LEMMA PerformerRetranArmed ==
    ASSUME TypeInv, ArmedInv(Expects), NEW d \in Desc, PerformerRetran(d)
    PROVE  ArmedInv(Expects)'
<1>1. inv[d].state = "AckPduWait"
  BY DEF PerformerRetran
<1>2. PICK t :
        LET rest == inv[d].tmrs \ {t} IN
        \/ inv' = [inv EXCEPT ![d].tmrs = lastTimer(rest)]
        \/ inv' = [inv EXCEPT ![d].tmrs =
                     IF inv[d].resultPdu = <<>> THEN rest
                     ELSE tmrCreate(rest, "resultPduRetran", retransTimeout,
                                    t.datum + 1)]
  BY DEF PerformerRetran
<1>3. PICK ts :
        /\ inv' = [inv EXCEPT ![d].tmrs = ts]
        /\ \/ \E r : ts = lastTimer(r)
           \/ \E r, n : ts = tmrCreate(r, "resultPduRetran", retransTimeout, n)
           \/ inv[d].resultPdu = <<>>
  <2>1. PICK rest : rest = inv[d].tmrs \ {t}
    OBVIOUS
  <2>2. CASE inv' = [inv EXCEPT ![d].tmrs = lastTimer(rest)]
    BY <2>2
  <2>3. CASE inv' = [inv EXCEPT ![d].tmrs =
                       IF inv[d].resultPdu = <<>> THEN rest
                       ELSE tmrCreate(rest, "resultPduRetran", retransTimeout,
                                      t.datum + 1)]
    BY <2>3
  <2> QED
    BY <1>2, <2>1, <2>2, <2>3
<1>4. \/ \E u \in ts : u.name \in {"resultPduRetran", "last"}
      \/ inv[d].resultPdu = <<>>
  BY <1>3, CreatedTimer DEF lastTimer
<1>5. CASE \E u \in ts : u.name \in {"resultPduRetran", "last"}
  BY <1>1, <1>3, <1>5, ExpectsTable, RetimeArmed
<1>6. CASE inv[d].resultPdu = <<>>
  <2>1. inv[d].refMap = "none"
    BY <1>1, <1>6 DEF ArmedInv, ArmedInfo, AnswerState
  <2> DEFINE new == [inv[d] EXCEPT !.tmrs = ts]
  <2>2. new.state = "AckPduWait" /\ new.refMap = "none"
    BY <1>1, <2>1 DEF TypeInv, TypeOK, InvokeInfo
  <2>3. inv' = [inv EXCEPT ![d] = new]
    BY <1>3
  <2> HIDE DEF new
  <2>4. ArmedInfo(new, Expects)
    BY <2>2 DEF ArmedInfo, Timed, AnswerState
  <2> QED
    BY <2>3, <2>4, OneArmed
<1> QED
  BY <1>4, <1>5, <1>6

\* The acknowledgement and the end of the answer.
LEMMA PerformerArmed ==
    ASSUME TypeInv, ArmedInv(Expects),
           \/ \E m \in net : PerformerAck(m) \/ PerformerLateAck(m)
           \/ \E d \in Desc : PerformerLast(d)
    PROVE  ArmedInv(Expects)'
<1>1. ASSUME NEW m \in net, NEW d \in refToPerformer(m.dst, m.ref, m.src)
      PROVE  d \in Desc
  BY PduInNet, MappedInDesc DEF refToPerformer
<1>2. ASSUME NEW m \in net, PerformerAck(m) PROVE ArmedInv(Expects)'
  BY <1>1, <1>2, PerformerEndArmed, ExpectsTable DEF PerformerAck
<1>3. ASSUME NEW m \in net, PerformerLateAck(m) PROVE ArmedInv(Expects)'
  <2>1. PICK d \in refToPerformer(m.dst, m.ref, m.src) :
          /\ inv[d].state = "PerformerRefWait"
          /\ inv' = [inv EXCEPT ![d].tmrs =
                       tmrRestart(@, "refNu", refKeepTime)]
    BY <1>3 DEF PerformerLateAck
  <2> QED
    BY <1>1, <2>1, RestartArmed
<1>4. ASSUME NEW d \in Desc, PerformerLast(d) PROVE ArmedInv(Expects)'
  BY <1>4, PerformerEndArmed, ExpectsTable DEF PerformerLast
<1> QED
  BY <1>2, <1>3, <1>4

\* Every step preserves the invariant.
LEMMA NextArmed ==
    TypeInv /\ LiveInv /\ ArmedInv(Expects) /\ [Next]_vars => ArmedInv(Expects)'
<1> SUFFICES ASSUME TypeInv, LiveInv, ArmedInv(Expects), [Next]_vars
             PROVE  ArmedInv(Expects)'
  OBVIOUS
<1>0. TimerTable(Expects)
  BY ExpectsTable
<1>1. ASSUME UNCHANGED inv PROVE ArmedInv(Expects)'
  BY <1>1, SameArmed
<1>2. ASSUME UserStep PROVE ArmedInv(Expects)'
  <2>1. ASSUME NEW d \in Desc, NEW kind \in Reply, ResultReq(d, kind)
        PROVE  ArmedInv(Expects)'
    BY <1>0, <2>1, AnswerSentArmed, ExpectsTable DEF ResultReq, AnswerState
  <2>2. ASSUME \/ \E op \in Op : InvokeReqRefused(op)
               \/ \E d \in Desc, kind \in Reply : ResultReqIgnored(d, kind)
        PROVE  ArmedInv(Expects)'
    BY <1>1, <2>2 DEF InvokeReqRefused, ResultReqIgnored
  <2> QED
    BY <1>0, <1>2, <2>1, <2>2, InvokeReqArmed DEF UserStep
<1>3. ASSUME NEW m \in net, PduStep(m) PROVE ArmedInv(Expects)'
  <2>1. ASSUME \/ PerformerInvokeAgain(m) \/ PduIgnored(m)
               \/ ResultPduUnknown(m) \/ InvokePduRefused(m)
        PROVE  ArmedInv(Expects)'
    BY <1>1, <2>1 DEF PerformerInvokeAgain, PduIgnored, IgnorePdu, vars,
       ResultPduUnknown, InvokePduRefused
  <2>2. ASSUME PerformerResend(m) \/ PerformerLateInvoke(m)
        PROVE  ArmedInv(Expects)'
    BY <1>0, <2>2, RepeatedInvokeArmed DEF PerformerResend, AnswerState
  <2>3. ASSUME InvokerFailure(m) \/ PerformerInvoke(m) PROVE ArmedInv(Expects)'
    BY <1>0, <2>3, InvokerFailureArmed, PerformerInvokeArmed
  <2> QED
    BY <1>3, <2>1, <2>2, <2>3, InvokerArmed, PerformerArmed DEF PduStep
<1>4. ASSUME NEW d \in Desc, TimerStep(d) PROVE ArmedInv(Expects)'
  <2>1. ASSUME \/ InvokerRetran(d) \/ InvokerLast(d) \/ InvokerRelease(d)
               \/ PerformerRelease(d) \/ PerformerNoResponse(d)
               \/ TimerIgnored(d)
        PROVE  ArmedInv(Expects)'
    BY <1>0, <2>1, InvokerTimerArmed, ReleaseArmed, IgnoreTimerArmed
    DEF TimerIgnored
  <2> QED
    BY <1>4, <2>1, InvokerArmed, PerformerRetranArmed, PerformerArmed
    DEF TimerStep
<1>5. ASSUME NEW n \in Node, RunTask(n) PROVE ArmedInv(Expects)'
  BY <1>0, <1>5, RunTaskArmed
<1>6. ASSUME Tick PROVE ArmedInv(Expects)'
  BY <1>6, TickArmed
<1> QED
  BY <1>1, <1>2, <1>3, <1>4, <1>5, <1>6 DEF Next, vars

\* No InvokeInfo of the 3-way handshake waits for an event that nothing will
\* bring: whatever the constants and whatever is sent, lost or repeated, a
\* timer runs that its state has a transition for, but for the invocation
\* without a number, the answer that could not be kept and the ACK not sent,
\* which wait for ever.
THEOREM TimersArmed == Spec => []TimerArmed
<1>1. Init => ArmedInv(Expects)
  BY InitArmed, ExpectsTable
<1>2. TypeInv /\ LiveInv /\ ArmedInv(Expects) /\ [Next]_vars => ArmedInv(Expects)'
  BY NextArmed
<1>3. ArmedInv(Expects) => TimerArmed
  BY DEF ArmedInv, ArmedInfo, Timed, TimerArmed, Armed, Unnumbered, Unkept,
         Stranded
<1> QED
  BY <1>1, <1>2, <1>3, AlwaysLive, PTL DEF Spec

-----------------------------------------------------------------------------
(* The service.  Where no engine gives a number out twice and a datagram   *)
(* may live at all, every step of the 3-way diagrams serves each operation *)
(* on its own.                                                             *)

\* tr_clInvoker04: the ACK PDU is sent to the performer that answered.
LEMMA InvokerResultServed ==
    ASSUME TypeInv, OnceInv, NEW num, Served(num), NEW m \in net,
           NEW kind \in {"result", "error"}, InvokerResult(m, kind)
    PROVE  Served(num)'
<1>1. PICK ok \in SendOutcome, d \in refToInvoker(m.dst, m.ref, m.src) :
        /\ inv[d].state = "InvokePduSent"
        /\ inv' = [inv EXCEPT
                     ![d].state = "AckPduSent",
                     ![d].invokePdu = relPdu(@),
                     ![d].tmrs = IF ok
                                 THEN tmrCreate({}, "inactivity",
                                                inactivityDelay, 0)
                                 ELSE {}]
        /\ net' = Send(net, PduOf(d[1], inv[d], "ACK", NoOp), ok)
        /\ invokerInd(d, kind, m.op)
  BY DEF InvokerResult
<1>2. PICK ts : ts = IF ok THEN tmrCreate({}, "inactivity", inactivityDelay, 0)
                     ELSE {}
  OBVIOUS
<1>3. d \in Desc
  BY AnswerFound DEF InvokerResult, Receive
<1>4. inv' = [inv EXCEPT ![d] = [inv[d] EXCEPT
                !.state = "AckPduSent", !.invokePdu = relPdu(inv[d].invokePdu),
                !.resultPdu = inv[d].resultPdu, !.tmrs = ts]]
  BY <1>1, <1>2, <1>3 DEF TypeInv, TypeOK, InvokeInfo
<1>8. Moved(d, "AckPduSent", inv[d].resultPdu, ts)
  <2>1. PICK ip : ip = relPdu(inv[d].invokePdu)
    OBVIOUS
  <2> QED
    BY <1>3, <1>4, <2>1, ChangeMoved
<1>5. \A p \in net' : p \in net \/ p = PduOf(d[1], inv[d], "ACK", NoOp)
  BY <1>1 DEF Send
<1>6. /\ UNCHANGED <<newRef, asked, exec, work, answer, cnf>>
      /\ m.type = ResultType(kind)
  BY DEF InvokerResult, Receive
<1>7. "AckPduSent" \in {"AckPduSent", "InvokerRefWait"}
  OBVIOUS
<1> QED
  BY <1>1, <1>8, <1>5, <1>6, <1>7, ResultServed

\* tr_clInvoker07: the invoking user still has the answer.
LEMMA InvokerResultAgainServed ==
    ASSUME TypeInv, NEW num, Served(num), NEW m \in net, InvokerResultAgain(m)
    PROVE  Served(num)'
<1>1. PICK ok \in SendOutcome, d \in refToInvoker(m.dst, m.ref, m.src) :
        /\ inv[d].state = "AckPduSent"
        /\ inv' = [inv EXCEPT ![d].tmrs =
                     tmrRestart(@, "inactivity", inactivityDelay)]
        /\ net' = Send(net, PduOf(d[1], inv[d], "ACK", NoOp), ok)
  BY DEF InvokerResultAgain
<1>2. d \in Desc
  BY PduInNet, MappedInDesc DEF refToInvoker
<1>3. PICK ts : ts = tmrRestart(inv[d].tmrs, "inactivity", inactivityDelay)
  OBVIOUS
<1>4. inv[d].state # "free" /\ inv[d].state \in InvokerState
  BY <1>1 DEF InvokerState
<1>5. ts \in Timers
  BY <1>2, <1>3, <1>4, InUse, TimersTyped, DelaysTyped DEF TimerName
<1>6. PICK op \in Op : op = inv[d].userRef
  BY <1>2, <1>4, RoleOf DEF Served
<1>7. UNCHANGED <<newRef, sch, userVars>>
  BY DEF InvokerResultAgain
<1>8. Fulfilled(op)'
  <2>1. Fulfilled(op)
    BY <1>1, <1>2, <1>4, <1>6 DEF Served, OwnInv, OwnInfo, OwnInvoker
  <2> QED
    BY <1>7, <2>1 DEF Fulfilled, userVars
<1>9. PICK p : p = PduOf(d[1], inv[d], "ACK", NoOp)
  OBVIOUS
<1>10. p.type = "ACK" /\ p.ttl = MaxNSDULifeTime
  BY <1>9 DEF PduOf
<1>11. OwnPdu(p, num)'
  BY <1>2, <1>4, <1>6, <1>8, <1>9, PduOfOwn DEF Served
<1>12. \A q \in net' : \/ q \in net
                       \/ /\ q.type # "INVOKE" /\ OwnPdu(q, num)'
                          /\ q.ttl <= MaxNSDULifeTime
  BY <1>1, <1>9, <1>10, <1>11, NumberAssumption DEF Send
<1>13. \A t \in ts : \/ t \in inv[d].tmrs
                     \/ /\ t.name # "invokePduRetran"
                        /\ inv[d].state \notin PerformerState
  BY <1>1, <1>3, RestartedOnly DEF PerformerState
<1> QED
  BY <1>1, <1>2, <1>3, <1>4, <1>5, <1>7, <1>12, <1>13, RetimeServed

\* tr_clInvoker10: the number is kept, and nobody is told anything.
LEMMA InvokerInactivityServed ==
    ASSUME TypeInv, NEW num, Served(num), NEW d \in Desc, InvokerInactivity(d)
    PROVE  Served(num)'
<1>1. PICK ts : ts = tmrCreate({}, "refNu", refKeepTime, 0)
  OBVIOUS
<1>2. inv' = [inv EXCEPT ![d] = [inv[d] EXCEPT
                !.state = "InvokerRefWait",
                !.invokePdu = relPdu(inv[d].invokePdu),
                !.resultPdu = relPdu(inv[d].resultPdu), !.tmrs = ts]]
  BY <1>1 DEF InvokerInactivity
<1>3. Moved(d, "InvokerRefWait", relPdu(inv[d].resultPdu), ts)
  <2>1. PICK ip, rp : ip = relPdu(inv[d].invokePdu) /\ rp = relPdu(inv[d].resultPdu)
    OBVIOUS
  <2> QED
    BY <1>2, <2>1, ChangeMoved
<1>4. inv[d].state = "AckPduSent" /\ UNCHANGED <<newRef, sch, net, userVars>>
  BY DEF InvokerInactivity
<1>5. WithinKept
  BY <1>3, <1>4, MovedWithin
<1> QED
  BY <1>3, <1>4, <1>5, QuietServed
  DEF State, InvokerState, PerformerState, AnswerState

\* tr_clInvoker09 and tr_clPerformer11: the number is kept longer.
LEMMA RefWaitAgainServed ==
    ASSUME TypeInv, NEW num, Served(num), NEW m \in net,
           InvokerRefWaitAgain(m) \/ PerformerLateAck(m)
    PROVE  Served(num)'
<1>1. PICK d \in refToInvoker(m.dst, m.ref, m.src)
                   \cup refToPerformer(m.dst, m.ref, m.src) :
        /\ inv[d].state \in {"InvokerRefWait", "PerformerRefWait"}
        /\ inv' = [inv EXCEPT ![d].tmrs = tmrRestart(@, "refNu", refKeepTime)]
  BY DEF InvokerRefWaitAgain, PerformerLateAck
<1>2. d \in Desc
  BY PduInNet, MappedInDesc DEF refToInvoker, refToPerformer
<1>3. UNCHANGED <<newRef, net, sch, userVars>>
  BY DEF InvokerRefWaitAgain, PerformerLateAck
<1> QED
  BY <1>1, <1>2, <1>3, RefWaitServed

\* tr_clPerformer05: the retransmission is one of those reckoned with, and so
\* is the time the last timer gives.
LEMMA PerformerRetranServed ==
    ASSUME TypeInv, NEW num, Served(num), NEW d \in Desc, PerformerRetran(d)
    PROVE  Served(num)'
<1>1. PICK t \in Expired(d, "resultPduRetran"), ok \in SendOutcome :
        LET rest == inv[d].tmrs \ {t} IN
        \/ /\ t.datum >= RetransmitCount
           /\ inv' = [inv EXCEPT ![d].tmrs = lastTimer(rest)] /\ net' = net
        \/ /\ ~ (t.datum >= RetransmitCount)
           /\ inv' = [inv EXCEPT ![d].tmrs =
                        IF inv[d].resultPdu = <<>> THEN rest
                        ELSE tmrCreate(rest, "resultPduRetran", retransTimeout,
                                       t.datum + 1)]
           /\ net' = SendKeptResult(d, net, ok)
  BY DEF PerformerRetran
<1>2. PICK rest : rest = inv[d].tmrs \ {t}
  OBVIOUS
<1>3. inv[d].state = "AckPduWait" /\ UNCHANGED <<newRef, sch, userVars>>
  BY DEF PerformerRetran
<1>4. inv[d].state # "free" /\ inv[d].state \in PerformerState
  BY <1>3 DEF PerformerState
<1>5. PICK op \in Op : op = inv[d].userRef
  BY <1>4, RoleOf DEF Served
<1>6. /\ t \in inv[d].tmrs /\ t.name = "resultPduRetran" /\ t.left = 0
      /\ t.datum \in Nat
  BY <1>4, InUse DEF Expired
<1>7. KeptTimer("AckPduWait", op, t)
  BY <1>3, <1>4, <1>5, <1>6 DEF Served, KeptInv, Kept
<1>8. PICK k \in Nat, rt \in Nat, w \in Nat, c \in Nat :
        /\ k = t.datum /\ rt = retransTimeout /\ w = rwait + refKeepTime
        /\ c = RetransmitCount
  BY <1>6, DelaysTyped, NumberAssumption
<1>9. /\ k <= c
      /\ Within(op, t.left + (RetransmitCount - t.datum) * retransTimeout
                      + rwait + refKeepTime)
  BY <1>6, <1>7, <1>8 DEF KeptTimer
<1>10. PICK x \in Int : x = (c - k) * rt
  BY <1>8, RetranTime
<1>11. Within(op, x + w)
  <2>1. x + w = t.left + x + rwait + refKeepTime
    BY <1>6, <1>8, <1>10, DelaysTyped
  <2> QED
    BY <1>8, <1>9, <1>10, <2>1
<1>12. rest \in Timers
  BY <1>2, <1>4, InUse DEF Timers
<1>13. CASE /\ k >= c
            /\ inv' = [inv EXCEPT ![d].tmrs = lastTimer(rest)] /\ net' = net
  <2>1. PICK ts : ts = lastTimer(rest)
    OBVIOUS
  <2>2. ts \in Timers
    <3>1. "last" \in TimerName /\ 0 \in Nat
      BY DEF TimerName
    <3> QED
      BY <1>12, <2>1, <3>1, TimersTyped
  <2>3. x = 0
    <3>1. c - k = 0
      BY <1>9, <1>13
    <3> QED
      BY <1>10, <3>1
  <2>4. ASSUME NEW u \in ts
        PROVE  u \in inv[d].tmrs \/ (u.name = "last" /\ u.left = rwait)
    BY <1>2, <2>1, <2>4, CreatedOnly DEF lastTimer
  <2>5. \A u \in ts : \/ u \in inv[d].tmrs
                      \/ /\ u.name # "invokePduRetran"
                         /\ KeptTimer("AckPduWait", op, u)
    <3>1. Within(op, rwait + refKeepTime)
      BY <1>8, <1>11, <2>3
    <3> QED
      BY <2>4, <3>1 DEF KeptTimer
  <2>6. inv' = [inv EXCEPT ![d].tmrs = ts]
    BY <1>13, <2>1
  <2>7. \A u \in ts : \/ u \in inv[d].tmrs
                      \/ /\ u.name # "invokePduRetran"
                         /\ inv[d].state \in PerformerState =>
                              KeptTimer(inv[d].state, inv[d].userRef, u)
    BY <1>3, <1>5, <2>5
  <2>8. \A m \in net' : m \in net
    BY <1>13
  <2> QED
    BY <1>3, <1>4, <2>2, <2>6, <2>7, <2>8, RetimeServed
<1>14. CASE /\ ~ (k >= c)
            /\ inv' = [inv EXCEPT ![d].tmrs =
                         IF inv[d].resultPdu = <<>> THEN rest
                         ELSE tmrCreate(rest, "resultPduRetran",
                                        retransTimeout, t.datum + 1)]
            /\ net' = SendKeptResult(d, net, ok)
  <2>1. PICK ts : ts = IF inv[d].resultPdu = <<>> THEN rest
                       ELSE tmrCreate(rest, "resultPduRetran", retransTimeout,
                                      t.datum + 1)
    OBVIOUS
  <2>2. ts \in Timers
    <3>1. tmrCreate(rest, "resultPduRetran", retransTimeout, t.datum + 1) \in Timers
      <4>1. t.datum + 1 \in Nat /\ "resultPduRetran" \in TimerName
        BY <1>6 DEF TimerName
      <4> QED
        BY <1>12, <4>1, TimersTyped, DelaysTyped
    <3>2. CASE inv[d].resultPdu = <<>>
      BY <1>12, <2>1, <3>2
    <3>3. CASE inv[d].resultPdu # <<>>
      BY <2>1, <3>1, <3>3
    <3> QED
      BY <3>2, <3>3
  <2>3. ASSUME NEW u \in ts, u \notin inv[d].tmrs
        PROVE  /\ u.name = "resultPduRetran" /\ u.left = retransTimeout
               /\ u.datum = t.datum + 1
    BY <1>2, <2>1, <2>3, CreatedOnly
  <2>4. ASSUME NEW u \in ts, u \notin inv[d].tmrs
        PROVE  KeptTimer("AckPduWait", op, u)
    <3>1. u.name = "resultPduRetran" /\ u.left = rt /\ u.datum = k + 1
      BY <1>8, <2>3, <2>4
    <3>2. PICK y \in Int : y = (RetransmitCount - u.datum) * retransTimeout
      BY <1>8, <3>1, RetranTime
    <3>3. y + rt = x
      BY <1>8, <1>10, <3>1, <3>2, RetranTime
    <3>4. u.left + y + rwait + refKeepTime = x + w
      BY <1>8, <3>1, <3>3, DelaysTyped
    <3>5. Within(op, u.left + (RetransmitCount - u.datum) * retransTimeout
                       + rwait + refKeepTime)
      BY <1>11, <3>2, <3>4
    <3>6. u.datum <= RetransmitCount
      BY <1>8, <1>14, <3>1
    <3> QED
      BY <3>1, <3>5, <3>6 DEF KeptTimer
  <2>5. \A u \in ts : \/ u \in inv[d].tmrs
                      \/ /\ u.name # "invokePduRetran"
                         /\ KeptTimer("AckPduWait", op, u)
    BY <2>3, <2>4
  <2>6. inv' = [inv EXCEPT ![d].tmrs = ts]
    BY <1>14, <2>1
  <2>7. \A m \in net' : \/ m \in net
                        \/ /\ m.type # "INVOKE" /\ OwnPdu(m, num)'
                           /\ m.ttl <= MaxNSDULifeTime
    BY <1>3, <1>4, <1>14, SendKeptOwn DEF Served, userVars
  <2>8. \A u \in ts : \/ u \in inv[d].tmrs
                      \/ /\ u.name # "invokePduRetran"
                         /\ inv[d].state \in PerformerState =>
                              KeptTimer(inv[d].state, inv[d].userRef, u)
    BY <1>3, <1>5, <2>5
  <2> QED
    BY <1>3, <1>4, <2>2, <2>6, <2>7, <2>8, RetimeServed
<1> QED
  BY <1>1, <1>2, <1>8, <1>13, <1>14

\* tr_clPerformer03: an ACK PDU finds a performer whose answer the invoking
\* user has.
LEMMA PerformerAcked ==
    ASSUME TypeInv, OnceInv, NEW num, Served(num), NEW m \in net,
           PerformerAck(m)
    PROVE  \E d \in Desc :
             /\ inv[d].state = "AckPduWait" /\ Fulfilled(inv[d].userRef)
             /\ inv' = [inv EXCEPT
                          ![d].state = "PerformerRefWait",
                          ![d].resultPdu = relPdu(@),
                          ![d].tmrs = tmrCreate({}, "refNu", refKeepTime, 0)]
             /\ performerCnf(d, inv[d].isResult)
             /\ inv[d].isResult \in {"result", "error"}
             /\ UNCHANGED <<newRef, net, asked, ind, exec, work, answer>>
<1>1. PICK d \in refToPerformer(m.dst, m.ref, m.src) :
        /\ m.type = "ACK" /\ inv[d].state = "AckPduWait"
        /\ inv' = [inv EXCEPT
                     ![d].state = "PerformerRefWait",
                     ![d].resultPdu = relPdu(@),
                     ![d].tmrs = tmrCreate({}, "refNu", refKeepTime, 0)]
        /\ performerCnf(d, inv[d].isResult)
  BY DEF PerformerAck, Receive
<1>2. d \in Desc /\ Fulfilled(inv[d].userRef)
  BY <1>1, FindAcked DEF Served
<1>3. inv[d].isResult \in {"result", "error"}
  BY <1>2 DEF TypeInv, TypeOK, InvokeInfo
<1> QED
  BY <1>1, <1>2, <1>3 DEF PerformerAck

\* No INVOKE PDU is sent any more, and the number is kept longer than one may
\* be in transit.
LEMMA PerformerAckServed ==
    ASSUME TypeInv, OnceInv, NEW num, Served(num), MaxNSDULifeTime >= 1,
           NEW m \in net, PerformerAck(m)
    PROVE  Served(num)'
<1>1. PICK d \in Desc :
        /\ inv[d].state = "AckPduWait" /\ Fulfilled(inv[d].userRef)
        /\ inv' = [inv EXCEPT
                     ![d].state = "PerformerRefWait",
                     ![d].resultPdu = relPdu(@),
                     ![d].tmrs = tmrCreate({}, "refNu", refKeepTime, 0)]
        /\ performerCnf(d, inv[d].isResult)
        /\ inv[d].isResult \in {"result", "error"}
        /\ UNCHANGED <<newRef, net, asked, ind, exec, work, answer>>
  BY PerformerAcked
<1>2. inv[d].userRef \in Op /\ inv[d].state \in AnswerState
  BY <1>1, RoleOf DEF Served, AnswerState
<1>3. ind[inv[d].userRef] # <<>>
  BY <1>1 DEF Fulfilled
<1>4. Within(inv[d].userRef, MaxNSDULifeTime + 1)
  BY <1>2, <1>3, ToldWithin DEF Served
<1>5. Within(inv[d].userRef, refKeepTime)
  BY <1>2, <1>4, LongEnough, WithinLonger, NumberAssumption
<1> QED
  BY <1>1, <1>2, <1>5, PerformerEndServed

\* tr_clPerformer09: the last timer gave the invoker time enough.
LEMMA PerformerLastServed ==
    ASSUME TypeInv, NEW num, Served(num), NEW d \in Desc, PerformerLast(d)
    PROVE  Served(num)'
<1>1. /\ inv[d].state = "AckPduWait"
      /\ inv' = [inv EXCEPT
                   ![d].state = "PerformerRefWait",
                   ![d].resultPdu = relPdu(@),
                   ![d].tmrs = tmrCreate({}, "refNu", refKeepTime, 0)]
      /\ performerCnf(d, "failure")
      /\ UNCHANGED <<newRef, net, asked, ind, exec, work, answer>>
  BY DEF PerformerLast
<1>2. inv[d].state \in AnswerState /\ inv[d].state \in PerformerState
  BY <1>1 DEF AnswerState, PerformerState
<1>3. PICK t \in inv[d].tmrs : t.name = "last" /\ t.left = 0
  BY DEF PerformerLast, Expired
<1>4. KeptTimer("AckPduWait", inv[d].userRef, t)
  BY <1>1, <1>2 DEF Served, KeptInv, Kept
<1>5. Within(inv[d].userRef, refKeepTime)
  <2>1. 0 + refKeepTime = refKeepTime
    BY DelaysTyped
  <2> QED
    BY <1>3, <1>4, <2>1 DEF KeptTimer
<1> QED
  BY <1>1, <1>2, <1>5, PerformerEndServed

\* tr_clPerformer02: the retransmissions of the answer take longer than those
\* of the INVOKE PDU.
LEMMA ResultReqServed ==
    ASSUME TypeInv, LiveInv, NEW num, Served(num), MaxNSDULifeTime >= 1,
           NEW d \in Desc, NEW kind \in Reply, ResultReq(d, kind)
    PROVE  Served(num)'
<1>1. LongTimer("AckPduWait", "resultPduRetran", retransTimeout)
  <2> SUFFICES ASSUME NEW op \in Op, NEW t, Within(op, Horizon),
                      t.name = "resultPduRetran", t.left = retransTimeout,
                      t.datum = 0
               PROVE  KeptTimer("AckPduWait", op, t)
    BY DEF LongTimer
  <2>1. Within(op, retransTimeout + RetransmitCount * retransTimeout
                     + rwait + refKeepTime)
    BY LongEnough, WithinLonger
  <2>2. RetransmitCount - 0 = RetransmitCount /\ 0 <= RetransmitCount
    BY NumberAssumption
  <2> QED
    BY <2>1, <2>2 DEF KeptTimer
<1>2. /\ "AckPduWait" \in AnswerState
      /\ "resultPduRetran" \in TimerName \ {"perfNoResponse"}
  BY DEF AnswerState, TimerName
<1>3. /\ AnswerSent(d, kind, "AckPduWait", "resultPduRetran", retransTimeout)
      /\ retransTimeout \in Nat
  BY DelaysTyped, Zenon DEF ResultReq
<1> QED
  BY <1>1, <1>2, <1>3, AnswerSentServed, Zenon

\* The failure of an open invocation is its outcome.
LEMMA FailureMapped ==
    ASSUME TypeInv, OnceInv, NEW num, Served(num), NEW d \in Desc, Open(d),
           invokerInd(d, "failure", inv[d].userRef),
           UNCHANGED <<asked, exec, answer, cnf>>
    PROVE  \E op \in Op : Service!Indicate(op, "failure")
<1>1. PICK op \in asked :
        /\ op = inv[d].userRef /\ ind[op] = <<>>
        /\ ind' = [ind EXCEPT ![op] = <<[kind |-> "failure", op |-> op]>>]
  BY OutcomeIndicated, Zenon
<1>2. op \in Op
  BY DEF TypeInv, TypeOK
<1> QED
  BY <1>1, <1>2 DEF Service!Indicate

\* Every step preserves the invariant; a request adds its number.
LEMMA NextServed ==
    ASSUME NoReuse, MaxNSDULifeTime >= 1, TypeInv, OnceInv, LiveInv,
           NEW num, Served(num), [Next]_vars
    PROVE  \E new : Served(new)'
<1>1. ASSUME UNCHANGED vars PROVE Served(num)'
  BY <1>1, UnchangedServed
<1>2. ASSUME UserStep PROVE \E new : Served(new)'
  <2>1. ASSUME NEW op \in Op, InvokeReq(op) PROVE \E new : Served(new)'
    BY <2>1, InvokeReqServed
  <2>2. ASSUME NEW op \in Op, InvokeReqRefused(op) PROVE Served(num)'
    BY <2>2, InvokeReqRefusedServed
  <2>3. ASSUME NEW d \in Desc, NEW kind \in Reply, ResultReq(d, kind)
        PROVE  Served(num)'
    BY <2>3, ResultReqServed
  <2>4. ASSUME NEW d \in Desc, NEW kind \in Reply, ResultReqIgnored(d, kind)
        PROVE  Served(num)'
    BY <2>4, ResultReqIgnoredServed
  <2> QED
    BY <1>2, <2>1, <2>2, <2>3, <2>4 DEF UserStep
<1>3. ASSUME NEW m \in net, PduStep(m) PROVE Served(num)'
  <2>1. ASSUME NEW kind \in {"result", "error"}, InvokerResult(m, kind)
        PROVE  Served(num)'
    BY <2>1, InvokerResultServed
  <2>2. ASSUME InvokerFailure(m) PROVE Served(num)'
    BY <2>2, InvokerFailedServed
  <2>3. ASSUME InvokerResultAgain(m) PROVE Served(num)'
    BY <2>3, InvokerResultAgainServed
  <2>4. ASSUME InvokerRefWaitAgain(m) \/ PerformerLateAck(m) PROVE Served(num)'
    BY <2>4, RefWaitAgainServed
  <2>5. ASSUME ResultPduUnknown(m) \/ InvokePduRefused(m) PROVE Served(num)'
    BY <2>5, RefusedServed
  <2>6. ASSUME PerformerInvoke(m) PROVE Served(num)'
    BY <2>6, PerformerInvokeServed
  <2>7. ASSUME PerformerInvokeAgain(m) \/ PduIgnored(m) PROVE Served(num)'
    BY <1>1, <2>7 DEF PerformerInvokeAgain, PduIgnored, IgnorePdu
  <2>8. ASSUME PerformerResend(m) PROVE Served(num)'
    <3>1. "AckPduWait" \in AnswerState /\ AnswerAgain(m, "AckPduWait")
      BY <2>8 DEF AnswerState, PerformerResend
    <3> QED
      BY <3>1, AnswerAgainServed
  <2>9. ASSUME PerformerAck(m) PROVE Served(num)'
    BY <2>9, PerformerAckServed
  <2>10. ASSUME PerformerLateInvoke(m) PROVE Served(num)'
    BY <2>10, PerformerLateInvokeServed
  <2> QED
    BY <1>3, <2>1, <2>2, <2>3, <2>4, <2>5, <2>6, <2>7, <2>8, <2>9, <2>10
    DEF PduStep
<1>4. ASSUME NEW d \in Desc, TimerStep(d) PROVE Served(num)'
  <2>1. ASSUME InvokerRetran(d) PROVE Served(num)'
    BY <2>1, InvokerRetranServed
  <2>2. ASSUME InvokerLast(d) PROVE Served(num)'
    BY <2>2, InvokerFailedServed
  <2>3. ASSUME InvokerInactivity(d) PROVE Served(num)'
    BY <2>3, InvokerInactivityServed
  <2>4. ASSUME InvokerRelease(d) \/ PerformerRelease(d) PROVE Served(num)'
    BY <2>4, ReleaseServed
  <2>5. ASSUME PerformerRetran(d) PROVE Served(num)'
    BY <2>5, PerformerRetranServed
  <2>6. ASSUME PerformerLast(d) PROVE Served(num)'
    BY <2>6, PerformerLastServed
  <2>7. ASSUME PerformerNoResponse(d) PROVE Served(num)'
    BY <2>7, PerformerNoResponseServed
  <2>8. ASSUME TimerIgnored(d) PROVE Served(num)'
    BY <2>8, IgnoreTimerServed DEF TimerIgnored
  <2> QED
    BY <1>4, <2>1, <2>2, <2>3, <2>4, <2>5, <2>6, <2>7, <2>8 DEF TimerStep
<1>5. ASSUME NEW n \in Node, RunTask(n) PROVE Served(num)'
  BY <1>5, RunTaskServed
<1>6. ASSUME Tick PROVE Served(num)'
  BY <1>6, TickServed
<1> QED
  BY <1>1, <1>2, <1>3, <1>4, <1>5, <1>6 DEF Next

\* What the service does when a user asks or answers.
LEMMA UserStepMapped ==
    ASSUME TypeInv, OnceInv, LiveInv, NEW num, Served(num), UserStep
    PROVE  Service!AbsNext
<1>1. ASSUME NEW op \in Op, InvokeReq(op) PROVE Service!Request(op)
  BY <1>1 DEF InvokeReq, Service!Request
<1>2. ASSUME NEW op \in Op, InvokeReqRefused(op) PROVE Service!Decline(op)
  <2>1. ind[op] = <<>> /\ op \notin asked
    BY <1>2 DEF InvokeReqRefused, OnceInv, UnaskedUntold
  <2>2. Append(<<>>, [kind |-> "refused", op |-> op])
          = <<[kind |-> "refused", op |-> op]>>
    OBVIOUS
  <2>3. ind' = [ind EXCEPT ![op] = <<[kind |-> "refused", op |-> op]>>]
    BY <1>2, <2>1, <2>2 DEF InvokeReqRefused
  <2> QED
    BY <1>2, <2>1, <2>3 DEF InvokeReqRefused, Service!Decline
<1>3. ASSUME NEW d \in Desc, NEW kind \in Reply,
             ResultReq(d, kind) \/ ResultReqIgnored(d, kind)
      PROVE  /\ work[d] \in Op /\ kind \in {"result", "error"}
             /\ Service!Answer(work[d], kind)
  <2>1. /\ work[d] # NoOp /\ UNCHANGED <<asked, exec, ind, cnf>>
        /\ answer' = [answer EXCEPT ![work[d]] = @ \cup {kind}]
    BY <1>3 DEF ResultReq, AnswerSent, ResultReqIgnored
  <2> QED
    BY <2>1, AnsweredFirst, ShapeAssumption DEF Service!Answer
<1> QED
  BY <1>1, <1>2, <1>3 DEF UserStep, Service!AbsNext

\* A PDU brings the operation to its performer, the answer or a failure to the
\* invoking user, or the acknowledgement to the performing user.
LEMMA PduStepMapped ==
    ASSUME TypeInv, OnceInv, LiveInv, NEW num, Served(num),
           NEW m \in net, PduStep(m)
    PROVE  Service!AbsNext \/ UNCHANGED Service!absVars
<1>1. ASSUME NEW kind \in {"result", "error"}, InvokerResult(m, kind)
      PROVE  m.op \in Op /\ Service!Indicate(m.op, kind)
  <2>1. PICK d \in refToInvoker(m.dst, m.ref, m.src) :
          inv[d].state = "InvokePduSent" /\ invokerInd(d, kind, m.op)
    BY <1>1 DEF InvokerResult
  <2>2. m.type = ResultType(kind) /\ UNCHANGED <<asked, exec, answer, cnf>>
    BY <1>1 DEF InvokerResult, Receive
  <2>3. /\ d \in Desc /\ m.op = inv[d].userRef /\ m.op \in Op
        /\ kind \in answer[m.op] /\ Open(d)
    BY <2>1, <2>2, AnswerFound DEF Open
  <2>4. invokerInd(d, kind, inv[d].userRef)
    BY <2>1, <2>3
  <2>5. PICK op \in asked :
          /\ op = inv[d].userRef /\ ind[op] = <<>>
          /\ ind' = [ind EXCEPT ![op] = <<[kind |-> kind, op |-> op]>>]
    BY <2>3, <2>4, OutcomeIndicated, Zenon
  <2> QED
    BY <2>2, <2>3, <2>5 DEF Service!Indicate
<1>2. ASSUME InvokerFailure(m)
      PROVE  \E op \in Op : Service!Indicate(op, "failure")
  <2>1. PICK d \in refToInvoker(m.dst, m.ref, m.src) :
          /\ inv[d].state = "InvokePduSent"
          /\ invokerInd(d, "failure", inv[d].userRef)
    BY <1>2 DEF InvokerFailure, FailOperation
  <2>2. UNCHANGED <<asked, exec, answer, cnf>>
    BY <1>2 DEF InvokerFailure, FailOperation
  <2>3. d \in Desc /\ Open(d)
    BY <2>1, PduInNet, MappedInDesc DEF refToInvoker, Open
  <2> QED
    BY <2>1, <2>2, <2>3, FailureMapped
<1>3. ASSUME PerformerInvoke(m) PROVE m.op \in Op /\ Service!Perform(m.op)
  BY <1>3, PerformedFirst DEF PerformerInvoke, Service!Perform
<1>4. ASSUME PerformerAck(m)
      PROVE  \E op \in Op, kind \in {"result", "error"} : Service!Tell(op, kind)
  <2>1. PICK d \in Desc :
          /\ inv[d].state = "AckPduWait" /\ Fulfilled(inv[d].userRef)
          /\ performerCnf(d, inv[d].isResult)
          /\ inv[d].isResult \in {"result", "error"}
          /\ UNCHANGED <<newRef, net, asked, ind, exec, work, answer>>
    BY <1>4, PerformerAcked
  <2>2. PICK op, kind : op = inv[d].userRef /\ kind = inv[d].isResult
    OBVIOUS
  <2>3. inv[d].state \in AnswerState
    BY <2>1 DEF AnswerState
  <2>4. cnf' = [cnf EXCEPT ![inv[d].userRef] = Append(@, kind)]
    BY <2>1, <2>2 DEF performerCnf
  <2>5. /\ op \in Op /\ exec[op] = 1 /\ cnf[op] = <<>>
        /\ cnf' = [cnf EXCEPT ![op] = <<kind>>] /\ answer[op] = {kind}
    BY <2>2, <2>3, <2>4, ToldFirst
  <2>6. ind[op] = <<[kind |-> kind, op |-> op]>>
    BY <2>1, <2>2, <2>5 DEF Fulfilled
  <2>7. kind \in {"result", "error"} /\ UNCHANGED <<asked, exec, answer, ind>>
    BY <2>1, <2>2
  <2> QED
    BY <2>5, <2>6, <2>7 DEF Service!Tell
<1>5. ASSUME \/ InvokerResultAgain(m) \/ InvokerRefWaitAgain(m)
             \/ ResultPduUnknown(m) \/ InvokePduRefused(m)
             \/ PerformerInvokeAgain(m) \/ PerformerResend(m)
             \/ PerformerLateInvoke(m) \/ PerformerLateAck(m) \/ PduIgnored(m)
      PROVE  UNCHANGED Service!absVars
  BY <1>5 DEF InvokerResultAgain, InvokerRefWaitAgain, ResultPduUnknown,
     InvokePduRefused, PerformerInvokeAgain, PerformerResend, AnswerAgain,
     PerformerLateInvoke, PerformerLateAck, PduIgnored, IgnorePdu, vars,
     userVars, Service!absVars
<1> QED
  BY <1>1, <1>2, <1>3, <1>4, <1>5 DEF PduStep, Service!AbsNext

\* A timer reports a failure to one of the users, or nothing.
LEMMA TimerStepMapped ==
    ASSUME TypeInv, OnceInv, NEW num, Served(num), NEW d \in Desc, TimerStep(d)
    PROVE  Service!AbsNext \/ UNCHANGED Service!absVars
<1>1. ASSUME InvokerLast(d)
      PROVE  \E op \in Op : Service!Indicate(op, "failure")
  BY <1>1, FailureMapped DEF InvokerLast, Open
<1>2. ASSUME PerformerLast(d) \/ PerformerNoResponse(d)
      PROVE  \E op \in Op : Service!Tell(op, "failure")
  <2>1. /\ inv[d].state \in {"InvokePduReceived"} \cup AnswerState
        /\ cnf' = [cnf EXCEPT ![inv[d].userRef] = Append(@, "failure")]
        /\ UNCHANGED <<asked, exec, answer, ind>>
    BY <1>2 DEF PerformerLast, performerCnf, PerformerNoResponse, AnswerState
  <2> QED
    BY <2>1, ToldFirst DEF Service!Tell
<1>3. ASSUME \/ InvokerRetran(d) \/ InvokerInactivity(d) \/ InvokerRelease(d)
             \/ PerformerRetran(d) \/ PerformerRelease(d) \/ TimerIgnored(d)
      PROVE  UNCHANGED Service!absVars
  BY <1>3 DEF InvokerRetran, InvokerInactivity, InvokerRelease,
     PerformerRetran, PerformerRelease, TimerIgnored, IgnoreTimer, userVars,
     Service!absVars
<1> QED
  BY <1>1, <1>2, <1>3 DEF TimerStep, Service!AbsNext

\* Every step of the engines is a step of the service, or none.
LEMMA NextMapped ==
    ASSUME TypeInv, OnceInv, LiveInv, NEW num, Served(num), [Next]_vars
    PROVE  [Service!AbsNext]_Service!absVars
<1>1. ASSUME UserStep PROVE Service!AbsNext
  BY <1>1, UserStepMapped
<1>2. ASSUME NEW m \in net, PduStep(m)
      PROVE  Service!AbsNext \/ UNCHANGED Service!absVars
  BY <1>2, PduStepMapped
<1>3. ASSUME NEW d \in Desc, TimerStep(d)
      PROVE  Service!AbsNext \/ UNCHANGED Service!absVars
  BY <1>3, TimerStepMapped
<1>4. ASSUME (\E n \in Node : RunTask(n)) \/ Tick \/ UNCHANGED vars
      PROVE  UNCHANGED Service!absVars
  BY <1>4 DEF RunTask, Tick, vars, userVars, Service!absVars
<1> QED
  BY <1>1, <1>2, <1>3, <1>4 DEF Next

\* Every reachable state serves each operation on its own.
LEMMA AlwaysServed ==
    ASSUME NoReuse, MaxNSDULifeTime >= 1
    PROVE  Spec => [](TypeInv /\ OnceInv /\ LiveInv /\ \E num : Served(num))
<1> DEFINE Inv == TypeInv /\ OnceInv /\ LiveInv /\ \E num : Served(num)
<1>1. Init => Inv
  BY InitTyped, InitOnce, InitLive, InitServed
<1>2. Inv /\ [Next]_vars => Inv'
  <2> SUFFICES ASSUME Inv, [Next]_vars PROVE Inv'
    OBVIOUS
  <2>1. PICK num : Served(num)
    OBVIOUS
  <2>2. \E new : Served(new)'
    BY <2>1, NextServed
  <2>3. (\E new : Served(new))'
    BY <2>2
  <2> QED
    BY <2>3, NextTyped, NextOnce, NextLive
<1> HIDE DEF Inv
<1>3. Spec => []Inv
  BY <1>1, <1>2, PTL DEF Spec
<1> QED
  BY <1>3 DEF Inv

\* Where no engine gives a reference number out twice, an InvokeInfo of the
\* 3-way handshake that waits for an event that nothing will bring is one whose
\* ACK could not be sent: every invocation has its number and every answer
\* keeps it.
THEOREM OnlyStranded ==
    ASSUME NoReuse, MaxNSDULifeTime >= 1
    PROVE  Spec => [](\A d \in Desc :
             Armed(d, Expects) \/ (FALSE \in SendOutcome /\ Stranded(d)))
<1> DEFINE Known == \E num : Served(num)
           ArmedUnless == \A d \in Desc :
             Armed(d, Expects) \/ (FALSE \in SendOutcome /\ Stranded(d))
<1>1. Known /\ TimerArmed => ArmedUnless
  BY ServedNumbered DEF TimerArmed
<1>2. Spec => []TimerArmed
  BY TimersArmed
<1>3. Spec => [](TypeInv /\ OnceInv /\ LiveInv /\ Known)
  BY AlwaysServed
<1> HIDE DEF Known, ArmedUnless
<1>4. Spec => []ArmedUnless
  BY <1>1, <1>2, <1>3, PTL
<1> QED
  BY <1>4 DEF ArmedUnless

\* The 3-way handshake implements the ESRO service: an operation is performed
\* at most once, its user hears one outcome, the performing user's own answer
\* or a failure, and a confirmation says that the invoking user has the
\* answer.  So it is for any number of engines, elements and operations and
\* any times, as long as no engine gives a reference number out twice and a
\* datagram may live for a unit of time.
THEOREM Implemented3Way ==
    ASSUME NoReuse, MaxNSDULifeTime >= 1
    PROVE  Spec => Implements3Way
<1> DEFINE Inv == TypeInv /\ OnceInv /\ LiveInv /\ \E num : Served(num)
<1>1. Spec => []Inv
  BY AlwaysServed
<1>2. Inv /\ [Next]_vars => [Service!AbsNext]_Service!absVars
  <2> SUFFICES ASSUME Inv, [Next]_vars PROVE [Service!AbsNext]_Service!absVars
    OBVIOUS
  <2>1. PICK num : Served(num)
    OBVIOUS
  <2> QED
    BY <2>1, NextMapped
<1>3. Init => Service!AbsInit
  BY DEF Init, Service!AbsInit
<1> HIDE DEF Inv
<1> QED
  BY <1>1, <1>2, <1>3, PTL DEF Spec, Implements3Way, Service!AbsSpec
=============================================================================
