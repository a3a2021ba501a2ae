------------------------------ MODULE Erop3Way ------------------------------
(***************************************************************************)
(* The 3-way handshake of ESROS: INVOKE, RESULT or ERROR, ACK.  One action *)
(* per transition of the CL-Invoker diagram (clinvktd.c, invokact.c) and   *)
(* of the CL-Performer diagram (clperftd.c, perfact.c).  FSM_runMachine    *)
(* enters the next state whatever the action function returns, so an early *)
(* `return FAIL' skips the rest of the function and not the state change.  *)
(***************************************************************************)
EXTENDS EropEngine

-----------------------------------------------------------------------------
(* CL-Invoker: InvokeReq (01), InvokerRetran (02), InvokerLast (03),       *)
(* InvokerFailure (05) and InvokerRelease (08) are EropEngine's.           *)

\* tr_clInvoker04: the RESULT or ERROR PDU.  When the ACK cannot be sent the
\* function returns before it starts the inactivity timer.
InvokerResult(m, kind) ==
    \E ok \in SendOutcome, d \in refToInvoker(m.dst, m.ref, m.src) :
        /\ Receive(m, ResultType(kind))
        /\ inv[d].state = "InvokePduSent"
        /\ inv' = [inv EXCEPT
                     ![d].state = "AckPduSent",
                     ![d].invokePdu = relPdu(@),
                     ![d].tmrs = IF ok
                                 THEN tmrCreate({}, "inactivity",
                                                inactivityDelay, 0)
                                 ELSE {}]
        /\ net' = Send(net, PduOf(d[1], inv[d], "ACK", NoOp), ok)
        /\ invokerInd(d, kind, m.op)
        /\ UNCHANGED <<newRef, asked, exec, work, answer, cnf>>

\* tr_clInvoker07: a repeated RESULT or ERROR PDU is acknowledged again.
InvokerResultAgain(m) ==
    \E ok \in SendOutcome, d \in refToInvoker(m.dst, m.ref, m.src) :
        /\ Receive(m, "RESULT") \/ Receive(m, "ERROR")
        /\ inv[d].state = "AckPduSent"
        /\ inv' = [inv EXCEPT ![d].tmrs =
                     tmrRestart(@, "inactivity", inactivityDelay)]
        /\ net' = Send(net, PduOf(d[1], inv[d], "ACK", NoOp), ok)
        /\ UNCHANGED <<newRef, sch, userVars>>

\* tr_clInvoker10: no repetition for the inactivity time.
InvokerInactivity(d) ==
    /\ inv[d].state = "AckPduSent"
    /\ Expired(d, "inactivity") # {}
    /\ inv' = [inv EXCEPT
                 ![d].state = "InvokerRefWait",
                 ![d].invokePdu = relPdu(@), ![d].resultPdu = relPdu(@),
                 ![d].tmrs = tmrCreate({}, "refNu", refKeepTime, 0)]
    /\ UNCHANGED <<newRef, sch, net, userVars>>

\* tr_clInvoker09: a repeated RESULT or ERROR PDU prolongs the wait.
InvokerRefWaitAgain(m) ==
    \E d \in refToInvoker(m.dst, m.ref, m.src) :
        /\ Receive(m, "RESULT") \/ Receive(m, "ERROR")
        /\ inv[d].state = "InvokerRefWait"
        /\ inv' = [inv EXCEPT ![d].tmrs = tmrRestart(@, "refNu", refKeepTime)]
        /\ UNCHANGED <<newRef, net, sch, userVars>>

-----------------------------------------------------------------------------
(* CL-Performer: PerformerInvoke (01), PerformerInvokeAgain (04),          *)
(* PerformerLateInvoke (07), PerformerNoResponse (08) and PerformerRelease *)
(* (10) are EropEngine's.                                                  *)

\* tr_clPerformer02: the answer goes out and is retransmitted.
ResultReq(d, kind) ==
    AnswerSent(d, kind, "AckPduWait", "resultPduRetran", retransTimeout)

\* tr_clPerformer05: the retransmission timer of the RESULT or ERROR PDU.
\* With no PDU kept the function returns before it restarts the timer.
PerformerRetran(d) ==
    /\ inv[d].state = "AckPduWait"
    /\ \E t \in Expired(d, "resultPduRetran"), ok \in SendOutcome :
         LET rest == inv[d].tmrs \ {t} IN
         IF t.datum >= RetransmitCount
         THEN inv' = [inv EXCEPT ![d].tmrs = lastTimer(rest)] /\ UNCHANGED net
         ELSE /\ inv' = [inv EXCEPT ![d].tmrs =
                           IF inv[d].resultPdu = <<>> THEN rest
                           ELSE tmrCreate(rest, "resultPduRetran",
                                          retransTimeout, t.datum + 1)]
              /\ net' = SendKeptResult(d, net, ok)
    /\ UNCHANGED <<newRef, sch, userVars>>

\* tr_clPerformer06: the retransmissions are counted anew; a running last
\* timer goes on.
PerformerResend(m) == AnswerAgain(m, "AckPduWait")

\* tr_clPerformer03: the ACK PDU.
PerformerAck(m) ==
    \E d \in refToPerformer(m.dst, m.ref, m.src) :
        /\ Receive(m, "ACK")
        /\ inv[d].state = "AckPduWait"
        /\ inv' = [inv EXCEPT
                     ![d].state = "PerformerRefWait",
                     ![d].resultPdu = relPdu(@),
                     ![d].tmrs = tmrCreate({}, "refNu", refKeepTime, 0)]
        /\ performerCnf(d, inv[d].isResult)
        /\ UNCHANGED <<newRef, net, asked, ind, exec, work, answer>>

\* tr_clPerformer09: the answer was never acknowledged.
PerformerLast(d) ==
    /\ inv[d].state = "AckPduWait"
    /\ Expired(d, "last") # {}
    /\ inv' = [inv EXCEPT
                 ![d].state = "PerformerRefWait",
                 ![d].resultPdu = relPdu(@),
                 ![d].tmrs = tmrCreate({}, "refNu", refKeepTime, 0)]
    /\ performerCnf(d, "failure")
    /\ UNCHANGED <<newRef, net, asked, ind, exec, work, answer>>

\* tr_clPerformer11: a late ACK PDU prolongs the time the number is kept.
PerformerLateAck(m) ==
    \E d \in refToPerformer(m.dst, m.ref, m.src) :
        /\ Receive(m, "ACK")
        /\ inv[d].state = "PerformerRefWait"
        /\ inv' = [inv EXCEPT ![d].tmrs = tmrRestart(@, "refNu", refKeepTime)]
        /\ UNCHANGED <<newRef, sch, net, userVars>>

-----------------------------------------------------------------------------
(* The transition diagrams as tables: the PDUs and timers each state has a *)
(* transition for.  Anything else is ignored.                              *)

InvokerExpects(s) ==
    CASE s = "InvokePduSent" -> {"invokePduRetran", "last", "RESULT", "ERROR",
                                 "FAILURE"}
      [] s = "AckPduSent" -> {"inactivity", "RESULT", "ERROR"}
      [] s = "InvokerRefWait" -> {"refNu", "RESULT", "ERROR"}
      [] OTHER -> {}

PerformerExpects(s) ==
    CASE s = "CLPerformerStart" -> {"INVOKE"}
      [] s = "InvokePduReceived" -> {"perfNoResponse", "INVOKE"}
      [] s = "AckPduWait" -> {"resultPduRetran", "last", "INVOKE", "ACK"}
      [] s = "PerformerRefWait" -> {"refNu", "INVOKE", "ACK"}
      [] OTHER -> {}

Expects == [s \in State |-> InvokerExpects(s) \cup PerformerExpects(s)]

PduIgnored(m) == IgnorePdu(m, Expects)
TimerIgnored(d) == IgnoreTimer(d, Expects)

-----------------------------------------------------------------------------
TimerStep(d) ==
    \/ InvokerRetran(d) \/ InvokerLast(d) \/ InvokerInactivity(d)
    \/ InvokerRelease(d)
    \/ PerformerRetran(d) \/ PerformerLast(d) \/ PerformerNoResponse(d)
    \/ PerformerRelease(d)
    \/ TimerIgnored(d)

PduStep(m) ==
    \/ \E kind \in {"result", "error"} : InvokerResult(m, kind)
    \/ InvokerFailure(m) \/ InvokerResultAgain(m) \/ InvokerRefWaitAgain(m)
    \/ ResultPduUnknown(m)
    \/ PerformerInvoke(m) \/ InvokePduRefused(m) \/ PerformerInvokeAgain(m)
    \/ PerformerResend(m) \/ PerformerAck(m) \/ PerformerLateInvoke(m)
    \/ PerformerLateAck(m)
    \/ PduIgnored(m)

UserStep ==
    \/ \E op \in Op : InvokeReq(op) \/ InvokeReqRefused(op)
    \/ \E d \in Desc, kind \in Reply :
          ResultReq(d, kind) \/ ResultReqIgnored(d, kind)

Next ==
    \/ UserStep
    \/ \E m \in net : PduStep(m)
    \/ \E d \in Desc : TimerStep(d)
    \/ \E n \in Node : RunTask(n)
    \/ Tick

Spec == Init /\ [][Next]_vars

\* The scheduler runs what was submitted, timers that are due are served and
\* time goes on.  Nothing is assumed of the users or of the network.
FairSpec ==
    /\ Spec
    /\ \A n \in Node : WF_vars(RunTask(n))
    /\ \A d \in Desc : WF_vars(TimerStep(d))
    /\ WF_vars(Tick)

-----------------------------------------------------------------------------
(* Properties of the 3-way handshake.                                      *)

\* tr_clInvoker04 returns before it starts the inactivity timer when the ACK
\* cannot be sent, and AckPduSent is entered all the same.
Stranded(d) == inv[d].state = "AckPduSent" /\ inv[d].tmrs = {}

\* An InvokeInfo that waits is never forgotten: outside the start states a
\* timer is armed that its diagram has a transition for.  Three kinds of
\* InvokeInfo have none and wait for ever: the invocation without a number, the
\* answer that could not be kept and, where sends may fail, the stranded one.
TimerArmed ==
    \A d \in Desc :
        \/ Armed(d, Expects) \/ Unnumbered(d) \/ Unkept(d)
        \/ FALSE \in SendOutcome /\ Stranded(d)

\* What the users see of the engines, as the variables of RemoteOp.
Service == INSTANCE RemoteOp WITH
    Handshake <- 3, runs <- exec, outcome <- ind, told <- cnf

\* The engines implement the service: performed at most once, one outcome, the
\* performer's own answer or a failure, and a confirmation only when the
\* invoking user has that answer.
Implements3Way == Service!AbsSpec

\* Every InvokeInfo, with its reference number and its timers, goes back to the
\* pool, but for one whose ACK could not be sent.
ReleasedOrStranded ==
    \A d \in Desc : inv[d].state # "free" ~> (inv[d].state = "free" \/ Stranded(d))
=============================================================================
