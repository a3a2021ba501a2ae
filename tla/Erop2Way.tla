------------------------------ MODULE Erop2Way ------------------------------
(***************************************************************************)
(* The 2-way handshake of ESROS: INVOKE, then RESULT or ERROR, and no ACK. *)
(* One action per transition of the 2CL-Invoker diagram (clinvtd2.c,       *)
(* invact2.c) and of the 2CL-Performer diagram (clpertd2.c, perfact2.c).   *)
(* A transition whose function repeats that of the 3-way diagram is        *)
(* EropEngine's step under the name it has here.                           *)
(***************************************************************************)
EXTENDS EropEngine

-----------------------------------------------------------------------------
(* 2CL-Invoker                                                             *)

\* tr_2clInvoker01, 02, 03, 05 and 07.
InvokeReq2(op) == InvokeReq(op)
InvokerRetran2(d) == InvokerRetran(d)
InvokerLast2(d) == InvokerLast(d)
InvokerFailure2(m) == InvokerFailure(m)
InvokerRelease2(d) == InvokerRelease(d)

\* tr_2clInvoker04: the RESULT or ERROR PDU is not acknowledged; the reference
\* number starts to wait at once.
InvokerResult2(m, kind) ==
    \E d \in refToInvoker(m.dst, m.ref, m.src) :
        /\ Receive(m, ResultType(kind))
        /\ inv[d].state = "InvokePduSent"
        /\ inv' = [inv EXCEPT
                     ![d].state = "InvokerRefWait",
                     ![d].invokePdu = relPdu(@),
                     ![d].tmrs = tmrCreate({}, "refNu", refKeepTime, 0)]
        /\ invokerInd(d, kind, m.op)
        /\ UNCHANGED <<newRef, net, asked, exec, work, answer, cnf>>

\* tr_2clInvoker06: a repeated RESULT or ERROR PDU prolongs the wait.  The
\* mutant tells the user again.
InvokerRefWaitTellAgain2(m) ==
    \E d \in refToInvoker(m.dst, m.ref, m.src) :
        /\ Receive(m, "RESULT") \/ Receive(m, "ERROR")
        /\ inv[d].state = "InvokerRefWait"
        /\ inv' = [inv EXCEPT ![d].tmrs =
                     tmrCreate({}, "refNu", refKeepTime, 0)]
        /\ invokerInd(d, "result", m.op)
        /\ UNCHANGED <<newRef, net, asked, exec, work, answer, cnf>>
InvokerRefWaitAgain2(m) ==
    \E d \in refToInvoker(m.dst, m.ref, m.src) :
        /\ Receive(m, "RESULT") \/ Receive(m, "ERROR")
        /\ inv[d].state = "InvokerRefWait"
        /\ inv' = [inv EXCEPT ![d].tmrs =
                     tmrCreate({}, "refNu", refKeepTime, 0)]
        /\ UNCHANGED <<newRef, net, sch, userVars>>

-----------------------------------------------------------------------------
(* 2CL-Performer                                                           *)

\* tr_2clPerformer01, 02, 04, 07 and 08.
PerformerInvoke2(m) == PerformerInvoke(m)
PerformerInvokeAgain2(m) == PerformerInvokeAgain(m)
PerformerNoResponse2(d) == PerformerNoResponse(d)
PerformerLateInvoke2(m) == PerformerLateInvoke(m)
PerformerRelease2(d) == PerformerRelease(d)

\* tr_2clPerformer03: the answer goes out once; the performer then stays ready
\* to repeat it for the inactivity time.  The mutant waits for an event that
\* the diagram ignores.
ResultReqRetran2(d, kind) ==
    AnswerSent(d, kind, "ResultPduRetrans", "resultPduRetran", retransTimeout)
ResultReq2(d, kind) ==
    AnswerSent(d, kind, "ResultPduRetrans", "inactivity", inactivityDelay)

\* tr_2clPerformer05: the answer again.  The retransmission timer it restarts
\* has no transition in this diagram: its expiry is ignored.
PerformerResend2(m) == AnswerAgain(m, "ResultPduRetrans")

\* tr_2clPerformer06: confirmed because nobody asked again.
PerformerInactivity2(d) ==
    /\ inv[d].state = "ResultPduRetrans"
    /\ Expired(d, "inactivity") # {}
    /\ inv' = [inv EXCEPT
                 ![d].state = "PerformerRefWait",
                 ![d].resultPdu = relPdu(@),
                 ![d].tmrs = tmrCreate({}, "refNu", refKeepTime, 0)]
    /\ performerCnf(d, inv[d].isResult)
    /\ UNCHANGED <<newRef, net, asked, ind, exec, work, answer>>

-----------------------------------------------------------------------------
(* The transition diagrams as tables: the PDUs and timers each state has a *)
(* transition for.  Anything else is ignored.                              *)

InvokerExpects2(s) ==
    CASE s = "InvokePduSent" -> {"invokePduRetran", "last", "RESULT", "ERROR",
                                 "FAILURE"}
      [] s = "InvokerRefWait" -> {"refNu", "RESULT", "ERROR"}
      [] OTHER -> {}

PerformerExpects2(s) ==
    CASE s = "CLPerformerStart" -> {"INVOKE"}
      [] s = "InvokePduReceived" -> {"perfNoResponse", "INVOKE"}
      [] s = "ResultPduRetrans" -> {"inactivity", "INVOKE"}
      [] s = "PerformerRefWait" -> {"refNu", "INVOKE"}
      [] OTHER -> {}

Expects2 == [s \in State |-> InvokerExpects2(s) \cup PerformerExpects2(s)]

PduIgnored2(m) == IgnorePdu(m, Expects2)
TimerIgnored2(d) == IgnoreTimer(d, Expects2)

-----------------------------------------------------------------------------
TimerStep(d) ==
    \/ InvokerRetran2(d) \/ InvokerLast2(d) \/ InvokerRelease2(d)
    \/ PerformerNoResponse2(d) \/ PerformerInactivity2(d)
    \/ PerformerRelease2(d)
    \/ TimerIgnored2(d)

PduStep(m) ==
    \/ \E kind \in {"result", "error"} : InvokerResult2(m, kind)
    \/ InvokerFailure2(m) \/ InvokerRefWaitAgain2(m) \/ ResultPduUnknown(m)
    \/ PerformerInvoke2(m) \/ InvokePduRefused(m) \/ PerformerInvokeAgain2(m)
    \/ PerformerResend2(m) \/ PerformerLateInvoke2(m)
    \/ PduIgnored2(m)

UserStep ==
    \/ \E op \in Op : InvokeReq2(op) \/ InvokeReqRefused(op)
    \/ \E d \in Desc, kind \in Reply :
          ResultReq2(d, kind) \/ ResultReqIgnored(d, kind)

Next ==
    \/ UserStep
    \/ \E m \in net : PduStep(m)
    \/ \E d \in Desc : TimerStep(d)
    \/ \E n \in Node : RunTask(n)
    \/ Tick

Spec == Init /\ [][Next]_vars

\* The fairness of the scheduler and the clock, as in the 3-way handshake.
FairSpec ==
    /\ Spec
    /\ \A n \in Node : WF_vars(RunTask(n))
    /\ \A d \in Desc : WF_vars(TimerStep(d))
    /\ WF_vars(Tick)

-----------------------------------------------------------------------------
(* Properties of the 2-way handshake.                                      *)

\* As in the 3-way handshake, an InvokeInfo that waits has a timer armed that
\* its diagram has a transition for, failing sends or not.  It is stated where
\* no engine gives a number out twice; elsewhere the unnumbered invocation and
\* the unkept answer wait for ever.
TimerArmed2 == \A d \in Desc : Armed(d, Expects2)

\* What the users see of the engines, as the variables of RemoteOp.
Service == INSTANCE RemoteOp WITH
    Handshake <- 2, runs <- exec, outcome <- ind, told <- cnf

\* The engines implement the service of two PDUs: performed at most once, one
\* outcome, the performer's own answer or a failure, and at most one
\* confirmation, which says nothing of the invoking user.
Implements2Way == Service!AbsSpec
=============================================================================
