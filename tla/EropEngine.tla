----------------------------- MODULE EropEngine -----------------------------
(***************************************************************************)
(* The part of the ESRO protocol engine (src/src/esros/erop_eng) that the  *)
(* 3-way and the 2-way transition diagrams share: the InvokeInfo table,    *)
(* the reference numbers, the timers, the scheduler queue that defers      *)
(* every indication, the datagram service below and the users above.       *)
(*                                                                         *)
(* Time is discrete.  A timer holds the units left until it expires and a  *)
(* datagram the units it may still live; Tick lets one unit pass.  Nothing *)
(* that is due is overtaken by the clock.                                  *)
(***************************************************************************)
EXTENDS Integers, Sequences, FiniteSets

CONSTANTS
    Node,            \* engines, one per network address (N_SapAddr)
    Slot,            \* elements each engine's InvokeInfo pool can hand out
    Sap,             \* ESRO service access points
    Bound,           \* the <<node, sap>> pairs some user has bound
    NREFS,           \* reference numbers are 0 .. NREFS-1
    Op,              \* the operations the users ask for, each at most once
    From, To,        \* the invoking and the performing engine of an operation
    FromSap, ToSap,  \* and its two service access points
    Reply,           \* answers a performing user gives, of "result", "error"
    SendOutcome,     \* what UDP_dataReq may return, of TRUE, FALSE
    Acknowledgment, Roundtrip, Retransmit, MaxNSDULifeTime, RetransmitCount

ASSUME ShapeAssumption ==
    /\ From \in [Op -> Node] /\ To \in [Op -> Node]
    /\ FromSap \in [Op -> Sap] /\ ToSap \in [Op -> Sap]
    /\ Bound \subseteq Node \X Sap
    /\ Reply \subseteq {"result", "error"}
    /\ SendOutcome \subseteq BOOLEAN

ASSUME NumberAssumption ==
    /\ NREFS \in Nat \ {0}
    /\ Acknowledgment \in Nat /\ Roundtrip \in Nat /\ Retransmit \in Nat
    /\ MaxNSDULifeTime \in Nat /\ RetransmitCount \in Nat

NoNode == "no node"
NoOp == "no op"
NoSap == "no sap"
NoRef == -1

ASSUME NoValueAssumption ==
    NoNode \notin Node /\ NoOp \notin Op /\ NoSap \notin Sap

-----------------------------------------------------------------------------
VARIABLES
    inv,      \* inv[n, s]: the InvokeInfo in slot s of engine n
    newRef,   \* newRef[n]: last reference number tried by erop_refNew
    sch,      \* sch[n]: tasks submitted to n's scheduler and not yet run
    net,      \* datagrams in transit
    asked,    \* operations whose invoke request has been made
    ind,      \* ind[op]: outcomes indicated to the invoking user, in order
    exec,     \* exec[op]: number of times op was indicated to its performer
    work,     \* work[n, s]: operation the performing user holds for this desc
    answer,   \* answer[op]: kinds of answer the performing user has given
    cnf       \* cnf[op]: confirmations and failures told to the performer

vars == <<inv, newRef, sch, net, asked, ind, exec, work, answer, cnf>>
userVars == <<asked, ind, exec, work, answer, cnf>>

Desc == Node \X Slot

-----------------------------------------------------------------------------
(* Values.                                                                 *)

InvokerState == {"CLInvokerStart", "InvokePduSent", "AckPduSent",
                 "InvokerRefWait"}
PerformerState == {"CLPerformerStart", "InvokePduReceived", "AckPduWait",
                   "ResultPduRetrans", "PerformerRefWait"}
AnswerState == {"AckPduWait", "ResultPduRetrans"}
State == InvokerState \cup PerformerState \cup {"free"}
StartState == {"CLInvokerStart", "CLPerformerStart"}

TimerName == {"invokePduRetran", "resultPduRetran", "refNu", "last",
              "inactivity", "perfNoResponse"}

\* An InvokeInfo's userRef is the operation it serves: for an invoker what
\* EROP_invokeReq gave as userInvokeRef, for a performer what the INVOKE PDU
\* that created it asked for (the engine itself never looks at it).

\* A reference number, or the -1 that erop_refNew returns when none is left.
RefNu == 0 .. (NREFS - 1) \cup {NoRef}

\* What one INVOKE, RESULT or ERROR PDU says to the user: its kind and the
\* operation it is about.
Payload == [kind : {"invoke", "result", "error"}, op : Op]

InvokeInfo ==
    [state : State,
     sap : Sap \cup {NoSap}, rem : Node \cup {NoNode}, ref : RefNu,
     refMap : {"none", "invoker", "performer"},
     tmrs : SUBSET [name : TimerName, datum : Nat, left : Nat],
     invokePdu : Seq(Payload), resultPdu : Seq(Payload),
     userRef : Op \cup {NoOp}, isResult : {"result", "error"}]

\* What an invoking user is told: how the operation ended, and whose answer it
\* is.
Outcome == [kind : {"result", "error", "failure", "refused"}, op : Op]

TaskKind == {"invokeInd", "resultInd", "errorInd", "failureInd",
             "resultCnf", "errorCnf", "relInvoke"}

Task == [kind : TaskKind, slot : Slot, op : Op \cup {NoOp}]

PduType == {"INVOKE", "RESULT", "ERROR", "ACK", "FAILURE"}

Pdu == [type : PduType, src : Node, dst : Node, sap : Sap \cup {NoSap},
        ref : RefNu, op : Op \cup {NoOp}, ttl : Nat]

-----------------------------------------------------------------------------
(* Timers (tmr_if.c).                                                      *)

retransTimeout == Retransmit + Roundtrip
rwait == 2 * (Acknowledgment + Retransmit)
refKeepTime == 2 * MaxNSDULifeTime + RetransmitCount * Retransmit
inactivityDelay == 4 * Roundtrip
\* The mutant gives the user no allowance for the invoker's retransmissions.
perfNoResponseShort == 2 * MaxNSDULifeTime
perfNoResponse ==
    2 * MaxNSDULifeTime + (RetransmitCount + 1) * (Retransmit + Roundtrip)

\* erop_tmrCreate links a new timer into the InvokeInfo's queue.
tmrCreate(tmrs, name, time, datum) ==
    tmrs \cup {[name |-> name, datum |-> datum, left |-> time]}

\* erop_tmrCancel with a name; with erop_allTimer the queue becomes {}.
tmrCancel(tmrs, name) == {t \in tmrs : t.name # name}

\* Cancel and create: the timer starts from the beginning.  The mutant only
\* cancels.
tmrRestartCancelOnly(tmrs, name, time) == tmrCancel(tmrs, name)
tmrRestart(tmrs, name, time) == tmrCreate(tmrCancel(tmrs, name), name, time, 0)

\* After the last retransmission: the time left for its answer.  The mutant
\* forgets to start the timer.
lastTimerForgotten(tmrs) == tmrs
lastTimer(tmrs) == tmrCreate(tmrs, "last", rwait, 0)

\* erop_timerRsp unlinks the timer that expired before it runs the machine.
Expired(d, name) == {t \in inv[d].tmrs : t.name = name /\ t.left = 0}

-----------------------------------------------------------------------------
(* Kept PDUs (keep.c): erop_relPdu releases the first one only.            *)

pduKeep(seq, pdu) == Append(seq, pdu)
relPdu(seq) == IF seq = <<>> THEN <<>> ELSE Tail(seq)

-----------------------------------------------------------------------------
(* Reference numbers (invoke.c).                                           *)

\* The InvokeInfos of n linked into refToInvokerMap or refToPerformerMap
\* under a reference number and a remote address.
\* The mutant compares the address only.
MappedByAddress(n, map, ref, rem) ==
    {d \in {n} \X Slot : inv[d].refMap = map /\ inv[d].rem = rem}
Mapped(n, map, ref, rem) ==
    {d \in {n} \X Slot : /\ inv[d].refMap = map
                         /\ inv[d].ref = ref
                         /\ inv[d].rem = rem}

refToInvoker(n, ref, rem) == Mapped(n, "invoker", ref, rem)
refToPerformer(n, ref, rem) == Mapped(n, "performer", ref, rem)

\* The k-th number erop_refNew tries: ++newRef, back to 0 at NREFS.
\* The mutant does not wrap around.
CandidateNoWrap(n, k) == newRef[n] + k
Candidate(n, k) ==
    IF newRef[n] >= NREFS THEN (k - 1) % NREFS ELSE (newRef[n] + k) % NREFS

\* The tries that succeed for a given remote engine.
\* The mutant does not look whether the number is in use.
FreeTriesUnchecked(n, rem) == 1 .. NREFS
FreeTries(n, rem) ==
    {k \in 1 .. NREFS : refToInvoker(n, Candidate(n, k), rem) = {}}

\* erop_refNew takes the first of them; -1 when every number is in use.
refNew(n, rem) ==
    IF FreeTries(n, rem) = {}
    THEN NoRef
    ELSE Candidate(n, CHOOSE k \in FreeTries(n, rem) :
                          \A j \in FreeTries(n, rem) : k <= j)

\* Where erop_refNew leaves its static counter.
newRefAfter(n, rem) ==
    IF FreeTries(n, rem) = {} THEN Candidate(n, NREFS) ELSE refNew(n, rem)

\* erop_refKeep refuses a number some performer holds for the same peer.
refKeepOk(d) == refToPerformer(d[1], inv[d].ref, inv[d].rem) = {}

-----------------------------------------------------------------------------
(* The pool (invoke.c).  A free element keeps no content worth modelling.  *)

FreeInfo ==
    [state |-> "free", sap |-> NoSap, rem |-> NoNode, ref |-> NoRef,
     refMap |-> "none", tmrs |-> {}, invokePdu |-> <<>>, resultPdu |-> <<>>,
     userRef |-> NoOp, isResult |-> "result"]

Avail(n) == {d \in {n} \X Slot : inv[d].state = "free"}

\* erop_getInvoke, INVOKE PDU: the live InvokeInfos of the SAP that carry the
\* PDU's reference number and its sender's address, whatever their role.
Duplicates(m) ==
    {d \in {m.dst} \X Slot : /\ inv[d].state # "free"
                             /\ inv[d].sap = m.sap
                             /\ inv[d].ref = m.ref
                             /\ inv[d].rem = m.src}

-----------------------------------------------------------------------------
(* Sending and receiving (pduout.c, pduin.c, udp_if.c).                    *)

\* The PDU engine n builds for the peer of an InvokeInfo; only an INVOKE PDU
\* names a SAP.
PduOf(n, info, type, op) ==
    [type |-> type, src |-> n, dst |-> info.rem,
     sap |-> IF type = "INVOKE" THEN ToSap[op] ELSE NoSap,
     ref |-> info.ref, op |-> op, ttl |-> MaxNSDULifeTime]

\* erop_sendFailurePdu in answer to the PDU m.
FailurePduFor(m) ==
    [type |-> "FAILURE", src |-> m.dst, dst |-> m.src, sap |-> NoSap,
     ref |-> m.ref, op |-> NoOp, ttl |-> MaxNSDULifeTime]

\* UDP_dataReq: a datagram whose send failed never enters the network.
Send(pool, pdu, ok) == IF ok THEN pool \cup {pdu} ELSE pool

\* RESULT and ERROR are the same PDU but for its type.
ResultType(kind) == IF kind = "result" THEN "RESULT" ELSE "ERROR"

\* udp_receive hands m to lower_dataInd.  SCH_block selects on the socket only
\* when no internal task waits.  The network keeps m while it lives: it may
\* deliver it once, again and again, after a later one, or never.
Receive(m, type) == m.type = type /\ sch[m.dst] = <<>>

-----------------------------------------------------------------------------
(* The scheduler (userout.c, schsel.c): an indication is a task run later. *)

Submit(n, tasks) == sch' = [sch EXCEPT ![n] = @ \o tasks]

TaskFor(d, kind, op) == [kind |-> kind, slot |-> d[2], op |-> op]

\* erop_resultInd, erop_errorInd and erop_failureInd for the invoking user of
\* InvokeInfo d; op is the operation the outcome is about.
invokerInd(d, kind, op) ==
    /\ Submit(d[1], <<TaskFor(d, CASE kind = "result" -> "resultInd"
                                   [] kind = "error" -> "errorInd"
                                   [] kind = "failure" -> "failureInd", op)>>)
    /\ ind' = [ind EXCEPT ![inv[d].userRef] =
                 Append(@, [kind |-> kind, op |-> op])]

\* erop_resultCnf, erop_errorCnf and erop_failureInd for a performing user
\* that has answered.
performerCnf(d, kind) ==
    /\ Submit(d[1], <<TaskFor(d, CASE kind = "result" -> "resultCnf"
                                   [] kind = "error" -> "errorCnf"
                                   [] kind = "failure" -> "failureInd",
                              inv[d].userRef)>>)
    /\ cnf' = [cnf EXCEPT ![inv[d].userRef] = Append(@, kind)]

-----------------------------------------------------------------------------
(* Invoker steps both diagrams share: tr_2clInvokerNN repeats the function *)
(* of the 3-way diagram.                                                   *)

\* EROP_invokeReq needs a bound SAP and an InvokeInfo; without them it returns
\* FAIL to its caller.
CanInvoke(op) == <<From[op], FromSap[op]>> \in Bound /\ Avail(From[op]) # {}

InvokeReqRefused(op) ==
    /\ op \notin asked
    /\ ~ CanInvoke(op)
    /\ asked' = asked \cup {op}
    /\ ind' = [ind EXCEPT ![op] = Append(@, [kind |-> "refused", op |-> op])]
    /\ UNCHANGED <<inv, newRef, sch, net, exec, work, answer, cnf>>

\* What tr_clInvoker01 makes of a fresh InvokeInfo: first the operation's
\* addresses and a reference number, then, if there is one, the entry in the
\* map, the kept INVOKE PDU and the retransmission timer.
NewInvocation(op) ==
    [FreeInfo EXCEPT !.sap = FromSap[op], !.state = "InvokePduSent",
                     !.rem = To[op], !.ref = refNew(From[op], To[op]),
                     !.userRef = op]
SentInvocation(op) ==
    [NewInvocation(op) EXCEPT
       !.refMap = "invoker",
       !.invokePdu = pduKeep(@, [kind |-> "invoke", op |-> op]),
       !.tmrs = tmrCreate(@, "invokePduRetran", retransTimeout, 0)]

\* EROP_invokeReq and tr_clInvoker01.  With no reference number left the
\* function returns before it keeps, sends or times anything.
InvokeReq(op) ==
    /\ op \notin asked
    /\ CanInvoke(op)
    /\ asked' = asked \cup {op}
    /\ newRef' = [newRef EXCEPT ![From[op]] = newRefAfter(From[op], To[op])]
    /\ \E d \in Avail(From[op]) :
         \/ /\ NewInvocation(op).ref = NoRef
            /\ inv' = [inv EXCEPT ![d] = NewInvocation(op)]
            /\ UNCHANGED net
         \/ /\ NewInvocation(op).ref # NoRef
            /\ inv' = [inv EXCEPT ![d] = SentInvocation(op)]
            /\ \E ok \in SendOutcome :
                 net' = Send(net, PduOf(From[op], NewInvocation(op), "INVOKE",
                                        op), ok)
    /\ UNCHANGED <<sch, ind, exec, work, answer, cnf>>

\* tr_clInvoker02: the retransmission timer of the INVOKE PDU.
InvokerRetran(d) ==
    /\ inv[d].state = "InvokePduSent"
    /\ \E t \in Expired(d, "invokePduRetran"), ok \in SendOutcome :
         LET rest == inv[d].tmrs \ {t} IN
         IF t.datum >= RetransmitCount
         THEN inv' = [inv EXCEPT ![d].tmrs = lastTimer(rest)] /\ UNCHANGED net
         ELSE /\ inv' = [inv EXCEPT ![d].tmrs =
                           tmrCreate(rest, "invokePduRetran", retransTimeout,
                                     t.datum + 1)]
              /\ net' = IF inv[d].invokePdu = <<>> THEN net
                        ELSE Send(net, PduOf(d[1], inv[d], "INVOKE",
                                             inv[d].userRef), ok)
    /\ UNCHANGED <<newRef, sch, userVars>>

\* tr_clInvoker03: nobody answered.
InvokerLast(d) ==
    /\ inv[d].state = "InvokePduSent"
    /\ \E t \in Expired(d, "last") :
         inv' = [inv EXCEPT
                   ![d].state = "InvokerRefWait",
                   ![d].invokePdu = relPdu(@), ![d].resultPdu = relPdu(@),
                   ![d].tmrs = tmrCreate(@ \ {t}, "refNu", refKeepTime, 0)]
    /\ invokerInd(d, "failure", inv[d].userRef)
    /\ UNCHANGED <<newRef, net, asked, exec, work, answer, cnf>>

\* tr_clInvoker05: a FAILURE PDU ends the operation.
FailOperation(d) ==
    /\ inv' = [inv EXCEPT ![d].state = "InvokerRefWait",
                          ![d].tmrs = tmrCreate({}, "refNu", refKeepTime, 0)]
    /\ invokerInd(d, "failure", inv[d].userRef)
    /\ UNCHANGED <<newRef, net, asked, exec, work, answer, cnf>>

\* The mutant lets a FAILURE PDU end an operation in any state.
InvokerFailureAnyState(m) ==
    \E d \in refToInvoker(m.dst, m.ref, m.src) :
        Receive(m, "FAILURE") /\ FailOperation(d)

InvokerFailure(m) ==
    \E d \in refToInvoker(m.dst, m.ref, m.src) :
        /\ Receive(m, "FAILURE")
        /\ inv[d].state = "InvokePduSent"
        /\ FailOperation(d)

\* erop_getInvoke: RESULT or ERROR for a reference number nobody invoked
\* under; the sender is told with a FAILURE PDU.
ResultPduUnknown(m) ==
    \E ok \in SendOutcome :
        /\ Receive(m, "RESULT") \/ Receive(m, "ERROR")
        /\ refToInvoker(m.dst, m.ref, m.src) = {}
        /\ net' = Send(net, FailurePduFor(m), ok)
        /\ UNCHANGED <<inv, newRef, sch, userVars>>

\* tr_clInvoker08: the reference number has been kept long enough.
InvokerRelease(d) ==
    /\ inv[d].state = "InvokerRefWait"
    /\ \E t \in Expired(d, "refNu") :
         inv' = [inv EXCEPT ![d].state = "CLInvokerStart",
                            ![d].tmrs = @ \ {t}]
    /\ Submit(d[1], <<TaskFor(d, "relInvoke", NoOp)>>)
    /\ UNCHANGED <<newRef, net, userVars>>

-----------------------------------------------------------------------------
(* Performer steps both diagrams share.                                    *)

\* erop_getInvoke: INVOKE for a SAP nobody bound, or with the pool exhausted.
InvokePduRefused(m) ==
    \E ok \in SendOutcome :
        /\ Receive(m, "INVOKE")
        /\ \/ <<m.dst, m.sap>> \notin Bound
           \/ Duplicates(m) = {} /\ Avail(m.dst) = {}
        /\ net' = Send(net, FailurePduFor(m), ok)
        /\ UNCHANGED <<inv, newRef, sch, userVars>>

\* tr_clPerformer01 on a fresh InvokeInfo, or on one that is back in its start
\* state and not released yet.
PerformerInvoke(m) ==
    /\ Receive(m, "INVOKE")
    /\ <<m.dst, m.sap>> \in Bound
    /\ \E d \in IF Duplicates(m) = {} THEN Avail(m.dst)
                ELSE {e \in Duplicates(m) : inv[e].state = "CLPerformerStart"} :
         /\ inv' = [inv EXCEPT ![d] =
              [inv[d] EXCEPT
                 !.state = "InvokePduReceived", !.sap = m.sap, !.rem = m.src,
                 !.ref = m.ref, !.userRef = m.op,
                 !.tmrs = tmrCreate(@, "perfNoResponse", perfNoResponse, 0)]]
         /\ Submit(d[1], <<TaskFor(d, "invokeInd", m.op)>>)
    /\ exec' = [exec EXCEPT ![m.op] = @ + 1]
    /\ UNCHANGED <<newRef, net, asked, ind, work, answer, cnf>>

\* tr_clPerformer04: a repeated INVOKE PDU while the user is working.
PerformerInvokeAgain(m) ==
    \E d \in Duplicates(m) :
        /\ Receive(m, "INVOKE")
        /\ inv[d].state = "InvokePduReceived"
        /\ UNCHANGED vars

\* EROP_resultReq or EROP_errorReq on a descriptor the user holds: what
\* tr_clPerformer02 and tr_2clPerformer03 have in common.  When the reference
\* number cannot be kept the function returns before it keeps, sends or times
\* anything.
AnswerSent(d, kind, next, timer, delay) ==
    /\ work[d] # NoOp
    /\ inv[d].state = "InvokePduReceived"
    /\ work' = [work EXCEPT ![d] = NoOp]
    /\ answer' = [answer EXCEPT ![work[d]] = @ \cup {kind}]
    /\ \E ok \in SendOutcome :
         LET new == [inv[d] EXCEPT !.state = next, !.isResult = kind]
         IN  IF ~ refKeepOk(d)
             THEN inv' = [inv EXCEPT ![d] = new] /\ UNCHANGED net
             ELSE /\ inv' = [inv EXCEPT ![d] =
                       [new EXCEPT
                          !.refMap = "performer",
                          !.resultPdu = pduKeep(@, [kind |-> kind,
                                                    op |-> work[d]]),
                          !.tmrs = tmrCancel(tmrCreate(@, timer, delay, 0),
                                             "perfNoResponse")]]
                  /\ net' = Send(net, PduOf(d[1], new, ResultType(kind),
                                            work[d]), ok)
    /\ UNCHANGED <<newRef, sch, asked, ind, exec, cnf>>

\* The same calls on a descriptor whose machine no longer waits for them.
ResultReqIgnored(d, kind) ==
    /\ work[d] # NoOp
    /\ inv[d].state # "InvokePduReceived"
    /\ work' = [work EXCEPT ![d] = NoOp]
    /\ answer' = [answer EXCEPT ![work[d]] = @ \cup {kind}]
    /\ UNCHANGED <<inv, newRef, sch, net, asked, ind, exec, cnf>>

\* erop_pduRetrieve and UDP_dataReq of the kept RESULT or ERROR PDU.
SendKeptResult(d, pool, ok) ==
    IF inv[d].resultPdu = <<>> THEN pool
    ELSE Send(pool, PduOf(d[1], inv[d],
                          ResultType(Head(inv[d].resultPdu).kind),
                          Head(inv[d].resultPdu).op), ok)

\* A repeated INVOKE PDU has the answer sent again and its retransmission
\* timer restarted, unless the send fails.
AnswerAgain(m, state) ==
    \E ok \in SendOutcome, d \in Duplicates(m) :
        /\ Receive(m, "INVOKE")
        /\ inv[d].state = state
        /\ inv' = IF ok /\ inv[d].resultPdu # <<>>
                  THEN [inv EXCEPT ![d].tmrs =
                          tmrRestart(@, "resultPduRetran", retransTimeout)]
                  ELSE inv
        /\ net' = SendKeptResult(d, net, ok)
        /\ UNCHANGED <<newRef, sch, userVars>>

\* The two tasks of tr_clPerformer08: void the descriptor, then release it.
\* The mutants submit them the other way round, and only the second.
NoResponseTasksSwapped(d) ==
    <<TaskFor(d, "relInvoke", NoOp), TaskFor(d, "failureInd", NoOp)>>
NoResponseTasksSilent(d) == <<TaskFor(d, "relInvoke", NoOp)>>
NoResponseTasks(d) ==
    <<TaskFor(d, "failureInd", NoOp), TaskFor(d, "relInvoke", NoOp)>>

\* tr_clPerformer08: the user did not answer in time.  The InvokeInfo goes
\* straight back to the pool, after the failure indication.
PerformerNoResponse(d) ==
    /\ inv[d].state = "InvokePduReceived"
    /\ Expired(d, "perfNoResponse") # {}
    /\ inv' = [inv EXCEPT ![d].state = "CLPerformerStart",
                          ![d].invokePdu = relPdu(@),
                          ![d].tmrs = {}]
    /\ \E ok \in SendOutcome :
         net' = Send(net, PduOf(d[1], inv[d], "FAILURE", NoOp), ok)
    /\ Submit(d[1], NoResponseTasks(d))
    /\ cnf' = [cnf EXCEPT ![inv[d].userRef] = Append(@, "failure")]
    /\ UNCHANGED <<newRef, asked, ind, exec, work, answer>>

\* tr_clPerformer07: a late INVOKE PDU prolongs the time the reference number
\* is kept.
PerformerLateInvoke(m) ==
    \E d \in Duplicates(m) :
        /\ Receive(m, "INVOKE")
        /\ inv[d].state = "PerformerRefWait"
        /\ inv' = [inv EXCEPT ![d].tmrs = tmrRestart(@, "refNu", refKeepTime)]
        /\ UNCHANGED <<newRef, sch, net, userVars>>

\* tr_clPerformer10: the reference number has been kept long enough.
PerformerRelease(d) ==
    /\ inv[d].state = "PerformerRefWait"
    /\ \E t \in Expired(d, "refNu") :
         inv' = [inv EXCEPT ![d].state = "CLPerformerStart",
                            ![d].tmrs = @ \ {t}]
    /\ Submit(d[1], <<TaskFor(d, "relInvoke", NoOp)>>)
    /\ UNCHANGED <<newRef, net, userVars>>

-----------------------------------------------------------------------------
(* The scheduler and the clock.                                            *)

\* erop_relInvoke: unlink the reference number, return the element.
relInvoke(d) ==
    inv' = [inv EXCEPT ![d] = FreeInfo]

\* SCH_run takes the oldest task; an indication calls the user back.
RunTask(n) ==
    /\ sch[n] # <<>>
    /\ LET t == Head(sch[n])
           d == <<n, t.slot>>
       IN  /\ sch' = [sch EXCEPT ![n] = Tail(@)]
           /\ IF t.kind = "relInvoke" THEN relInvoke(d) ELSE UNCHANGED inv
           /\ work' = IF t.kind = "invokeInd"
                      THEN [work EXCEPT ![d] = t.op]
                      ELSE IF t.kind = "failureInd"
                      THEN [work EXCEPT ![d] = NoOp]
                      ELSE work
    /\ UNCHANGED <<newRef, net, asked, ind, exec, answer, cnf>>

\* One unit of time.  No task waits and no timer is due; a datagram that has
\* outlived MaxNSDULifeTime is gone, which is also how one is lost.
Tick ==
    /\ \A n \in Node : sch[n] = <<>>
    /\ \A d \in Desc : \A t \in inv[d].tmrs : t.left > 0
    /\ inv' = [d \in Desc |->
                 [inv[d] EXCEPT !.tmrs = {[t EXCEPT !.left = @ - 1] : t \in @}]]
    /\ net' = {[m EXCEPT !.ttl = @ - 1] : m \in {p \in net : p.ttl > 0}}
    /\ UNCHANGED <<newRef, sch, userVars>>

Init ==
    /\ inv = [d \in Desc |-> FreeInfo]
    /\ newRef = [n \in Node |-> NREFS]
    /\ sch = [n \in Node |-> <<>>]
    /\ net = {}
    /\ asked = {}
    /\ ind = [op \in Op |-> <<>>]
    /\ exec = [op \in Op |-> 0]
    /\ work = [d \in Desc |-> NoOp]
    /\ answer = [op \in Op |-> {}]
    /\ cnf = [op \in Op |-> <<>>]

-----------------------------------------------------------------------------
(* Events a diagram does not expect (tr_badEventIgnore): consumed, nothing *)
(* changes.  Each diagram is given as the events its states expect.        *)

\* erop_getInvoke: the InvokeInfos a PDU may be for.
getInvoke(m) ==
    CASE m.type = "INVOKE" -> Duplicates(m)
      [] m.type = "ACK" -> refToPerformer(m.dst, m.ref, m.src)
      [] OTHER -> refToInvoker(m.dst, m.ref, m.src)

\* A PDU that finds no InvokeInfo (and asks for no FAILURE PDU), or finds one
\* in a state that does not expect it.
IgnorePdu(m, expects) ==
    /\ sch[m.dst] = <<>>
    /\ \/ \E d \in getInvoke(m) : m.type \notin expects[inv[d].state]
       \/ getInvoke(m) = {} /\ m.type \in {"ACK", "FAILURE"}
    /\ UNCHANGED vars

IgnoreTimer(d, expects) ==
    /\ \E t \in inv[d].tmrs :
         /\ t.left = 0
         /\ t.name \notin expects[inv[d].state]
         /\ inv' = [inv EXCEPT ![d].tmrs = @ \ {t}]
    /\ UNCHANGED <<newRef, sch, net, userVars>>

-----------------------------------------------------------------------------
(* Properties of the engine, whichever diagram it runs.                    *)

\* Every variable keeps its type: an InvokeInfo, a task of the scheduler and
\* a PDU always have the fields the C structures give them.
TypeOK ==
    /\ inv \in [Desc -> InvokeInfo]
    /\ newRef \in [Node -> 0 .. NREFS]
    /\ sch \in [Node -> Seq(Task)]
    /\ net \subseteq Pdu
    /\ asked \subseteq Op
    /\ ind \in [Op -> Seq(Outcome)]
    /\ exec \in [Op -> Nat]
    /\ work \in [Desc -> Op \cup {NoOp}]
    /\ answer \in [Op -> SUBSET {"result", "error"}]
    /\ cnf \in [Op -> Seq({"result", "error", "failure"})]

\* An invocation is answered at most once: of erop_resultInd, erop_errorInd
\* and erop_failureInd at most one is called for it, whatever retransmitted,
\* late or FAILURE PDU arrives and whichever timer fires meanwhile.
OutcomeOnce == \A op \in Op : Len(ind[op]) <= 1

\* No task in the scheduler's queue dereferences an InvokeInfo that has gone
\* back to the pool (the scheduled indications read arg->invoke->locSap), and
\* none is released twice.
TasksLive ==
    \A n \in Node : \A i \in 1 .. Len(sch[n]) :
        /\ inv[n, sch[n][i].slot].state # "free"
        /\ sch[n][i].kind = "relInvoke" =>
             \A j \in i + 1 .. Len(sch[n]) : sch[n][j].slot # sch[n][i].slot

\* The task that will tell the user of descriptor d that it is void.
Failing(d) ==
    \E i \in 1 .. Len(sch[d[1]]) :
        sch[d[1]][i].slot = d[2] /\ sch[d[1]][i].kind = "failureInd"

\* A descriptor the performing user may still pass to EROP_resultReq names an
\* InvokeInfo that waits for that very answer, or the FAILURE.indication that
\* voids the descriptor is already on its way, ahead of the release.
HeldDescLive ==
    \A d \in Desc : work[d] # NoOp =>
        \/ inv[d].state = "InvokePduReceived"
        \/ inv[d].state = "CLPerformerStart" /\ Failing(d)

\* A reference number names one operation: no two InvokeInfos of an engine are
\* linked into the same map under the same number for the same peer, so
\* erop_refToInvoker and erop_refToPerformer have one entry to find.
RefUnique ==
    \A d, e \in Desc :
        /\ d # e /\ d[1] = e[1]
        /\ inv[d].refMap # "none" /\ inv[d].refMap = inv[e].refMap
        => inv[d].ref # inv[e].ref \/ inv[d].rem # inv[e].rem

\* A timer runs that the state of d expects, if it expects any.
Armed(d, expects) ==
    LET awaited == expects[inv[d].state] \cap TimerName
    IN  awaited = {} \/ \E t \in inv[d].tmrs : t.name \in awaited

\* The invocation that got no reference number: tr_clInvoker01 returns before
\* it keeps, sends or times anything, and InvokePduSent is entered all the same.
Unnumbered(d) == inv[d].state = "InvokePduSent" /\ inv[d].ref = NoRef

\* The answer whose reference number erop_refKeep refused: tr_clPerformer02
\* and tr_2clPerformer03 return in the same way.
Unkept(d) == inv[d].state \in AnswerState /\ inv[d].refMap = "none"

\* Every invocation gets its outcome: a result, an error or a failure.
Answered == \A op \in Op : op \in asked ~> ind[op] # <<>>

\* Every answer of a performing user is confirmed or reported as failed.
Told == \A op \in Op : answer[op] # {} ~> cnf[op] # <<>>

\* Every InvokeInfo, with its reference number and its timers, goes back to
\* the pool.
Released == \A d \in Desc : inv[d].state # "free" ~> inv[d].state = "free"
=============================================================================
