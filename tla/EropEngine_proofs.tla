------------------------- MODULE EropEngine_proofs -------------------------
(***************************************************************************)
(* Facts about the operators and the steps of EropEngine, for every value  *)
(* of its constants.  The proofs of the two handshakes rest on them.       *)
(***************************************************************************)
EXTENDS EropEngine, WellFoundedInduction, FiniteSetTheorems, TLAPS

-----------------------------------------------------------------------------
(* Reference numbers.                                                      *)

\* A remainder is smaller than the divisor.
LEMMA ModRange ==
    ASSUME NEW a \in Nat, NEW n \in Nat \ {0}
    PROVE  a % n \in 0 .. n - 1
OBVIOUS

\* A nonempty set of naturals has a smallest element.
LEMMA LeastNat ==
    ASSUME NEW T \in SUBSET Nat, T # {}
    PROVE  \E k \in T : \A j \in T : k <= j
<1> DEFINE R == {ss \in Nat \X Nat : ss[1] < ss[2]}
<1>1. IsWellFoundedOn(R, Nat)
  BY NatLessThanWellFounded, Zenon DEF OpToRel
<1>2. \E k \in T : \A j \in T : ~ (<<j, k>> \in R)
  BY <1>1, WFMin, Zenon
<1>3. PICK k \in T : \A j \in T : ~ (<<j, k>> \in R)
  BY <1>2
<1>4. ASSUME NEW j \in T PROVE k <= j
  <2>1. j \in Nat /\ k \in Nat /\ ~ (<<j, k>> \in R)
    BY <1>3
  <2>2. ~ (j < k)
    BY <2>1
  <2> QED
    BY <2>1, <2>2
<1> QED
  BY <1>4

\* What erop_refNew tries is a reference number.
LEMMA CandidateType ==
    ASSUME TypeOK, NEW n \in Node, NEW k \in 1 .. NREFS
    PROVE  Candidate(n, k) \in 0 .. NREFS - 1
<1>1. NREFS \in Nat \ {0} /\ newRef[n] \in Nat
  BY NumberAssumption DEF TypeOK
<1>2. k - 1 \in Nat /\ newRef[n] + k \in Nat
  BY <1>1
<1> QED
  BY <1>1, <1>2, ModRange DEF Candidate

\* erop_refNew returns a reference number or -1, and leaves its counter in
\* range.
LEMMA RefNewType ==
    ASSUME TypeOK, NEW n \in Node, NEW rem
    PROVE  /\ refNew(n, rem) \in RefNu
           /\ newRefAfter(n, rem) \in 0 .. NREFS
<1> DEFINE T == FreeTries(n, rem)
<1>0. NREFS \in Nat \ {0}
  BY NumberAssumption
<1>1. T \in SUBSET Nat /\ T \subseteq 1 .. NREFS
  BY <1>0 DEF FreeTries
<1>2. NREFS \in 1 .. NREFS
  BY <1>0
<1>3. Candidate(n, NREFS) \in 0 .. NREFS
  BY <1>0, <1>2, CandidateType
<1>4. CASE T = {}
  BY <1>3, <1>4 DEF refNew, newRefAfter, RefNu
<1>5. CASE T # {}
  <2> DEFINE k == CHOOSE k \in T : \A j \in T : k <= j
  <2>1. k \in T
    BY <1>1, <1>5, LeastNat
  <2>2. Candidate(n, k) \in 0 .. NREFS - 1
    BY <1>1, <2>1, CandidateType
  <2>3. refNew(n, rem) = Candidate(n, k) /\ newRefAfter(n, rem) = refNew(n, rem)
    BY <1>5 DEF refNew, newRefAfter
  <2> QED
    BY <1>0, <2>2, <2>3 DEF RefNu
<1> QED
  BY <1>4, <1>5

-----------------------------------------------------------------------------
(* Types.                                                                  *)

\* TypeOK is not inductive: an InvokeInfo in use has a peer and an operation,
\* and so has a PDU that concerns one.
LiveTyped ==
    \A d \in Desc : inv[d].state # "free" =>
        inv[d].rem \in Node /\ inv[d].userRef \in Op
OpPdu == {"INVOKE", "RESULT", "ERROR"}
PduTyped == \A m \in net : m.type \in OpPdu => m.op \in Op
TypeInv == TypeOK /\ LiveTyped /\ PduTyped

Timers == SUBSET [name : TimerName, datum : Nat, left : Nat]

\* The durations of erop_tmrSetValues.
LEMMA DelaysTyped ==
    /\ retransTimeout \in Nat /\ rwait \in Nat /\ refKeepTime \in Nat
    /\ inactivityDelay \in Nat /\ perfNoResponse \in Nat
<1> USE NumberAssumption
<1>1. RetransmitCount * Retransmit \in Nat
  OBVIOUS
<1>2. (RetransmitCount + 1) * (Retransmit + Roundtrip) \in Nat
  OBVIOUS
<1> QED
  BY <1>1, <1>2 DEF retransTimeout, rwait, refKeepTime, inactivityDelay,
                    perfNoResponse

\* erop_tmrCreate and erop_tmrCancel.
LEMMA TimersTyped ==
    ASSUME NEW ts \in Timers, NEW name \in TimerName, NEW time \in Nat,
           NEW datum \in Nat
    PROVE  /\ tmrCreate(ts, name, time, datum) \in Timers
           /\ tmrCancel(ts, name) \in Timers
           /\ tmrRestart(ts, name, time) \in Timers
           /\ lastTimer(ts) \in Timers
           /\ \A t : ts \ {t} \in Timers
BY DelaysTyped DEF tmrCreate, tmrCancel, tmrRestart, lastTimer, Timers, TimerName

\* erop_relPdu.
LEMMA RelPduTyped ==
    ASSUME NEW seq \in Seq(Payload)
    PROVE  relPdu(seq) \in Seq(Payload)
BY DEF relPdu

\* A free element.
LEMMA FreeInfoTyped == FreeInfo \in InvokeInfo
<1>1. NoRef \in RefNu
  BY NumberAssumption DEF RefNu
<1> QED
  BY <1>1 DEF FreeInfo, InvokeInfo, State

\* Giving an InvokeInfo a new value of its type.
LEMMA UpdateTyped ==
    ASSUME TypeInv, NEW d \in Desc, NEW new \in InvokeInfo,
           new.state # "free" => new.rem \in Node /\ new.userRef \in Op,
           inv' = [inv EXCEPT ![d] = new]
    PROVE  inv' \in [Desc -> InvokeInfo] /\ LiveTyped'
<1>1. inv' \in [Desc -> InvokeInfo]
  BY DEF TypeInv, TypeOK
<1>2. \A e \in Desc : inv'[e] = IF e = d THEN new ELSE inv[e]
  BY DEF TypeInv, TypeOK
<1> QED
  BY <1>1, <1>2 DEF LiveTyped, TypeInv

\* A transition that changes the state, the kept PDUs and the timers of an
\* InvokeInfo in use.
LEMMA ChangeTyped ==
    ASSUME TypeInv, NEW d \in Desc, inv[d].state # "free",
           NEW s \in State, NEW ip \in Seq(Payload), NEW rp \in Seq(Payload),
           NEW ts \in Timers,
           inv' = [inv EXCEPT ![d] = [inv[d] EXCEPT
                     !.state = s, !.invokePdu = ip, !.resultPdu = rp,
                     !.tmrs = ts]]
    PROVE  inv' \in [Desc -> InvokeInfo] /\ LiveTyped'
<1> DEFINE new == [inv[d] EXCEPT !.state = s, !.invokePdu = ip,
                                 !.resultPdu = rp, !.tmrs = ts]
<1>1. inv[d] \in InvokeInfo /\ inv[d].rem \in Node /\ inv[d].userRef \in Op
  BY DEF TypeInv, TypeOK, LiveTyped
<1>2. new \in InvokeInfo
  BY <1>1 DEF InvokeInfo, Timers
<1>3. new.rem \in Node /\ new.userRef \in Op
  BY <1>1 DEF InvokeInfo
<1> QED
  BY <1>2, <1>3, UpdateTyped

\* SCH_submit.
LEMMA SubmitTyped ==
    ASSUME TypeOK, NEW n \in Node, NEW tasks \in Seq(Task), Submit(n, tasks)
    PROVE  sch' \in [Node -> Seq(Task)]
BY DEF TypeOK, Submit

\* UDP_dataReq.
LEMMA SendTyped ==
    ASSUME TypeInv, NEW pdu \in Pdu, pdu.type \in OpPdu => pdu.op \in Op,
           NEW ok, net' = Send(net, pdu, ok)
    PROVE  net' \subseteq Pdu /\ PduTyped'
BY DEF TypeInv, TypeOK, PduTyped, Send

\* A PDU built for the peer of an InvokeInfo in use is a PDU.
LEMMA PduOfTyped ==
    ASSUME NEW n \in Node, NEW info \in InvokeInfo, info.rem \in Node,
           NEW type \in PduType, NEW op \in Op \cup {NoOp},
           type \in OpPdu => op \in Op
    PROVE  LET pdu == PduOf(n, info, type, op)
           IN  pdu \in Pdu /\ pdu.type = type /\ pdu.op = op
BY ShapeAssumption, NumberAssumption DEF PduOf, Pdu, OpPdu, InvokeInfo

\* erop_sendFailurePdu builds a PDU for the sender of m.
LEMMA FailurePduTyped ==
    ASSUME NEW m \in Pdu
    PROVE  FailurePduFor(m) \in Pdu /\ FailurePduFor(m).type = "FAILURE"
BY NumberAssumption DEF FailurePduFor, Pdu, PduType

\* The indications to the invoking user.
LEMMA InvokerIndTyped ==
    ASSUME TypeOK, NEW d \in Desc, NEW kind \in {"result", "error", "failure"},
           NEW op \in Op, inv[d].userRef \in Op, invokerInd(d, kind, op)
    PROVE  /\ sch' \in [Node -> Seq(Task)]
           /\ ind' \in [Op -> Seq(Outcome)]
<1>1. d[1] \in Node /\ d[2] \in Slot
  BY DEF Desc
<1>2. ASSUME NEW tk \in TaskKind PROVE <<TaskFor(d, tk, op)>> \in Seq(Task)
  BY <1>1 DEF TaskFor, Task
<1>3. sch' \in [Node -> Seq(Task)]
  BY <1>1, <1>2, SubmitTyped DEF invokerInd, TaskKind
<1>4. ind' = [ind EXCEPT ![inv[d].userRef] =
                Append(ind[inv[d].userRef], [kind |-> kind, op |-> op])]
  BY Zenon DEF invokerInd
<1>5. [kind |-> kind, op |-> op] \in Outcome
  BY DEF Outcome
<1> QED
  BY <1>3, <1>4, <1>5 DEF TypeOK

\* The confirmations to the performing user.
LEMMA PerformerCnfTyped ==
    ASSUME TypeOK, NEW d \in Desc, NEW kind \in {"result", "error", "failure"},
           inv[d].userRef \in Op, performerCnf(d, kind)
    PROVE  /\ sch' \in [Node -> Seq(Task)]
           /\ cnf' \in [Op -> Seq({"result", "error", "failure"})]
<1>1. d[1] \in Node /\ d[2] \in Slot /\ inv[d].userRef \in Op \cup {NoOp}
  BY DEF Desc, TypeOK, InvokeInfo
<1>2. ASSUME NEW tk \in TaskKind
      PROVE <<TaskFor(d, tk, inv[d].userRef)>> \in Seq(Task)
  BY <1>1 DEF TaskFor, Task
<1>3. sch' \in [Node -> Seq(Task)]
  BY <1>1, <1>2, SubmitTyped DEF performerCnf, TaskKind
<1>4. cnf' = [cnf EXCEPT ![inv[d].userRef] =
                Append(cnf[inv[d].userRef], kind)]
  BY Zenon DEF performerCnf
<1>5. Append(cnf[inv[d].userRef], kind) \in Seq({"result", "error", "failure"})
  BY DEF TypeOK
<1> QED
  BY <1>3, <1>4, <1>5 DEF TypeOK

\* The timers of an InvokeInfo in use.
LEMMA RetimedTyped ==
    ASSUME TypeInv, NEW d \in Desc, inv[d].state # "free", NEW ts \in Timers,
           inv' = [inv EXCEPT ![d].tmrs = ts]
    PROVE  inv' \in [Desc -> InvokeInfo] /\ LiveTyped'
<1>1. inv[d] \in InvokeInfo
  BY DEF TypeInv, TypeOK
<1>2. [inv[d] EXCEPT !.tmrs = ts] \in InvokeInfo
  BY <1>1 DEF InvokeInfo, Timers
<1>3. /\ [inv[d] EXCEPT !.tmrs = ts].rem = inv[d].rem
      /\ [inv[d] EXCEPT !.tmrs = ts].userRef = inv[d].userRef
      /\ inv[d].rem \in Node /\ inv[d].userRef \in Op
  BY <1>1 DEF InvokeInfo, TypeInv, LiveTyped
<1> QED
  BY <1>2, <1>3, UpdateTyped

\* What is known of an InvokeInfo in use, and of its timers.
LEMMA InUse ==
    ASSUME TypeInv, NEW d \in Desc, inv[d].state # "free"
    PROVE  /\ inv[d] \in InvokeInfo /\ d[1] \in Node /\ d[2] \in Slot
           /\ inv[d].tmrs \in Timers /\ {} \in Timers
           /\ inv[d].invokePdu \in Seq(Payload)
           /\ inv[d].resultPdu \in Seq(Payload)
           /\ inv[d].rem \in Node /\ inv[d].userRef \in Op
           /\ \A name : \A t \in Expired(d, name) :
                t \in inv[d].tmrs /\ t.datum \in Nat
BY DEF TypeInv, TypeOK, LiveTyped, InvokeInfo, Timers, Expired, Desc

-----------------------------------------------------------------------------
(* Every step both diagrams share preserves the types.                     *)

\* EROP_invokeReq with an empty pool preserves the types.
LEMMA InvokeReqRefusedTyped ==
    ASSUME TypeInv, NEW op \in Op, InvokeReqRefused(op)
    PROVE  TypeInv'
<1>1. [kind |-> "refused", op |-> op] \in Outcome
  BY DEF Outcome
<1>2. ind' \in [Op -> Seq(Outcome)]
  BY <1>1 DEF InvokeReqRefused, TypeInv, TypeOK
<1> QED
  BY <1>2 DEF InvokeReqRefused, TypeInv, TypeOK, LiveTyped, PduTyped

\* tr_clInvoker01, with or without a reference number, preserves the types.
LEMMA InvokeReqTyped ==
    ASSUME TypeInv, NEW op \in Op, InvokeReq(op)
    PROVE  TypeInv'
<1> DEFINE new == NewInvocation(op)
           sent == SentInvocation(op)
<1>1. From[op] \in Node /\ To[op] \in Node /\ FromSap[op] \in Sap
  BY ShapeAssumption
<1>2. /\ refNew(From[op], To[op]) \in RefNu
      /\ newRefAfter(From[op], To[op]) \in 0 .. NREFS
  BY <1>1, RefNewType DEF TypeInv
<1>3. new \in InvokeInfo /\ new.rem = To[op] /\ new.userRef = op
  BY <1>1, <1>2, FreeInfoTyped
  DEF NewInvocation, InvokeInfo, State, InvokerState
<1>4. [kind |-> "invoke", op |-> op] \in Payload
  BY DEF Payload
<1>5. pduKeep(new.invokePdu, [kind |-> "invoke", op |-> op]) \in Seq(Payload)
  BY <1>3, <1>4 DEF pduKeep, InvokeInfo
<1>6. tmrCreate(new.tmrs, "invokePduRetran", retransTimeout, 0) \in Timers
  BY <1>3, TimersTyped, DelaysTyped DEF InvokeInfo, Timers, TimerName
<1>7. sent \in InvokeInfo /\ sent.rem = To[op] /\ sent.userRef = op
  BY <1>3, <1>5, <1>6 DEF SentInvocation, InvokeInfo, Timers
<1>8. PICK d \in Avail(From[op]) :
         \/ inv' = [inv EXCEPT ![d] = new] /\ UNCHANGED net
         \/ /\ inv' = [inv EXCEPT ![d] = sent]
            /\ \E ok \in SendOutcome :
                 net' = Send(net, PduOf(From[op], new, "INVOKE", op), ok)
  BY DEF InvokeReq
<1>9. d \in Desc
  BY <1>1 DEF Avail, Desc
<1>10. inv' \in [Desc -> InvokeInfo] /\ LiveTyped'
  BY <1>1, <1>3, <1>7, <1>8, <1>9, UpdateTyped
<1>11. net' \subseteq Pdu /\ PduTyped'
  <2>1. CASE UNCHANGED net
    BY <2>1 DEF TypeInv, TypeOK, PduTyped
  <2>2. ASSUME NEW ok \in SendOutcome,
               net' = Send(net, PduOf(From[op], new, "INVOKE", op), ok)
        PROVE  net' \subseteq Pdu /\ PduTyped'
    BY <1>1, <1>3, <2>2, PduOfTyped, SendTyped DEF PduType
  <2> QED
    BY <1>8, <2>1, <2>2
<1>12. newRef' \in [Node -> 0 .. NREFS] /\ asked' \subseteq Op
  BY <1>1, <1>2 DEF InvokeReq, TypeInv, TypeOK
<1>13. UNCHANGED <<sch, ind, exec, work, answer, cnf>>
  BY DEF InvokeReq
<1> QED
  BY <1>10, <1>11, <1>12, <1>13 DEF TypeInv, TypeOK

\* tr_clInvoker02, with or without a kept PDU, preserves the types.
LEMMA InvokerRetranTyped ==
    ASSUME TypeInv, NEW d \in Desc, InvokerRetran(d)
    PROVE  TypeInv'
<1>1. inv[d].state # "free"
  BY DEF InvokerRetran
<1>2. PICK t \in Expired(d, "invokePduRetran"), ok \in SendOutcome :
        LET rest == inv[d].tmrs \ {t} IN
        \/ /\ inv' = [inv EXCEPT ![d].tmrs = lastTimer(rest)]
           /\ UNCHANGED net
        \/ /\ inv' = [inv EXCEPT ![d].tmrs =
                        tmrCreate(rest, "invokePduRetran", retransTimeout,
                                  t.datum + 1)]
           /\ \/ UNCHANGED net
              \/ net' = Send(net, PduOf(d[1], inv[d], "INVOKE",
                                        inv[d].userRef), ok)
  BY DEF InvokerRetran
<1>3. inv[d].tmrs \ {t} \in Timers /\ t.datum + 1 \in Nat
  BY <1>1, <1>2, InUse, TimersTyped DEF Timers
<1>4. inv' \in [Desc -> InvokeInfo] /\ LiveTyped'
  BY <1>1, <1>2, <1>3, RetimedTyped, TimersTyped, DelaysTyped DEF TimerName
<1>5. net' \subseteq Pdu /\ PduTyped'
  <2>1. CASE UNCHANGED net
    BY <2>1 DEF TypeInv, TypeOK, PduTyped
  <2>2. CASE net' = Send(net, PduOf(d[1], inv[d], "INVOKE", inv[d].userRef), ok)
    BY <1>1, <2>2, InUse, PduOfTyped, SendTyped DEF PduType
  <2> QED
    BY <1>2, <2>1, <2>2
<1>6. UNCHANGED <<newRef, sch, userVars>>
  BY DEF InvokerRetran
<1> QED
  BY <1>4, <1>5, <1>6 DEF TypeInv, TypeOK, userVars

\* tr_clInvoker03 preserves the types.
LEMMA InvokerLastTyped ==
    ASSUME TypeInv, NEW d \in Desc, InvokerLast(d)
    PROVE  TypeInv'
<1>1. inv[d].state # "free"
  BY DEF InvokerLast
<1>2. PICK t \in Expired(d, "last") :
         inv' = [inv EXCEPT
                   ![d].state = "InvokerRefWait",
                   ![d].invokePdu = relPdu(@), ![d].resultPdu = relPdu(@),
                   ![d].tmrs = tmrCreate(@ \ {t}, "refNu", refKeepTime, 0)]
  BY DEF InvokerLast
<1> DEFINE ts == tmrCreate(inv[d].tmrs \ {t}, "refNu", refKeepTime, 0)
<1>3. ts \in Timers
  BY <1>1, InUse, TimersTyped, DelaysTyped DEF TimerName
<1>4. inv' = [inv EXCEPT ![d] = [inv[d] EXCEPT
                !.state = "InvokerRefWait",
                !.invokePdu = relPdu(inv[d].invokePdu),
                !.resultPdu = relPdu(inv[d].resultPdu), !.tmrs = ts]]
  BY <1>2
<1>5. inv' \in [Desc -> InvokeInfo] /\ LiveTyped'
  <2> HIDE DEF ts
  <2> QED
    BY <1>1, <1>3, <1>4, InUse, RelPduTyped, ChangeTyped DEF State, InvokerState
<1>6. sch' \in [Node -> Seq(Task)] /\ ind' \in [Op -> Seq(Outcome)]
  BY <1>1, InUse, InvokerIndTyped DEF InvokerLast, TypeInv
<1>7. UNCHANGED <<newRef, net, asked, exec, work, answer, cnf>>
  BY DEF InvokerLast
<1> QED
  BY <1>5, <1>6, <1>7 DEF TypeInv, TypeOK, PduTyped

\* tr_clInvoker05 preserves the types, given an InvokeInfo in use.
LEMMA FailOperationTyped ==
    ASSUME TypeInv, NEW d \in Desc, inv[d].state # "free", FailOperation(d)
    PROVE  TypeInv'
<1> DEFINE ts == tmrCreate({}, "refNu", refKeepTime, 0)
<1>1. ts \in Timers
  BY InUse, TimersTyped, DelaysTyped DEF TimerName
<1>2. inv[d] \in InvokeInfo
  BY InUse
<1>3. inv' = [inv EXCEPT ![d] = [inv[d] EXCEPT
                !.state = "InvokerRefWait", !.invokePdu = inv[d].invokePdu,
                !.resultPdu = inv[d].resultPdu, !.tmrs = ts]]
  BY <1>2 DEF FailOperation, InvokeInfo
<1>4. inv' \in [Desc -> InvokeInfo] /\ LiveTyped'
  <2> HIDE DEF ts
  <2> QED
    BY <1>1, <1>3, InUse, ChangeTyped DEF State, InvokerState
<1>5. sch' \in [Node -> Seq(Task)] /\ ind' \in [Op -> Seq(Outcome)]
  BY InUse, InvokerIndTyped DEF FailOperation, TypeInv
<1>6. UNCHANGED <<newRef, net, asked, exec, work, answer, cnf>>
  BY DEF FailOperation
<1> QED
  BY <1>4, <1>5, <1>6 DEF TypeInv, TypeOK, PduTyped

\* A reference number is found only in an InvokeInfo of the engine asked.
LEMMA MappedInDesc ==
    ASSUME NEW n \in Node, NEW map, NEW ref, NEW rem, NEW d \in Mapped(n, map, ref, rem)
    PROVE  d \in Desc /\ d[1] = n /\ inv[d].refMap = map /\ inv[d].rem = rem
BY DEF Mapped, Desc

\* A PDU in transit has two engines as its ends.
LEMMA PduInNet ==
    ASSUME TypeInv, NEW m \in net
    PROVE  m \in Pdu /\ m.dst \in Node /\ m.src \in Node
BY DEF TypeInv, TypeOK, Pdu

\* A FAILURE PDU finds an InvokeInfo in use.
LEMMA InvokerFailureTyped ==
    ASSUME TypeInv, NEW m \in net, InvokerFailure(m)
    PROVE  TypeInv'
<1>1. PICK d \in refToInvoker(m.dst, m.ref, m.src) :
        inv[d].state = "InvokePduSent" /\ FailOperation(d)
  BY DEF InvokerFailure
<1>2. d \in Desc
  BY <1>1, PduInNet, MappedInDesc DEF refToInvoker
<1> QED
  BY <1>1, <1>2, FailOperationTyped

\* A FAILURE PDU in answer to m, and nothing else.
LEMMA FailureSentTyped ==
    ASSUME TypeInv, NEW m \in net, NEW ok,
           net' = Send(net, FailurePduFor(m), ok),
           UNCHANGED <<inv, newRef, sch, userVars>>
    PROVE  TypeInv'
<1>1. net' \subseteq Pdu /\ PduTyped'
  BY PduInNet, FailurePduTyped, SendTyped DEF OpPdu
<1> QED
  BY <1>1 DEF TypeInv, TypeOK, LiveTyped, userVars

\* erop_getInvoke, a RESULT nobody asked for: only a FAILURE PDU is added.
LEMMA ResultPduUnknownTyped ==
    ASSUME TypeInv, NEW m \in net, ResultPduUnknown(m)
    PROVE  TypeInv'
BY FailureSentTyped DEF ResultPduUnknown

\* erop_getInvoke, an INVOKE it cannot serve: only a FAILURE PDU is added.
LEMMA InvokePduRefusedTyped ==
    ASSUME TypeInv, NEW m \in net, InvokePduRefused(m)
    PROVE  TypeInv'
BY FailureSentTyped DEF InvokePduRefused

\* The InvokeInfo goes back to a start state and its release is submitted.
LEMMA ReleaseTyped ==
    ASSUME TypeInv, NEW d \in Desc, inv[d].state # "free",
           NEW s \in StartState, NEW t,
           inv' = [inv EXCEPT ![d].state = s, ![d].tmrs = @ \ {t}],
           Submit(d[1], <<TaskFor(d, "relInvoke", NoOp)>>),
           UNCHANGED <<newRef, net, userVars>>
    PROVE  TypeInv'
<1> DEFINE ts == inv[d].tmrs \ {t}
<1>1. ts \in Timers
  BY InUse, TimersTyped DEF Timers
<1>2. inv[d] \in InvokeInfo
  BY InUse
<1> DEFINE new == [inv[d] EXCEPT !.state = s, !.tmrs = ts]
<1>3. /\ inv' = [inv EXCEPT ![d] = new]
      /\ inv[d].rem \in Node /\ inv[d].userRef \in Op /\ s \in State
  BY InUse DEF State, InvokerState, PerformerState, StartState
<1>4. inv' \in [Desc -> InvokeInfo] /\ LiveTyped'
  <2>1. new \in InvokeInfo /\ new.rem \in Node /\ new.userRef \in Op
    BY <1>1, <1>2, <1>3 DEF InvokeInfo, Timers
  <2> HIDE DEF new
  <2> QED
    BY <1>3, <2>1, UpdateTyped
<1>5. <<TaskFor(d, "relInvoke", NoOp)>> \in Seq(Task)
  BY InUse DEF TaskFor, Task, TaskKind
<1>6. sch' \in [Node -> Seq(Task)]
  BY <1>5, InUse, SubmitTyped DEF TypeInv
<1> QED
  BY <1>4, <1>6 DEF TypeInv, TypeOK, PduTyped, userVars

\* tr_clInvoker08 preserves the types.
LEMMA InvokerReleaseTyped ==
    ASSUME TypeInv, NEW d \in Desc, InvokerRelease(d)
    PROVE  TypeInv'
BY ReleaseTyped DEF InvokerRelease, StartState

\* tr_clPerformer10 preserves the types.
LEMMA PerformerReleaseTyped ==
    ASSUME TypeInv, NEW d \in Desc, PerformerRelease(d)
    PROVE  TypeInv'
BY ReleaseTyped DEF PerformerRelease, StartState

\* tr_clPerformer01: a fresh InvokeInfo gets the peer and the operation of the
\* INVOKE PDU.
LEMMA PerformerInvokeTyped ==
    ASSUME TypeInv, NEW m \in net, PerformerInvoke(m)
    PROVE  TypeInv'
<1>1. /\ m \in Pdu /\ m.dst \in Node /\ m.src \in Node /\ m.op \in Op
      /\ m.ref \in RefNu /\ m.sap \in Sap \cup {NoSap}
  BY PduInNet DEF PerformerInvoke, Receive, TypeInv, PduTyped, OpPdu, Pdu
<1>2. PICK d \in {m.dst} \X Slot :
        /\ inv' = [inv EXCEPT ![d] =
              [inv[d] EXCEPT
                 !.state = "InvokePduReceived", !.sap = m.sap,
                 !.rem = m.src, !.ref = m.ref, !.userRef = m.op,
                 !.tmrs = tmrCreate(inv[d].tmrs, "perfNoResponse",
                                    perfNoResponse, 0)]]
        /\ Submit(d[1], <<TaskFor(d, "invokeInd", m.op)>>)
  BY DEF PerformerInvoke, Avail, Duplicates
<1>3. d \in Desc /\ d[1] \in Node /\ d[2] \in Slot
  BY <1>1, <1>2 DEF Desc
<1>4. inv[d] \in InvokeInfo /\ inv[d].tmrs \in Timers
  BY <1>3 DEF TypeInv, TypeOK, InvokeInfo, Timers
<1> DEFINE ts == tmrCreate(inv[d].tmrs, "perfNoResponse", perfNoResponse, 0)
           new == [inv[d] EXCEPT !.state = "InvokePduReceived", !.sap = m.sap,
                     !.rem = m.src, !.ref = m.ref, !.userRef = m.op,
                     !.tmrs = ts]
<1>5. ts \in Timers
  BY <1>4, TimersTyped, DelaysTyped DEF TimerName
<1>6. new \in InvokeInfo /\ new.rem = m.src /\ new.userRef = m.op
  <2> HIDE DEF ts
  <2> QED
    BY <1>1, <1>4, <1>5 DEF InvokeInfo, Timers, State, PerformerState
<1>7. inv' \in [Desc -> InvokeInfo] /\ LiveTyped'
  <2>1. inv' = [inv EXCEPT ![d] = new]
    BY <1>2
  <2> HIDE DEF new
  <2> QED
    BY <1>1, <1>3, <1>6, <2>1, UpdateTyped
<1>8. <<TaskFor(d, "invokeInd", m.op)>> \in Seq(Task)
  BY <1>1, <1>3 DEF TaskFor, Task, TaskKind
<1>9. sch' \in [Node -> Seq(Task)]
  BY <1>2, <1>3, <1>8, SubmitTyped DEF TypeInv
<1>10. exec' \in [Op -> Nat]
  BY <1>1 DEF PerformerInvoke, TypeInv, TypeOK
<1>11. UNCHANGED <<newRef, net, asked, ind, work, answer, cnf>>
  BY DEF PerformerInvoke
<1> QED
  BY <1>7, <1>9, <1>10, <1>11 DEF TypeInv, TypeOK, PduTyped

\* RESULT and ERROR are PDU types.
LEMMA ResultTypeTyped ==
    ASSUME NEW kind
    PROVE  ResultType(kind) \in PduType
BY DEF ResultType, PduType

\* tr_clPerformer02 and tr_2clPerformer03, whether the reference number can be
\* kept or not, preserve the types.
LEMMA AnswerSentTyped ==
    ASSUME TypeInv, NEW d \in Desc, NEW kind \in Reply,
           NEW next \in AnswerState, NEW timer \in TimerName, NEW delay \in Nat,
           AnswerSent(d, kind, next, timer, delay)
    PROVE  TypeInv'
<1>1. /\ inv[d].state # "free" /\ work[d] \in Op
      /\ kind \in {"result", "error"} /\ next \in State
  BY ShapeAssumption
  DEF AnswerSent, TypeInv, TypeOK, State, PerformerState, AnswerState
<1> DEFINE new == [inv[d] EXCEPT !.state = next, !.isResult = kind]
           rp == pduKeep(inv[d].resultPdu, [kind |-> kind, op |-> work[d]])
           ts == tmrCancel(tmrCreate(inv[d].tmrs, timer, delay, 0),
                           "perfNoResponse")
           kept == [new EXCEPT !.refMap = "performer", !.resultPdu = rp,
                               !.tmrs = ts]
<1>2. /\ new \in InvokeInfo /\ new.rem \in Node /\ new.userRef \in Op
      /\ new.resultPdu = inv[d].resultPdu /\ new.tmrs = inv[d].tmrs
  BY <1>1, InUse, ZenonT(60) DEF InvokeInfo
<1>3. rp \in Seq(Payload) /\ ts \in Timers
  <2>1. [kind |-> kind, op |-> work[d]] \in Payload
    BY <1>1 DEF Payload
  <2>2. inv[d].resultPdu \in Seq(Payload) /\ inv[d].tmrs \in Timers
    BY <1>1, InUse
  <2>3. rp \in Seq(Payload)
    BY <2>1, <2>2 DEF pduKeep
  <2>4. tmrCreate(inv[d].tmrs, timer, delay, 0) \in Timers
    BY <2>2, TimersTyped
  <2> QED
    BY <2>3, <2>4, TimersTyped DEF TimerName
<1>4. kept \in InvokeInfo /\ kept.rem \in Node /\ kept.userRef \in Op
  <2> HIDE DEF new, rp, ts
  <2> QED
    BY <1>2, <1>3 DEF InvokeInfo, Timers
<1>5. PICK ok \in SendOutcome :
        \/ inv' = [inv EXCEPT ![d] = new] /\ UNCHANGED net
        \/ /\ inv' = [inv EXCEPT ![d] = kept]
           /\ net' = Send(net, PduOf(d[1], new, ResultType(kind), work[d]), ok)
  BY <1>2 DEF AnswerSent
<1> HIDE DEF new, kept
<1>6. inv' \in [Desc -> InvokeInfo] /\ LiveTyped'
  BY <1>2, <1>4, <1>5, UpdateTyped
<1>7. net' \subseteq Pdu /\ PduTyped'
  <2>1. CASE UNCHANGED net
    BY <2>1 DEF TypeInv, TypeOK, PduTyped
  <2>2. CASE net' = Send(net, PduOf(d[1], new, ResultType(kind), work[d]), ok)
    <3>1. d[1] \in Node
      BY <1>1, InUse
    <3> QED
      BY <1>1, <1>2, <2>2, <3>1, ResultTypeTyped, PduOfTyped, SendTyped
  <2> QED
    BY <1>5, <2>1, <2>2
<1>8. /\ work' \in [Desc -> Op \cup {NoOp}]
      /\ answer' \in [Op -> SUBSET {"result", "error"}]
  BY <1>1 DEF AnswerSent, TypeInv, TypeOK
<1>9. UNCHANGED <<newRef, sch, asked, ind, exec, cnf>>
  BY DEF AnswerSent
<1> QED
  BY <1>6, <1>7, <1>8, <1>9 DEF TypeInv, TypeOK

\* An answer nobody waits for preserves the types.
LEMMA ResultReqIgnoredTyped ==
    ASSUME TypeInv, NEW d \in Desc, NEW kind \in Reply, ResultReqIgnored(d, kind)
    PROVE  TypeInv'
<1>1. /\ work' \in [Desc -> Op \cup {NoOp}]
      /\ answer' \in [Op -> SUBSET {"result", "error"}]
  BY ShapeAssumption DEF ResultReqIgnored, TypeInv, TypeOK
<1> QED
  BY <1>1 DEF ResultReqIgnored, TypeInv, TypeOK, LiveTyped, PduTyped

\* The kept RESULT or ERROR PDU goes out again.
LEMMA SendKeptTyped ==
    ASSUME TypeInv, NEW d \in Desc, inv[d].state # "free", NEW ok,
           net' = SendKeptResult(d, net, ok)
    PROVE  net' \subseteq Pdu /\ PduTyped'
<1>1. CASE inv[d].resultPdu = <<>>
  BY <1>1 DEF SendKeptResult, TypeInv, TypeOK, PduTyped
<1>2. CASE inv[d].resultPdu # <<>>
  <2> DEFINE kept == Head(inv[d].resultPdu)
  <2>1. kept.op \in Op
    <3>1. kept \in Payload
      BY <1>2, InUse
    <3> QED
      BY <3>1 DEF Payload
  <2>2. net' = Send(net, PduOf(d[1], inv[d], ResultType(kept.kind), kept.op), ok)
    BY <1>2 DEF SendKeptResult
  <2> HIDE DEF kept
  <2> QED
    BY <2>1, <2>2, InUse, ResultTypeTyped, PduOfTyped, SendTyped
<1> QED
  BY <1>1, <1>2

\* tr_clPerformer06 and tr_2clPerformer05 preserve the types.
LEMMA AnswerAgainTyped ==
    ASSUME TypeInv, NEW m \in net, NEW state \in AnswerState,
           AnswerAgain(m, state)
    PROVE  TypeInv'
<1>1. PICK ok \in SendOutcome, d \in Duplicates(m) :
        /\ inv[d].state = state
        /\ \/ inv' = [inv EXCEPT ![d].tmrs =
                        tmrRestart(inv[d].tmrs, "resultPduRetran", retransTimeout)]
           \/ inv' = inv
        /\ net' = SendKeptResult(d, net, ok)
        /\ UNCHANGED <<newRef, sch, userVars>>
  BY DEF AnswerAgain
<1>2. d \in Desc /\ inv[d].state # "free"
  BY PduInNet DEF Duplicates, Desc
<1>3. net' \subseteq Pdu /\ PduTyped'
  BY <1>1, <1>2, SendKeptTyped
<1>4. tmrRestart(inv[d].tmrs, "resultPduRetran", retransTimeout) \in Timers
  BY <1>2, InUse, TimersTyped, DelaysTyped DEF TimerName
<1>5. inv' \in [Desc -> InvokeInfo] /\ LiveTyped'
  <2>1. CASE inv' = inv
    BY <2>1 DEF TypeInv, TypeOK, LiveTyped
  <2> QED
    BY <1>1, <1>2, <1>4, <2>1, RetimedTyped
<1> QED
  BY <1>1, <1>3, <1>5 DEF TypeInv, TypeOK, userVars

\* tr_clPerformer08 preserves the types.
LEMMA PerformerNoResponseTyped ==
    ASSUME TypeInv, NEW d \in Desc, PerformerNoResponse(d)
    PROVE  TypeInv'
<1>1. inv[d].state # "free"
  BY DEF PerformerNoResponse
<1>2. inv[d] \in InvokeInfo
  BY <1>1, InUse
<1>3. inv' = [inv EXCEPT ![d] = [inv[d] EXCEPT
                !.state = "CLPerformerStart",
                !.invokePdu = relPdu(inv[d].invokePdu),
                !.resultPdu = inv[d].resultPdu, !.tmrs = {}]]
  BY <1>2 DEF PerformerNoResponse, InvokeInfo
<1>4. inv' \in [Desc -> InvokeInfo] /\ LiveTyped'
  BY <1>1, <1>3, InUse, RelPduTyped, ChangeTyped DEF State, PerformerState
<1>5. net' \subseteq Pdu /\ PduTyped'
  <2> DEFINE pdu == PduOf(d[1], inv[d], "FAILURE", NoOp)
  <2>1. PICK ok \in SendOutcome : net' = Send(net, pdu, ok)
    BY DEF PerformerNoResponse
  <2>2. pdu \in Pdu /\ pdu.type = "FAILURE"
    BY <1>1, InUse, PduOfTyped DEF PduType, OpPdu
  <2> HIDE DEF pdu
  <2> QED
    BY <2>1, <2>2, SendTyped DEF OpPdu
<1>6. NoResponseTasks(d) \in Seq(Task)
  BY <1>1, InUse DEF NoResponseTasks, TaskFor, Task, TaskKind
<1>7. sch' \in [Node -> Seq(Task)]
  BY <1>1, <1>6, InUse, SubmitTyped DEF PerformerNoResponse, TypeInv
<1>8. cnf' \in [Op -> Seq({"result", "error", "failure"})]
  BY <1>1, InUse DEF PerformerNoResponse, TypeInv, TypeOK
<1>9. UNCHANGED <<newRef, asked, ind, exec, work, answer>>
  BY DEF PerformerNoResponse
<1> QED
  BY <1>4, <1>5, <1>7, <1>8, <1>9 DEF TypeInv, TypeOK

\* tr_clPerformer07 preserves the types.
LEMMA PerformerLateInvokeTyped ==
    ASSUME TypeInv, NEW m \in net, PerformerLateInvoke(m)
    PROVE  TypeInv'
<1>1. PICK d \in Duplicates(m) :
        inv' = [inv EXCEPT ![d].tmrs =
                  tmrRestart(inv[d].tmrs, "refNu", refKeepTime)]
  BY DEF PerformerLateInvoke
<1>2. d \in Desc /\ inv[d].state # "free"
  BY PduInNet DEF Duplicates, Desc
<1>3. tmrRestart(inv[d].tmrs, "refNu", refKeepTime) \in Timers
  BY <1>2, InUse, TimersTyped, DelaysTyped DEF TimerName
<1>4. inv' \in [Desc -> InvokeInfo] /\ LiveTyped'
  BY <1>1, <1>2, <1>3, RetimedTyped
<1> QED
  BY <1>4 DEF PerformerLateInvoke, TypeInv, TypeOK, PduTyped, userVars

\* A task of the scheduler, erop_relInvoke among them, preserves the types.
LEMMA RunTaskTyped ==
    ASSUME TypeInv, NEW n \in Node, RunTask(n)
    PROVE  TypeInv'
<1> DEFINE t == Head(sch[n])
           d == <<n, t.slot>>
<1>1. sch[n] \in Seq(Task) /\ sch[n] # <<>>
  BY DEF RunTask, TypeInv, TypeOK
<1>2. t \in Task /\ Tail(sch[n]) \in Seq(Task)
  BY <1>1
<1>3. d \in Desc /\ t.op \in Op \cup {NoOp}
  BY <1>2 DEF Desc, Task
<1>4. sch' \in [Node -> Seq(Task)]
  BY <1>2 DEF RunTask, TypeInv, TypeOK
<1>5. inv' \in [Desc -> InvokeInfo] /\ LiveTyped'
  <2>1. CASE UNCHANGED inv
    BY <2>1 DEF TypeInv, TypeOK, LiveTyped
  <2>2. CASE inv' = [inv EXCEPT ![d] = FreeInfo]
    <3>1. FreeInfo.state = "free"
      BY DEF FreeInfo
    <3> HIDE DEF d
    <3> QED
      BY <1>3, <2>2, <3>1, FreeInfoTyped, UpdateTyped
  <2> QED
    BY <2>1, <2>2 DEF RunTask, relInvoke
<1>6. work' \in [Desc -> Op \cup {NoOp}]
  <2>1. \/ work' = [work EXCEPT ![d] = t.op]
        \/ work' = [work EXCEPT ![d] = NoOp]
        \/ work' = work
    BY DEF RunTask
  <2> HIDE DEF t, d
  <2> QED
    BY <1>3, <2>1 DEF TypeInv, TypeOK
<1>7. UNCHANGED <<newRef, net, asked, ind, exec, answer, cnf>>
  BY DEF RunTask
<1> QED
  BY <1>4, <1>5, <1>6, <1>7 DEF TypeInv, TypeOK, PduTyped

\* One unit of time off every timer of an InvokeInfo.
LEMMA TickedTyped ==
    ASSUME NEW info \in InvokeInfo, \A t \in info.tmrs : t.left > 0
    PROVE  LET new == [info EXCEPT !.tmrs = {[t EXCEPT !.left = @ - 1] : t \in @}]
           IN  /\ new \in InvokeInfo /\ new.state = info.state
               /\ new.rem = info.rem /\ new.userRef = info.userRef
               /\ new.ref = info.ref /\ new.refMap = info.refMap
<1> DEFINE ts == {[t EXCEPT !.left = t.left - 1] : t \in info.tmrs}
<1>1. ASSUME NEW t \in info.tmrs
      PROVE  [t EXCEPT !.left = t.left - 1] \in [name : TimerName, datum : Nat, left : Nat]
  BY SMTT(40) DEF InvokeInfo
<1>2. ts \in SUBSET [name : TimerName, datum : Nat, left : Nat]
  BY <1>1
<1>3. [info EXCEPT !.tmrs = {[t EXCEPT !.left = @ - 1] : t \in @}]
        = [info EXCEPT !.tmrs = ts]
  OBVIOUS
<1> HIDE DEF ts
<1> QED
  BY <1>2, <1>3 DEF InvokeInfo

\* The clock takes a unit off every timer and every PDU, none of them at 0.
LEMMA TickTyped ==
    ASSUME TypeInv, Tick
    PROVE  TypeInv'
<1>1. ASSUME NEW d \in Desc
      PROVE  /\ inv[d] \in InvokeInfo /\ \A t \in inv[d].tmrs : t.left > 0
             /\ inv'[d] = [inv[d] EXCEPT !.tmrs = {[t EXCEPT !.left = @ - 1] : t \in @}]
  BY DEF Tick, TypeInv, TypeOK
<1>2. ASSUME NEW d \in Desc
      PROVE  /\ inv'[d] \in InvokeInfo /\ inv'[d].state = inv[d].state
             /\ inv'[d].rem = inv[d].rem /\ inv'[d].userRef = inv[d].userRef
  BY <1>1, TickedTyped, ZenonT(60)
<1>3. inv' \in [Desc -> InvokeInfo] /\ LiveTyped'
  <2>1. inv' = [d \in Desc |-> inv'[d]]
    BY DEF Tick
  <2> QED
    BY <1>2, <2>1 DEF TypeInv, LiveTyped
<1>4. net' \subseteq Pdu /\ PduTyped'
  <2>1. ASSUME NEW m \in net, m.ttl > 0
        PROVE  /\ [m EXCEPT !.ttl = m.ttl - 1] \in Pdu
               /\ [m EXCEPT !.ttl = m.ttl - 1].type = m.type
               /\ [m EXCEPT !.ttl = m.ttl - 1].op = m.op
    <3>1. m \in Pdu
      BY PduInNet
    <3>2. m.ttl - 1 \in Nat
      BY <2>1, <3>1 DEF Pdu
    <3> QED
      BY <3>1, <3>2 DEF Pdu
  <2>2. net' = {[m EXCEPT !.ttl = m.ttl - 1] : m \in {p \in net : p.ttl > 0}}
    BY DEF Tick
  <2> QED
    BY <2>1, <2>2 DEF TypeInv, PduTyped
<1>5. UNCHANGED <<newRef, sch, userVars>>
  BY DEF Tick
<1> QED
  BY <1>3, <1>4, <1>5 DEF TypeInv, TypeOK, userVars

\* An unexpected timer preserves the types.
LEMMA IgnoreTimerTyped ==
    ASSUME TypeInv, NEW d \in Desc, NEW expects, IgnoreTimer(d, expects)
    PROVE  TypeInv'
<1>1. PICK t \in inv[d].tmrs : inv' = [inv EXCEPT ![d].tmrs = @ \ {t}]
  BY DEF IgnoreTimer
<1> DEFINE new == [inv[d] EXCEPT !.tmrs = inv[d].tmrs \ {t}]
<1>2. inv[d] \in InvokeInfo /\ inv' = [inv EXCEPT ![d] = new]
  BY <1>1 DEF TypeInv, TypeOK
<1>3. /\ new \in InvokeInfo /\ new.state = inv[d].state
      /\ new.rem = inv[d].rem /\ new.userRef = inv[d].userRef
  BY <1>2 DEF InvokeInfo
<1>4. inv' \in [Desc -> InvokeInfo] /\ LiveTyped'
  <2> HIDE DEF new
  <2>1. new.state # "free" => new.rem \in Node /\ new.userRef \in Op
    BY <1>3 DEF TypeInv, LiveTyped
  <2> QED
    BY <1>2, <1>3, <2>1, UpdateTyped
<1> QED
  BY <1>4 DEF IgnoreTimer, TypeInv, TypeOK, PduTyped, userVars

\* A transition that starts or restarts the refNu timer and does nothing else.
LEMMA RefWaitTyped ==
    ASSUME TypeInv, NEW d \in Desc, inv[d].state # "free",
           inv' = [inv EXCEPT ![d].tmrs = tmrRestart(@, "refNu", refKeepTime)],
           UNCHANGED <<newRef, net, sch, userVars>>
    PROVE  TypeInv'
<1>1. tmrRestart(inv[d].tmrs, "refNu", refKeepTime) \in Timers
  BY InUse, TimersTyped, DelaysTyped DEF TimerName
<1>2. inv' \in [Desc -> InvokeInfo] /\ LiveTyped'
  BY <1>1, RetimedTyped
<1> QED
  BY <1>2 DEF TypeInv, TypeOK, PduTyped, userVars

\* The performer's InvokeInfo starts to wait for its reference number, and its
\* user is told.
LEMMA PerformerEndTyped ==
    ASSUME TypeInv, NEW d \in Desc, inv[d].state # "free",
           NEW kind \in {"result", "error", "failure"},
           inv' = [inv EXCEPT
                     ![d].state = "PerformerRefWait",
                     ![d].resultPdu = relPdu(@),
                     ![d].tmrs = tmrCreate({}, "refNu", refKeepTime, 0)],
           performerCnf(d, kind),
           UNCHANGED <<newRef, net, asked, ind, exec, work, answer>>
    PROVE  TypeInv'
<1> DEFINE ts == tmrCreate({}, "refNu", refKeepTime, 0)
<1>1. ts \in Timers
  BY InUse, TimersTyped, DelaysTyped DEF TimerName
<1> DEFINE new == [inv[d] EXCEPT !.state = "PerformerRefWait",
                                 !.resultPdu = relPdu(inv[d].resultPdu),
                                 !.tmrs = ts]
<1>2. inv' = [inv EXCEPT ![d] = new] /\ inv[d] \in InvokeInfo
  BY InUse
<1>3. inv' \in [Desc -> InvokeInfo] /\ LiveTyped'
  <2>1. new \in InvokeInfo /\ new.rem \in Node /\ new.userRef \in Op
    <3> HIDE DEF ts
    <3>1. /\ relPdu(inv[d].resultPdu) \in Seq(Payload)
          /\ inv[d].rem \in Node /\ inv[d].userRef \in Op
      BY InUse, RelPduTyped
    <3> QED
      BY <1>1, <1>2, <3>1 DEF InvokeInfo, Timers, State, PerformerState
  <2> HIDE DEF new
  <2> QED
    BY <1>2, <2>1, UpdateTyped
<1>4. /\ sch' \in [Node -> Seq(Task)]
      /\ cnf' \in [Op -> Seq({"result", "error", "failure"})]
  BY InUse, PerformerCnfTyped DEF TypeInv
<1> QED
  BY <1>3, <1>4 DEF TypeInv, TypeOK, PduTyped

\* The initial state has its types: every element of the pool is free.
LEMMA InitTyped == Init => TypeInv
<1> SUFFICES ASSUME Init PROVE TypeInv
  OBVIOUS
<1>1. inv \in [Desc -> InvokeInfo] /\ LiveTyped
  <2>1. FreeInfo.state = "free"
    BY DEF FreeInfo
  <2> QED
    BY <2>1, FreeInfoTyped DEF Init, LiveTyped
<1>2. newRef \in [Node -> 0 .. NREFS]
  BY NumberAssumption DEF Init
<1> QED
  BY <1>1, <1>2 DEF Init, TypeInv, TypeOK, PduTyped

-----------------------------------------------------------------------------
(* One outcome.  An invocation is open while its InvokeInfo waits in       *)
(* InvokePduSent.  OutcomeOnce is inductive once it is known that an open  *)
(* invocation has had no indication yet, that no two InvokeInfos are open  *)
(* for the same operation, and that nothing is indicated before it is      *)
(* asked for.                                                              *)

Open(d) == inv[d].state = "InvokePduSent"

OpenUntold ==
    \A d \in Desc : Open(d) =>
        inv[d].userRef \in asked /\ ind[inv[d].userRef] = <<>>
OpenDistinct ==
    \A d, e \in Desc : Open(d) /\ Open(e) /\ d # e =>
        inv[d].userRef # inv[e].userRef
UnaskedUntold == \A op \in Op : op \notin asked => ind[op] = <<>>
OnceInv == OpenUntold /\ OpenDistinct /\ UnaskedUntold /\ OutcomeOnce

\* The step that ends an open invocation and indicates its outcome.
LEMMA EndOnce ==
    ASSUME TypeInv, OnceInv, NEW d \in Desc, Open(d), NEW new, NEW out \in Outcome,
           inv' = [inv EXCEPT ![d] = new], new.state # "InvokePduSent",
           ind' = [ind EXCEPT ![inv[d].userRef] =
                     Append(ind[inv[d].userRef], out)],
           asked' = asked
    PROVE  OnceInv'
<1> DEFINE u == inv[d].userRef
<1>1. u \in Op /\ u \in asked /\ ind[u] = <<>>
  BY DEF TypeInv, LiveTyped, OnceInv, OpenUntold, Open
<1>2. \A e \in Desc : inv'[e] = IF e = d THEN new ELSE inv[e]
  BY DEF TypeInv, TypeOK
<1>3. ind'[u] = <<out>> /\ \A op \in Op : op # u => ind'[op] = ind[op]
  BY <1>1 DEF TypeInv, TypeOK
<1>4. ASSUME NEW e \in Desc, Open(e)'
      PROVE  Open(e) /\ e # d /\ inv'[e] = inv[e] /\ inv[e].userRef # u
  BY <1>2, <1>4 DEF Open, OnceInv, OpenDistinct
<1>5. OpenUntold'
  BY <1>3, <1>4 DEF OpenUntold, OnceInv, TypeInv, LiveTyped, Open
<1>6. OpenDistinct'
  BY <1>4 DEF OpenDistinct, OnceInv
<1>7. UnaskedUntold'
  BY <1>1, <1>3 DEF UnaskedUntold, OnceInv
<1>8. OutcomeOnce'
  BY <1>1, <1>3 DEF OutcomeOnce, OnceInv
<1> QED
  BY <1>5, <1>6, <1>7, <1>8 DEF OnceInv

\* The indication of an outcome ends an open invocation.
LEMMA IndicatedOnce ==
    ASSUME TypeInv, OnceInv, NEW d \in Desc, Open(d), NEW new,
           inv' = [inv EXCEPT ![d] = new], new.state # "InvokePduSent",
           NEW kind \in {"result", "error", "failure"}, NEW op \in Op,
           invokerInd(d, kind, op), asked' = asked
    PROVE  OnceInv'
<1>1. ind' = [ind EXCEPT ![inv[d].userRef] =
                Append(ind[inv[d].userRef], [kind |-> kind, op |-> op])]
  BY Zenon DEF invokerInd
<1>2. [kind |-> kind, op |-> op] \in Outcome
  BY DEF Outcome
<1> QED
  BY <1>1, <1>2, EndOnce

\* A step opens no invocation and indicates nothing.
Quiet ==
    /\ \A e \in Desc : Open(e)' => Open(e) /\ inv'[e].userRef = inv[e].userRef
    /\ ind' = ind /\ asked' = asked

\* Such a step preserves the invariant.
LEMMA QuietOnce ==
    ASSUME OnceInv, Quiet
    PROVE  OnceInv'
BY DEF Quiet, OnceInv, OpenUntold, OpenDistinct, UnaskedUntold, OutcomeOnce

\* Giving the InvokeInfo d a value that is not open, or only new timers, opens
\* no invocation.
LEMMA UpdateQuiet ==
    ASSUME TypeInv, NEW d \in Desc, NEW new,
           inv' = [inv EXCEPT ![d] = new],
           \/ new.state # "InvokePduSent"
           \/ new.state = inv[d].state /\ new.userRef = inv[d].userRef,
           ind' = ind, asked' = asked
    PROVE  Quiet
<1>1. \A e \in Desc : inv'[e] = IF e = d THEN new ELSE inv[e]
  BY DEF TypeInv, TypeOK
<1> QED
  BY <1>1 DEF Quiet, Open

\* New timers for the InvokeInfo d open no invocation.
LEMMA RetimeQuiet ==
    ASSUME TypeInv, NEW d \in Desc, NEW ts,
           inv' = [inv EXCEPT ![d].tmrs = ts],
           ind' = ind, asked' = asked
    PROVE  Quiet
<1>1. inv[d] \in InvokeInfo
  BY DEF TypeInv, TypeOK
<1>2. /\ [inv[d] EXCEPT !.tmrs = ts].state = inv[d].state
      /\ [inv[d] EXCEPT !.tmrs = ts].userRef = inv[d].userRef
  BY <1>1 DEF InvokeInfo
<1> QED
  BY <1>2, UpdateQuiet

\* The retransmission of the INVOKE PDU is quiet.
LEMMA InvokerRetranQuiet ==
    ASSUME TypeInv, NEW d \in Desc, InvokerRetran(d)
    PROVE  Quiet
<1>1. PICK ts : inv' = [inv EXCEPT ![d].tmrs = ts]
  BY DEF InvokerRetran
<1> QED
  BY <1>1, RetimeQuiet DEF InvokerRetran, userVars

\* An InvokeInfo on its way back to the pool is not open.
LEMMA ReleaseQuiet ==
    ASSUME TypeInv, NEW d \in Desc, InvokerRelease(d) \/ PerformerRelease(d)
    PROVE  Quiet
<1>1. PICK s \in StartState :
        \E t : inv' = [inv EXCEPT ![d].state = s, ![d].tmrs = @ \ {t}]
  BY DEF InvokerRelease, PerformerRelease, StartState
<1>2. PICK t : inv' = [inv EXCEPT ![d].state = s, ![d].tmrs = @ \ {t}]
  BY <1>1
<1> DEFINE new == [inv[d] EXCEPT !.state = s, !.tmrs = inv[d].tmrs \ {t}]
<1>3. inv' = [inv EXCEPT ![d] = new]
  BY <1>2
<1>4. new.state # "InvokePduSent"
  BY DEF TypeInv, TypeOK, InvokeInfo, StartState
<1>5. ind' = ind /\ asked' = asked
  BY DEF InvokerRelease, PerformerRelease, userVars
<1> HIDE DEF new
<1> QED
  BY <1>3, <1>4, <1>5, UpdateQuiet

\* A performer that takes up an INVOKE PDU opens no invocation.
LEMMA PerformerInvokeQuiet ==
    ASSUME TypeInv, NEW m \in net, PerformerInvoke(m)
    PROVE  Quiet
<1>1. PICK d \in {m.dst} \X Slot :
        inv' = [inv EXCEPT ![d] =
              [inv[d] EXCEPT
                 !.state = "InvokePduReceived", !.sap = m.sap,
                 !.rem = m.src, !.ref = m.ref, !.userRef = m.op,
                 !.tmrs = tmrCreate(inv[d].tmrs, "perfNoResponse",
                                    perfNoResponse, 0)]]
  BY DEF PerformerInvoke, Avail, Duplicates
<1>2. d \in Desc
  BY <1>1, PduInNet DEF Desc
<1>3. inv[d] \in InvokeInfo
  BY <1>2 DEF TypeInv, TypeOK
<1> DEFINE new == [inv[d] EXCEPT !.state = "InvokePduReceived", !.sap = m.sap,
                     !.rem = m.src, !.ref = m.ref, !.userRef = m.op,
                     !.tmrs = tmrCreate(inv[d].tmrs, "perfNoResponse",
                                        perfNoResponse, 0)]
<1>4. new.state # "InvokePduSent"
  BY <1>3 DEF InvokeInfo
<1>5. inv' = [inv EXCEPT ![d] = new]
  BY <1>1
<1> HIDE DEF new
<1> QED
  BY <1>2, <1>4, <1>5, UpdateQuiet DEF PerformerInvoke

\* An answer of the performing user is quiet.
LEMMA AnswerSentQuiet ==
    ASSUME TypeInv, NEW d \in Desc, NEW kind, NEW next \in AnswerState,
           NEW timer, NEW delay, AnswerSent(d, kind, next, timer, delay)
    PROVE  Quiet
<1> DEFINE new == [inv[d] EXCEPT !.state = next, !.isResult = kind]
           kept == [new EXCEPT !.refMap = "performer",
                      !.resultPdu = pduKeep(@, [kind |-> kind, op |-> work[d]]),
                      !.tmrs = tmrCancel(tmrCreate(@, timer, delay, 0),
                                         "perfNoResponse")]
<1>1. inv' = [inv EXCEPT ![d] = new] \/ inv' = [inv EXCEPT ![d] = kept]
  BY DEF AnswerSent
<1>2. new.state # "InvokePduSent" /\ kept.state # "InvokePduSent"
  BY DEF TypeInv, TypeOK, InvokeInfo, AnswerState
<1> HIDE DEF new, kept
<1> QED
  BY <1>1, <1>2, UpdateQuiet DEF AnswerSent

\* So is the answer sent again.
LEMMA AnswerAgainQuiet ==
    ASSUME TypeInv, NEW m \in net, NEW state, AnswerAgain(m, state)
    PROVE  Quiet
<1>1. PICK d \in Duplicates(m) :
        \/ inv' = [inv EXCEPT ![d].tmrs =
                     tmrRestart(inv[d].tmrs, "resultPduRetran", retransTimeout)]
        \/ inv' = inv
  BY DEF AnswerAgain
<1>2. d \in Desc
  BY PduInNet DEF Duplicates, Desc
<1>3. ind' = ind /\ asked' = asked
  BY DEF AnswerAgain, userVars
<1>4. CASE inv' = inv
  BY <1>3, <1>4 DEF Quiet, Open
<1> QED
  BY <1>1, <1>2, <1>3, <1>4, RetimeQuiet

\* A performing user that gave no answer in time leaves nothing open.
LEMMA PerformerNoResponseQuiet ==
    ASSUME TypeInv, NEW d \in Desc, PerformerNoResponse(d)
    PROVE  Quiet
<1> DEFINE new == [inv[d] EXCEPT !.state = "CLPerformerStart",
                     !.invokePdu = relPdu(@), !.tmrs = {}]
<1>1. inv' = [inv EXCEPT ![d] = new]
  BY DEF PerformerNoResponse
<1>2. new.state # "InvokePduSent"
  BY DEF TypeInv, TypeOK, InvokeInfo
<1> HIDE DEF new
<1> QED
  BY <1>1, <1>2, UpdateQuiet DEF PerformerNoResponse

\* A late INVOKE PDU is quiet.
LEMMA PerformerLateInvokeQuiet ==
    ASSUME TypeInv, NEW m \in net, PerformerLateInvoke(m)
    PROVE  Quiet
<1>1. PICK d \in Duplicates(m) :
        inv' = [inv EXCEPT ![d].tmrs =
                  tmrRestart(inv[d].tmrs, "refNu", refKeepTime)]
  BY DEF PerformerLateInvoke
<1>2. d \in Desc
  BY PduInNet DEF Duplicates, Desc
<1> QED
  BY <1>1, <1>2, RetimeQuiet DEF PerformerLateInvoke, userVars

\* A task of the scheduler opens nothing: the indication itself was counted
\* when it was submitted.
LEMMA RunTaskQuiet ==
    ASSUME TypeInv, NEW n \in Node, RunTask(n)
    PROVE  Quiet
<1> DEFINE d == <<n, Head(sch[n]).slot>>
<1>1. ind' = ind /\ asked' = asked
  BY DEF RunTask
<1>2. CASE UNCHANGED inv
  BY <1>1, <1>2 DEF Quiet, Open
<1>3. CASE inv' = [inv EXCEPT ![d] = FreeInfo]
  <2>1. FreeInfo.state # "InvokePduSent"
    BY DEF FreeInfo
  <2>2. d \in Desc
    <3>1. Head(sch[n]) \in Task
      BY DEF RunTask, TypeInv, TypeOK
    <3> QED
      BY <3>1 DEF Desc, Task
  <2> HIDE DEF d
  <2> QED
    BY <1>1, <1>3, <2>1, <2>2, UpdateQuiet
<1> QED
  BY <1>2, <1>3 DEF RunTask, relInvoke

\* The clock opens nothing.
LEMMA TickQuiet ==
    ASSUME TypeInv, Tick
    PROVE  Quiet
<1>1. ASSUME NEW d \in Desc
      PROVE  inv'[d].state = inv[d].state /\ inv'[d].userRef = inv[d].userRef
  BY TickedTyped DEF Tick, TypeInv, TypeOK
<1> QED
  BY <1>1 DEF Quiet, Open, Tick, userVars

\* A timer no state waits for is dropped quietly.
LEMMA IgnoreTimerQuiet ==
    ASSUME TypeInv, NEW d \in Desc, NEW expects, IgnoreTimer(d, expects)
    PROVE  Quiet
<1>1. PICK t : inv' = [inv EXCEPT ![d].tmrs = inv[d].tmrs \ {t}]
  BY DEF IgnoreTimer
<1> QED
  BY <1>1, RetimeQuiet DEF IgnoreTimer, userVars

\* A performer that tells its user leaves nothing open.
LEMMA PerformerEndQuiet ==
    ASSUME TypeInv, NEW d \in Desc,
           inv' = [inv EXCEPT
                     ![d].state = "PerformerRefWait",
                     ![d].resultPdu = relPdu(@),
                     ![d].tmrs = tmrCreate({}, "refNu", refKeepTime, 0)],
           UNCHANGED <<newRef, net, asked, ind, exec, work, answer>>
    PROVE  Quiet
<1> DEFINE new == [inv[d] EXCEPT !.state = "PerformerRefWait",
                     !.resultPdu = relPdu(@),
                     !.tmrs = tmrCreate({}, "refNu", refKeepTime, 0)]
<1>1. inv' = [inv EXCEPT ![d] = new]
  OBVIOUS
<1>2. new.state # "InvokePduSent"
  BY DEF TypeInv, TypeOK, InvokeInfo
<1> HIDE DEF new
<1> QED
  BY <1>1, <1>2, UpdateQuiet

\* An invoke request opens one invocation, of an operation not asked for yet.
LEMMA InvokeReqOnce ==
    ASSUME TypeInv, OnceInv, NEW op \in Op, InvokeReq(op)
    PROVE  OnceInv'
<1>1. PICK d \in Avail(From[op]) :
        \/ inv' = [inv EXCEPT ![d] = NewInvocation(op)]
        \/ inv' = [inv EXCEPT ![d] = SentInvocation(op)]
  BY DEF InvokeReq
<1>2. d \in Desc
  BY ShapeAssumption DEF Avail, Desc
<1>3. NewInvocation(op).userRef = op /\ SentInvocation(op).userRef = op
  BY DEF NewInvocation, SentInvocation, FreeInfo
<1>4. /\ inv'[d].userRef = op
      /\ \A e \in Desc : e # d => inv'[e] = inv[e]
  BY <1>1, <1>2, <1>3 DEF TypeInv, TypeOK
<1>5. op \notin asked /\ asked' = asked \cup {op} /\ ind' = ind
  BY DEF InvokeReq
<1>6. ind[op] = <<>>
  BY <1>5 DEF OnceInv, UnaskedUntold
<1>7. \A e \in Desc : Open(e)' /\ e # d =>
        Open(e) /\ inv'[e] = inv[e] /\ inv[e].userRef # op
  BY <1>4, <1>5 DEF Open, OnceInv, OpenUntold
<1>8. OpenUntold'
  BY <1>4, <1>5, <1>6, <1>7 DEF OpenUntold, OnceInv
<1>9. OpenDistinct'
  BY <1>4, <1>7 DEF OpenDistinct, OnceInv
<1>10. UnaskedUntold' /\ OutcomeOnce'
  BY <1>5 DEF UnaskedUntold, OutcomeOnce, OnceInv
<1> QED
  BY <1>8, <1>9, <1>10 DEF OnceInv

\* A refused request is the one outcome its operation gets.
LEMMA InvokeReqRefusedOnce ==
    ASSUME TypeInv, OnceInv, NEW op \in Op, InvokeReqRefused(op)
    PROVE  OnceInv'
<1> DEFINE out == [kind |-> "refused", op |-> op]
<1>1. /\ op \notin asked /\ asked' = asked \cup {op} /\ inv' = inv
      /\ ind' = [ind EXCEPT ![op] = Append(ind[op], out)]
  BY DEF InvokeReqRefused
<1>2. ind[op] = <<>>
  BY <1>1 DEF OnceInv, UnaskedUntold
<1>3. ind'[op] = <<out>> /\ \A q \in Op : q # op => ind'[q] = ind[q]
  BY <1>1, <1>2 DEF TypeInv, TypeOK
<1>4. OpenUntold' /\ OpenDistinct'
  BY <1>1, <1>3 DEF OnceInv, OpenUntold, OpenDistinct, Open, TypeInv, LiveTyped
<1>5. UnaskedUntold' /\ OutcomeOnce'
  BY <1>1, <1>3 DEF OnceInv, UnaskedUntold, OutcomeOnce
<1> QED
  BY <1>4, <1>5 DEF OnceInv

\* The last timer ends an open invocation.
LEMMA InvokerLastOnce ==
    ASSUME TypeInv, OnceInv, NEW d \in Desc, InvokerLast(d)
    PROVE  OnceInv'
<1>1. PICK t \in Expired(d, "last") :
         inv' = [inv EXCEPT
                   ![d].state = "InvokerRefWait",
                   ![d].invokePdu = relPdu(@), ![d].resultPdu = relPdu(@),
                   ![d].tmrs = tmrCreate(@ \ {t}, "refNu", refKeepTime, 0)]
  BY DEF InvokerLast
<1> DEFINE new == [inv[d] EXCEPT !.state = "InvokerRefWait",
                     !.invokePdu = relPdu(@), !.resultPdu = relPdu(@),
                     !.tmrs = tmrCreate(@ \ {t}, "refNu", refKeepTime, 0)]
<1>2. inv' = [inv EXCEPT ![d] = new]
  BY <1>1
<1>3. new.state # "InvokePduSent"
  BY DEF TypeInv, TypeOK, InvokeInfo
<1>4. Open(d) /\ asked' = asked /\ inv[d].userRef \in Op
  BY DEF InvokerLast, Open, TypeInv, LiveTyped
<1> HIDE DEF new
<1> QED
  BY <1>2, <1>3, <1>4, IndicatedOnce DEF InvokerLast

\* A FAILURE PDU ends an open invocation.
LEMMA InvokerFailureOnce ==
    ASSUME TypeInv, OnceInv, NEW m \in net, InvokerFailure(m)
    PROVE  OnceInv'
<1>1. PICK d \in refToInvoker(m.dst, m.ref, m.src) :
        inv[d].state = "InvokePduSent" /\ FailOperation(d)
  BY DEF InvokerFailure
<1>2. d \in Desc
  BY <1>1, PduInNet, MappedInDesc DEF refToInvoker
<1> DEFINE new == [inv[d] EXCEPT !.state = "InvokerRefWait",
                     !.tmrs = tmrCreate({}, "refNu", refKeepTime, 0)]
<1>3. inv' = [inv EXCEPT ![d] = new]
  BY <1>1 DEF FailOperation
<1>4. new.state # "InvokePduSent"
  BY <1>2 DEF TypeInv, TypeOK, InvokeInfo
<1>5. Open(d) /\ asked' = asked /\ inv[d].userRef \in Op
  BY <1>1, <1>2 DEF FailOperation, Open, TypeInv, LiveTyped
<1> HIDE DEF new
<1> QED
  BY <1>1, <1>2, <1>3, <1>4, <1>5, IndicatedOnce DEF FailOperation

\* Nothing is open and nothing indicated at the start.
LEMMA InitOnce == Init => OnceInv
<1> SUFFICES ASSUME Init PROVE OnceInv
  OBVIOUS
<1>1. \A d \in Desc : ~ Open(d)
  BY DEF Init, FreeInfo, Open
<1> QED
  BY <1>1 DEF Init, OnceInv, OpenUntold, OpenDistinct, UnaskedUntold, OutcomeOnce

-----------------------------------------------------------------------------
(* Reference numbers are unique.  RefUnique is inductive once it is known  *)
(* that a free element is in neither map.                                  *)

FreeUnmapped == \A d \in Desc : inv[d].state = "free" => inv[d].refMap = "none"
RefInv == RefUnique /\ FreeUnmapped

\* What an InvokeInfo may become without touching the maps: it leaves them, or
\* keeps its entry and stays out of the pool.
KeepsEntry(old, new) ==
    \/ new.refMap = "none"
    \/ /\ new.refMap = old.refMap /\ new.ref = old.ref /\ new.rem = old.rem
       /\ new.state = "free" => old.state = "free"

\* Every InvokeInfo does so in a step that enters nothing into the maps.
RefQuiet == \A e \in Desc : KeepsEntry(inv[e], inv'[e])

\* Such a step preserves the invariant.
LEMMA QuietRef ==
    ASSUME RefInv, RefQuiet
    PROVE  RefInv'
<1>1. RefUnique'
  BY DEF RefInv, RefUnique, RefQuiet, KeepsEntry
<1>2. FreeUnmapped'
  BY DEF RefInv, FreeUnmapped, RefQuiet, KeepsEntry
<1> QED
  BY <1>1, <1>2 DEF RefInv

\* A step that leaves the table alone.
LEMMA SameRefQuiet ==
    ASSUME inv' = inv
    PROVE  RefQuiet
BY DEF RefQuiet, KeepsEntry

\* A step of one InvokeInfo.
LEMMA UpdateRefQuiet ==
    ASSUME TypeInv, NEW d \in Desc, NEW new, inv' = [inv EXCEPT ![d] = new],
           KeepsEntry(inv[d], new)
    PROVE  RefQuiet
<1>1. \A e \in Desc : inv'[e] = IF e = d THEN new ELSE inv[e]
  BY DEF TypeInv, TypeOK
<1> QED
  BY <1>1 DEF RefQuiet, KeepsEntry

\* New timers.
LEMMA RetimeRefQuiet ==
    ASSUME TypeInv, NEW d \in Desc, NEW ts, inv' = [inv EXCEPT ![d].tmrs = ts]
    PROVE  RefQuiet
<1>1. KeepsEntry(inv[d], [inv[d] EXCEPT !.tmrs = ts])
  BY DEF KeepsEntry, TypeInv, TypeOK, InvokeInfo
<1> QED
  BY <1>1, UpdateRefQuiet

\* A transition that changes the state, the kept PDUs and the timers.
LEMMA ChangeRefQuiet ==
    ASSUME TypeInv, NEW d \in Desc, NEW s, s # "free", NEW ip, NEW rp, NEW ts,
           inv' = [inv EXCEPT ![d] = [inv[d] EXCEPT
                     !.state = s, !.invokePdu = ip, !.resultPdu = rp,
                     !.tmrs = ts]]
    PROVE  RefQuiet
<1>1. KeepsEntry(inv[d], [inv[d] EXCEPT !.state = s, !.invokePdu = ip,
                                        !.resultPdu = rp, !.tmrs = ts])
  BY DEF KeepsEntry, TypeInv, TypeOK, InvokeInfo
<1> QED
  BY <1>1, UpdateRefQuiet

\* The timers of the shared diagrams enter nothing into the maps.
LEMMA TimerRefQuiet ==
    ASSUME TypeInv, NEW d \in Desc,
           \/ InvokerRetran(d) \/ InvokerLast(d) \/ InvokerRelease(d)
           \/ PerformerNoResponse(d) \/ PerformerRelease(d)
           \/ \E expects : IgnoreTimer(d, expects)
    PROVE  RefQuiet
<1>0. inv[d] \in InvokeInfo
  BY DEF TypeInv, TypeOK
<1>1. CASE InvokerRetran(d)
  <2>1. PICK ts : inv' = [inv EXCEPT ![d].tmrs = ts]
    BY <1>1 DEF InvokerRetran
  <2> QED
    BY <2>1, RetimeRefQuiet
<1>2. CASE InvokerLast(d)
  <2>1. PICK ts :
          inv' = [inv EXCEPT ![d] = [inv[d] EXCEPT
                    !.state = "InvokerRefWait",
                    !.invokePdu = relPdu(inv[d].invokePdu),
                    !.resultPdu = relPdu(inv[d].resultPdu), !.tmrs = ts]]
    BY <1>2, ZenonT(60) DEF InvokerLast
  <2> QED
    BY <2>1, ChangeRefQuiet
<1>3. CASE InvokerRelease(d) \/ PerformerRelease(d)
  <2>1. PICK s \in StartState :
          \E ts : inv' = [inv EXCEPT ![d].state = s, ![d].tmrs = ts]
    BY <1>3 DEF InvokerRelease, PerformerRelease, StartState
  <2>2. PICK ts : inv' = [inv EXCEPT ![d].state = s, ![d].tmrs = ts]
    BY <2>1
  <2>3. inv' = [inv EXCEPT ![d] = [inv[d] EXCEPT
                  !.state = s, !.invokePdu = inv[d].invokePdu,
                  !.resultPdu = inv[d].resultPdu, !.tmrs = ts]]
    BY <1>0, <2>2 DEF InvokeInfo
  <2>4. s # "free"
    BY DEF StartState
  <2> QED
    BY <2>3, <2>4, ChangeRefQuiet
<1>4. CASE PerformerNoResponse(d)
  <2>1. inv' = [inv EXCEPT ![d] = [inv[d] EXCEPT
                  !.state = "CLPerformerStart",
                  !.invokePdu = relPdu(inv[d].invokePdu),
                  !.resultPdu = inv[d].resultPdu, !.tmrs = {}]]
    BY <1>0, <1>4 DEF PerformerNoResponse, InvokeInfo
  <2> QED
    BY <2>1, ChangeRefQuiet
<1>5. CASE \E expects : IgnoreTimer(d, expects)
  <2>1. PICK ts : inv' = [inv EXCEPT ![d].tmrs = ts]
    BY <1>5 DEF IgnoreTimer
  <2> QED
    BY <2>1, RetimeRefQuiet
<1> QED
  BY <1>1, <1>2, <1>3, <1>4, <1>5

\* A FAILURE PDU leaves the reference number in its map.
LEMMA InvokerFailureRefQuiet ==
    ASSUME TypeInv, NEW m \in net, InvokerFailure(m)
    PROVE  RefQuiet
<1>1. PICK d \in refToInvoker(m.dst, m.ref, m.src) : FailOperation(d)
  BY DEF InvokerFailure
<1>2. d \in Desc
  BY <1>1, PduInNet, MappedInDesc DEF refToInvoker
<1>3. inv[d] \in InvokeInfo
  BY <1>2 DEF TypeInv, TypeOK
<1>4. inv' = [inv EXCEPT ![d] = [inv[d] EXCEPT
                !.state = "InvokerRefWait", !.invokePdu = inv[d].invokePdu,
                !.resultPdu = inv[d].resultPdu,
                !.tmrs = tmrCreate({}, "refNu", refKeepTime, 0)]]
  BY <1>1, <1>3 DEF FailOperation, InvokeInfo
<1> QED
  BY <1>2, <1>4, ChangeRefQuiet

\* A repeated INVOKE PDU enters nothing into the maps.
LEMMA RepeatedInvokeRefQuiet ==
    ASSUME TypeInv, NEW m \in net,
           (\E state : AnswerAgain(m, state)) \/ PerformerLateInvoke(m)
    PROVE  RefQuiet
<1>1. CASE inv' = inv
  BY <1>1, SameRefQuiet
<1>2. CASE inv' # inv
  <2>1. PICK d \in Duplicates(m) : \E ts : inv' = [inv EXCEPT ![d].tmrs = ts]
    BY <1>2 DEF AnswerAgain, PerformerLateInvoke
  <2>2. d \in Desc
    BY PduInNet DEF Duplicates, Desc
  <2> QED
    BY <2>1, <2>2, RetimeRefQuiet
<1> QED
  BY <1>1, <1>2

\* The InvokeInfo a performer takes is free, hence in neither map, or carries
\* the PDU's reference number and address already.
LEMMA PerformerInvokeRefQuiet ==
    ASSUME TypeInv, RefInv, NEW m \in net, PerformerInvoke(m)
    PROVE  RefQuiet
<1>1. PICK d \in {m.dst} \X Slot :
        /\ inv[d].state = "free" \/ (inv[d].ref = m.ref /\ inv[d].rem = m.src)
        /\ inv' = [inv EXCEPT ![d] =
              [inv[d] EXCEPT
                 !.state = "InvokePduReceived", !.sap = m.sap,
                 !.rem = m.src, !.ref = m.ref, !.userRef = m.op,
                 !.tmrs = tmrCreate(inv[d].tmrs, "perfNoResponse",
                                    perfNoResponse, 0)]]
  BY DEF PerformerInvoke, Avail, Duplicates
<1>2. d \in Desc
  BY <1>1, PduInNet DEF Desc
<1> DEFINE new == [inv[d] EXCEPT !.state = "InvokePduReceived", !.sap = m.sap,
                     !.rem = m.src, !.ref = m.ref, !.userRef = m.op,
                     !.tmrs = tmrCreate(inv[d].tmrs, "perfNoResponse",
                                        perfNoResponse, 0)]
<1>3. inv[d] \in InvokeInfo
  BY <1>2 DEF TypeInv, TypeOK
<1>4. /\ new.refMap = inv[d].refMap /\ new.ref = m.ref /\ new.rem = m.src
      /\ new.state # "free"
  BY <1>3 DEF InvokeInfo
<1>5. KeepsEntry(inv[d], new)
  <2> HIDE DEF new
  <2> QED
    BY <1>1, <1>2, <1>4 DEF KeepsEntry, RefInv, FreeUnmapped
<1>6. inv' = [inv EXCEPT ![d] = new]
  BY <1>1
<1> HIDE DEF new
<1> QED
  BY <1>2, <1>5, <1>6, UpdateRefQuiet

\* A released InvokeInfo has left its map.
LEMMA RunTaskRefQuiet ==
    ASSUME TypeInv, NEW n \in Node, RunTask(n)
    PROVE  RefQuiet
<1> DEFINE d == <<n, Head(sch[n]).slot>>
<1>1. CASE UNCHANGED inv
  BY <1>1, SameRefQuiet
<1>2. CASE inv' = [inv EXCEPT ![d] = FreeInfo]
  <2>1. KeepsEntry(inv[d], FreeInfo)
    BY DEF FreeInfo, KeepsEntry
  <2>2. d \in Desc
    <3>1. Head(sch[n]) \in Task
      BY DEF RunTask, TypeInv, TypeOK
    <3> QED
      BY <3>1 DEF Desc, Task
  <2> HIDE DEF d
  <2> QED
    BY <1>2, <2>1, <2>2, UpdateRefQuiet
<1> QED
  BY <1>1, <1>2 DEF RunTask, relInvoke

\* The clock does not touch the maps.
LEMMA TickRefQuiet ==
    ASSUME TypeInv, Tick
    PROVE  RefQuiet
<1>1. ASSUME NEW d \in Desc
      PROVE  /\ inv'[d].state = inv[d].state /\ inv'[d].refMap = inv[d].refMap
             /\ inv'[d].ref = inv[d].ref /\ inv'[d].rem = inv[d].rem
  BY TickedTyped DEF Tick, TypeInv, TypeOK
<1> QED
  BY <1>1 DEF RefQuiet, KeepsEntry

\* The performer's InvokeInfo stays in its map when its user is told.
LEMMA PerformerEndRefQuiet ==
    ASSUME TypeInv, NEW d \in Desc,
           inv' = [inv EXCEPT
                     ![d].state = "PerformerRefWait",
                     ![d].resultPdu = relPdu(@),
                     ![d].tmrs = tmrCreate({}, "refNu", refKeepTime, 0)]
    PROVE  RefQuiet
<1> DEFINE new == [inv[d] EXCEPT !.state = "PerformerRefWait",
                     !.resultPdu = relPdu(@),
                     !.tmrs = tmrCreate({}, "refNu", refKeepTime, 0)]
<1>1. inv' = [inv EXCEPT ![d] = new]
  OBVIOUS
<1>2. KeepsEntry(inv[d], new)
  BY DEF KeepsEntry, TypeInv, TypeOK, InvokeInfo
<1> HIDE DEF new
<1> QED
  BY <1>1, <1>2, UpdateRefQuiet

\* Entering an InvokeInfo into a map that has no entry for its number and its
\* peer preserves the invariant.
LEMMA EnterRef ==
    ASSUME TypeInv, RefInv, NEW d \in Desc, NEW new,
           inv' = [inv EXCEPT ![d] = new], new.state # "free",
           Mapped(d[1], new.refMap, new.ref, new.rem) = {}
    PROVE  RefInv'
<1>1. \A e \in Desc : inv'[e] = IF e = d THEN new ELSE inv[e]
  BY DEF TypeInv, TypeOK
<1>2. \A e \in Desc : e[1] = d[1] /\ inv[e].refMap = new.refMap =>
        inv[e].ref # new.ref \/ inv[e].rem # new.rem
  BY DEF Mapped, Desc
<1>3. RefUnique'
  BY <1>1, <1>2 DEF RefInv, RefUnique
<1>4. FreeUnmapped'
  BY <1>1 DEF RefInv, FreeUnmapped
<1> QED
  BY <1>3, <1>4 DEF RefInv

\* The number erop_refNew returns has no entry for the peer.
LEMMA RefNewFree ==
    ASSUME TypeOK, NEW n \in Node, NEW rem, refNew(n, rem) # NoRef
    PROVE  refToInvoker(n, refNew(n, rem), rem) = {}
<1> DEFINE T == FreeTries(n, rem)
           k == CHOOSE k \in T : \A j \in T : k <= j
<1>1. T \in SUBSET Nat /\ T # {}
  BY NumberAssumption DEF FreeTries, refNew
<1>2. k \in T
  BY <1>1, LeastNat
<1>3. refNew(n, rem) = Candidate(n, k)
  BY <1>1 DEF refNew
<1>4. refToInvoker(n, Candidate(n, k), rem) = {}
  BY <1>2 DEF FreeTries
<1> QED
  BY <1>3, <1>4

\* An invoke request enters its number, if it got one, beside no other.
LEMMA InvokeReqRef ==
    ASSUME TypeInv, RefInv, NEW op \in Op, InvokeReq(op)
    PROVE  RefInv'
<1> DEFINE ref == refNew(From[op], To[op])
<1>0. NewInvocation(op).ref = ref
  BY DEF NewInvocation, FreeInfo
<1>1. PICK d \in Avail(From[op]) :
        \/ ref = NoRef /\ inv' = [inv EXCEPT ![d] = NewInvocation(op)]
        \/ ref # NoRef /\ inv' = [inv EXCEPT ![d] = SentInvocation(op)]
  BY <1>0 DEF InvokeReq
<1>2. From[op] \in Node /\ d \in Desc /\ d[1] = From[op]
  BY ShapeAssumption DEF Avail, Desc
<1>3. CASE ref = NoRef
  <2>1. KeepsEntry(inv[d], NewInvocation(op))
    BY DEF NewInvocation, FreeInfo, KeepsEntry
  <2> QED
    BY <1>1, <1>2, <1>3, <2>1, UpdateRefQuiet, QuietRef
<1>4. CASE ref # NoRef
  <2>1. /\ SentInvocation(op).state # "free"
        /\ SentInvocation(op).refMap = "invoker"
        /\ SentInvocation(op).ref = ref /\ SentInvocation(op).rem = To[op]
    BY DEF SentInvocation, NewInvocation, FreeInfo
  <2>2. Mapped(d[1], "invoker", ref, To[op]) = {}
    BY <1>2, <1>4, RefNewFree DEF TypeInv, refToInvoker
  <2> HIDE DEF ref
  <2> QED
    BY <1>1, <1>2, <1>4, <2>1, <2>2, EnterRef
<1> QED
  BY <1>3, <1>4

\* An answer enters its number into the performers' map only where
\* erop_refKeep finds no other.
LEMMA AnswerSentRef ==
    ASSUME TypeInv, RefInv, NEW d \in Desc, NEW kind, NEW next \in AnswerState,
           NEW timer, NEW delay, AnswerSent(d, kind, next, timer, delay)
    PROVE  RefInv'
<1> DEFINE new == [inv[d] EXCEPT !.state = next, !.isResult = kind]
           kept == [new EXCEPT !.refMap = "performer",
                      !.resultPdu = pduKeep(@, [kind |-> kind, op |-> work[d]]),
                      !.tmrs = tmrCancel(tmrCreate(@, timer, delay, 0),
                                         "perfNoResponse")]
<1>1. \/ inv' = [inv EXCEPT ![d] = new]
      \/ refKeepOk(d) /\ inv' = [inv EXCEPT ![d] = kept]
  BY DEF AnswerSent
<1>2. inv[d] \in InvokeInfo /\ next # "free"
  BY DEF TypeInv, TypeOK, AnswerState
<1>3. /\ new.refMap = inv[d].refMap /\ new.ref = inv[d].ref
      /\ new.rem = inv[d].rem /\ new.state # "free"
      /\ kept.refMap = "performer" /\ kept.ref = inv[d].ref
      /\ kept.rem = inv[d].rem /\ kept.state # "free"
  BY <1>2 DEF InvokeInfo
<1> HIDE DEF new, kept
<1>4. CASE inv' = [inv EXCEPT ![d] = new]
  <2>1. KeepsEntry(inv[d], new)
    BY <1>3 DEF KeepsEntry
  <2> QED
    BY <1>4, <2>1, UpdateRefQuiet, QuietRef
<1>5. CASE refKeepOk(d) /\ inv' = [inv EXCEPT ![d] = kept]
  BY <1>3, <1>5, EnterRef DEF refKeepOk, refToPerformer
<1> QED
  BY <1>1, <1>4, <1>5

\* At the start both maps are empty.
LEMMA InitRef == Init => RefInv
<1> SUFFICES ASSUME Init PROVE RefInv
  OBVIOUS
<1>1. \A d \in Desc : inv[d].refMap = "none"
  BY DEF Init, FreeInfo
<1> QED
  BY <1>1 DEF RefInv, RefUnique, FreeUnmapped


-----------------------------------------------------------------------------
(* What the engine still refers to is alive: the tasks that wait in the    *)
(* scheduler, the descriptors the performing user holds, the timers.       *)

-----------------------------------------------------------------------------
(* Tasks and descriptors.                                                  *)

\* The user of descriptor d may answer, or will be told that it is void.
Awaited(d) ==
    \/ inv[d].state = "InvokePduReceived"
    \/ inv[d].state = "CLPerformerStart" /\ Failing(d)

\* A task is for an InvokeInfo in use.  The one that releases it finds it in
\* its start state and is the last for it.  An INVOKE.indication is the oldest
\* task, as udp_receive runs when no task waits.
TaskLive(n, i) ==
    LET t == sch[n][i]
        d == <<n, t.slot>>
    IN  /\ inv[d].state # "free"
        /\ t.kind = "relInvoke" =>
             /\ inv[d].state \in StartState
             /\ \A j \in i + 1 .. Len(sch[n]) : sch[n][j].slot # t.slot
        /\ t.kind = "invokeInd" => i = 1 /\ work[d] = NoOp /\ Awaited(d)

QueueLive == \A n \in Node : \A i \in 1 .. Len(sch[n]) : TaskLive(n, i)

\* An InvokeInfo back in a start state is about to be released.
Releasing(d) ==
    \E i \in 1 .. Len(sch[d[1]]) :
        sch[d[1]][i].slot = d[2] /\ sch[d[1]][i].kind = "relInvoke"
StartReleased ==
    \A d \in Desc : inv[d].state \in StartState => Releasing(d)

LiveInv == QueueLive /\ StartReleased /\ HeldDescLive

\* The invariant says what is wanted of the tasks.
LEMMA LiveTasks == LiveInv => TasksLive
BY DEF LiveInv, QueueLive, TaskLive, TasksLive

\* A task that waits.
LEMMA TaskTyped ==
    ASSUME TypeInv, NEW n \in Node
    PROVE  /\ sch[n] \in Seq(Task) /\ Len(sch[n]) \in Nat
           /\ \A i \in 1 .. Len(sch[n]) :
                sch[n][i].slot \in Slot /\ <<n, sch[n][i].slot>> \in Desc
<1>1. sch[n] \in Seq(Task)
  BY DEF TypeInv, TypeOK
<1>2. \A i \in 1 .. Len(sch[n]) : sch[n][i] \in Task
  BY <1>1
<1>3. \A i \in 1 .. Len(sch[n]) : sch[n][i].slot \in Slot
  BY <1>2 DEF Task
<1> QED
  BY <1>1, <1>3 DEF Desc

\* A step that leaves the states, the tasks and the descriptors alone.
LEMMA SameLive ==
    ASSUME LiveInv, sch' = sch, work' = work,
           \A d \in Desc : inv'[d].state = inv[d].state, TypeInv
    PROVE  LiveInv'
<1>1. \A n \in Node : \A i \in 1 .. Len(sch[n]) : <<n, sch[n][i].slot>> \in Desc
  BY TaskTyped
<1>2. QueueLive'
  BY <1>1 DEF LiveInv, QueueLive, TaskLive, Awaited, Failing
<1>3. StartReleased'
  BY DEF LiveInv, StartReleased, Releasing
<1>4. HeldDescLive'
  BY DEF LiveInv, HeldDescLive, Failing
<1> QED
  BY <1>2, <1>3, <1>4 DEF LiveInv

\* What SCH_submit makes of the queue of an engine.
LEMMA Submitted ==
    ASSUME TypeInv, NEW n \in Node, NEW tasks \in Seq(Task), Submit(n, tasks)
    PROVE  /\ Len(tasks) \in Nat /\ Len(sch[n]) \in Nat
           /\ Len(sch'[n]) = Len(sch[n]) + Len(tasks)
           /\ \A i \in 1 .. Len(sch[n]) : sch'[n][i] = sch[n][i]
           /\ \A k \in 1 .. Len(tasks) : sch'[n][Len(sch[n]) + k] = tasks[k]
           /\ \A i \in 1 .. Len(sch'[n]) : i > Len(sch[n]) =>
                i - Len(sch[n]) \in 1 .. Len(tasks) /\ sch'[n][i] = tasks[i - Len(sch[n])]
           /\ \A e \in Node : e # n => sch'[e] = sch[e]
<1>1. sch[n] \in Seq(Task)
  BY TaskTyped
<1>2. sch'[n] = sch[n] \o tasks /\ \A e \in Node : e # n => sch'[e] = sch[e]
  BY DEF Submit, TypeInv, TypeOK
<1> QED
  BY <1>1, <1>2

\* A step of InvokeInfo d that is in use and not yet to be released: it submits
\* tasks for d, the release last if it enters a start state, and goes on waiting
\* for an answer that the user may still give.
LEMMA StepLive ==
    ASSUME TypeInv, LiveInv, NEW d \in Desc, NEW tasks \in Seq(Task),
           Submit(d[1], tasks),
           inv[d].state \notin StartState \cup {"free"}, inv'[d].state # "free",
           \A e \in Desc : e # d =>
               inv'[e].state = inv[e].state /\ work'[e] = work[e],
           \A k \in 1 .. Len(tasks) :
               /\ tasks[k].slot = d[2] /\ tasks[k].kind # "invokeInd"
               /\ tasks[k].kind = "relInvoke" =>
                    k = Len(tasks) /\ inv'[d].state \in StartState,
           inv'[d].state \in StartState =>
               \E k \in 1 .. Len(tasks) : tasks[k].kind = "relInvoke",
           \/ work[d] # NoOp /\ work'[d] = NoOp
           \/ /\ work'[d] = work[d]
              /\ \/ inv'[d].state = inv[d].state
                 \/ inv[d].state # "InvokePduReceived"
                 \/ /\ inv'[d].state = "CLPerformerStart"
                    /\ \E k \in 1 .. Len(tasks) : tasks[k].kind = "failureInd"
    PROVE  LiveInv'
<1> DEFINE n == d[1]
           old == sch[n]
           new == sch'[n]
<1>0. n \in Node /\ d = <<n, d[2]>>
  BY DEF Desc
<1>1. /\ Len(tasks) \in Nat /\ Len(old) \in Nat
      /\ Len(new) = Len(old) + Len(tasks)
      /\ \A i \in 1 .. Len(old) : new[i] = old[i]
      /\ \A k \in 1 .. Len(tasks) : new[Len(old) + k] = tasks[k]
      /\ \A i \in 1 .. Len(new) : i > Len(old) =>
           i - Len(old) \in 1 .. Len(tasks) /\ new[i] = tasks[i - Len(old)]
      /\ \A e \in Node : e # n => sch'[e] = sch[e]
  BY <1>0, Submitted
<1>2. \A e \in Node : \A i \in 1 .. Len(sch[e]) :
        /\ sch[e][i].slot \in Slot /\ <<e, sch[e][i].slot>> \in Desc
        /\ i \in 1 .. Len(sch'[e]) /\ sch'[e][i] = sch[e][i]
  <2>1. \A i \in 1 .. Len(old) : i \in 1 .. Len(new)
    BY <1>1
  <2> QED
    BY <1>0, <1>1, <2>1, TaskTyped, SMTT(40)
<1>3. ASSUME NEW e \in Desc
      PROVE  (Failing(e) => Failing(e)') /\ (Releasing(e) => Releasing(e)')
  <2>1. e[1] \in Node
    BY DEF Desc
  <2> QED
    BY <1>2, <2>1, ZenonT(60) DEF Failing, Releasing
<1>4. \A k \in 1 .. Len(tasks) : tasks[k].kind = "failureInd" => Failing(d)'
  BY <1>0, <1>1, SMTT(40) DEF Failing
<1>5. \A i \in 1 .. Len(old) : old[i].slot = d[2] => old[i].kind # "relInvoke"
  BY <1>0, <1>1 DEF LiveInv, QueueLive, TaskLive
<1>6. \A i \in 1 .. Len(old) : old[i].slot = d[2] /\ old[i].kind = "invokeInd" =>
        work[d] = NoOp /\ inv[d].state = "InvokePduReceived"
  BY <1>0, <1>1 DEF LiveInv, QueueLive, TaskLive, Awaited, StartState
<1>7. HeldDescLive'
  <2> SUFFICES ASSUME NEW e \in Desc, work'[e] # NoOp PROVE Awaited(e)'
    BY DEF HeldDescLive, Awaited
  <2>1. work'[e] = work[e] /\ Awaited(e)
    BY DEF LiveInv, HeldDescLive, Awaited
  <2>2. CASE e = d
    BY <1>4, <2>1, <2>2 DEF Awaited, StartState
  <2>3. CASE e # d
    BY <1>3, <2>1, <2>3 DEF Awaited
  <2> QED
    BY <2>2, <2>3
<1>8. StartReleased'
  <2> SUFFICES ASSUME NEW e \in Desc, inv'[e].state \in StartState
               PROVE  Releasing(e)'
    BY DEF StartReleased
  <2>1. CASE e = d
    <3>1. PICK k \in 1 .. Len(tasks) : tasks[k].kind = "relInvoke"
      BY <2>1
    <3>2. Len(old) + k \in 1 .. Len(new) /\ new[Len(old) + k] = tasks[k]
      BY <1>1
    <3> QED
      BY <2>1, <3>1, <3>2 DEF Releasing
  <2>2. CASE e # d
    BY <1>3, <2>2 DEF LiveInv, StartReleased
  <2> QED
    BY <2>1, <2>2
<1>9. ASSUME NEW e \in Node, NEW i \in 1 .. Len(sch'[e]) PROVE TaskLive(e, i)'
  <2>0. PICK t, f : t = sch'[e][i] /\ f = <<e, t.slot>>
    OBVIOUS
  <2>1. CASE e = n /\ i > Len(old)
    <3>1. PICK k \in 1 .. Len(tasks) : k = i - Len(old) /\ t = tasks[k]
      BY <1>1, <2>0, <2>1
    <3>2. f = d /\ t.kind # "invokeInd"
      BY <1>0, <2>0, <2>1, <3>1
    <3>3. t.kind = "relInvoke" => i = Len(new) /\ inv'[d].state \in StartState
      <4>1. tasks[k].kind = "relInvoke" =>
              k = Len(tasks) /\ inv'[d].state \in StartState
        OBVIOUS
      <4>2. i \in Int /\ k \in Int
        OBVIOUS
      <4> QED
        BY <1>1, <3>1, <4>1, <4>2
    <3>4. t.kind = "relInvoke" => i + 1 .. Len(new) = {}
      BY <1>1, <3>3
    <3> QED
      BY <2>0, <2>1, <3>2, <3>3, <3>4 DEF TaskLive
  <2>2. CASE ~ (e = n /\ i > Len(old))
    <3>1. i \in 1 .. Len(sch[e]) /\ t = sch[e][i] /\ f \in Desc
      BY <1>0, <1>1, <1>2, <2>0, <2>2
    <3>2. TaskLive(e, i)
      BY <3>1 DEF LiveInv, QueueLive
    <3>3. CASE f = d
      <4>1. e = n /\ t.slot = d[2]
        BY <1>0, <2>0, <3>3
      <4>2. t.kind # "relInvoke"
        BY <1>5, <3>1, <4>1
      <4>3. t.kind = "invokeInd" => i = 1 /\ work'[d] = NoOp /\ Awaited(d)'
        <5> SUFFICES ASSUME t.kind = "invokeInd"
                     PROVE  i = 1 /\ work'[d] = NoOp /\ Awaited(d)'
          OBVIOUS
        <5>1. i = 1
          BY <3>1, <3>2 DEF TaskLive
        <5>2. work[d] = NoOp /\ inv[d].state = "InvokePduReceived"
          BY <1>6, <3>1, <4>1
        <5> QED
          BY <1>4, <5>1, <5>2 DEF Awaited
      <4> QED
        BY <2>0, <3>3, <4>1, <4>2, <4>3 DEF TaskLive
    <3>4. CASE f # d
      <4>1. inv'[f].state = inv[f].state /\ work'[f] = work[f]
        BY <3>1, <3>4
      <4>2. Awaited(f) => Awaited(f)'
        BY <1>3, <3>1, <4>1 DEF Awaited
      <4>3. ASSUME t.kind = "relInvoke", NEW j \in i + 1 .. Len(sch'[e])
            PROVE  sch'[e][j].slot # t.slot
        <5>1. CASE j <= Len(sch[e])
          <6>1. j \in i + 1 .. Len(sch[e]) /\ j \in 1 .. Len(sch[e])
            BY <3>1, <5>1, TaskTyped
          <6>2. sch'[e][j] = sch[e][j]
            BY <1>2, <6>1
          <6> QED
            BY <2>0, <3>1, <3>2, <4>3, <6>1, <6>2 DEF TaskLive
        <5>2. CASE j > Len(sch[e])
          <6>1. e = n /\ sch'[e][j].slot = d[2]
            <7>1. e = n
              BY <1>1, <5>2, <3>1, TaskTyped
            <7>2. j \in 1 .. Len(new) /\ j > Len(old)
              BY <1>1, <5>2, <7>1
            <7>3. PICK k \in 1 .. Len(tasks) : new[j] = tasks[k]
              BY <1>1, <7>2
            <7>4. tasks[k].slot = d[2]
              OBVIOUS
            <7> QED
              BY <7>1, <7>3, <7>4
          <6> QED
            BY <1>0, <2>0, <3>4, <6>1
        <5> QED
          BY <3>1, <5>1, <5>2, TaskTyped
      <4> QED
        BY <2>0, <3>1, <3>2, <4>1, <4>2, <4>3 DEF TaskLive
    <3> QED
      BY <3>3, <3>4
  <2> QED
    BY <2>1, <2>2
<1> QED
  BY <1>7, <1>8, <1>9 DEF LiveInv, QueueLive

\* Changing one InvokeInfo.
LEMMA Updated ==
    ASSUME TypeInv, NEW d \in Desc, NEW new, inv' = [inv EXCEPT ![d] = new]
    PROVE  inv'[d] = new /\ \A e \in Desc : e # d => inv'[e] = inv[e]
BY DEF TypeInv, TypeOK

\* A transition that submits one indication or confirmation and neither waits
\* for the user's answer before nor releases the InvokeInfo after.
LEMMA IndicateLive ==
    ASSUME TypeInv, LiveInv, NEW d \in Desc, NEW new,
           inv' = [inv EXCEPT ![d] = new], work' = work,
           NEW kind \in TaskKind \ {"invokeInd", "relInvoke"},
           NEW op \in Op \cup {NoOp}, Submit(d[1], <<TaskFor(d, kind, op)>>),
           inv[d].state \notin StartState \cup {"free", "InvokePduReceived"},
           new.state \notin StartState \cup {"free"}
    PROVE  LiveInv'
<1> DEFINE tasks == <<TaskFor(d, kind, op)>>
<1>1. TaskFor(d, kind, op) \in Task
  BY DEF TaskFor, Task, Desc
<1>2. tasks \in Seq(Task) /\ Len(tasks) = 1 /\ tasks[1] = TaskFor(d, kind, op)
  BY <1>1
<1>3. tasks[1].slot = d[2] /\ tasks[1].kind = kind
  BY <1>2 DEF TaskFor
<1>4. inv'[d] = new /\ \A e \in Desc : e # d => inv'[e] = inv[e]
  BY Updated
<1>5. \A k \in 1 .. Len(tasks) :
        tasks[k].slot = d[2] /\ tasks[k].kind \notin {"invokeInd", "relInvoke"}
  BY <1>2, <1>3
<1>6. Submit(d[1], tasks)
  OBVIOUS
<1> HIDE DEF tasks
<1> QED
  BY <1>2, <1>4, <1>5, <1>6, StepLive

\* The indications of an outcome.
LEMMA InvokerIndLive ==
    ASSUME TypeInv, LiveInv, NEW d \in Desc, NEW new,
           inv' = [inv EXCEPT ![d] = new], work' = work,
           NEW kind \in {"result", "error", "failure"}, NEW op \in Op,
           invokerInd(d, kind, op), inv[d].state = "InvokePduSent",
           new.state \notin StartState \cup {"free"}
    PROVE  LiveInv'
<1>1. PICK tk \in {"resultInd", "errorInd", "failureInd"} :
        Submit(d[1], <<TaskFor(d, tk, op)>>)
  BY DEF invokerInd
<1>2. /\ inv[d].state \notin StartState \cup {"free", "InvokePduReceived"}
      /\ tk \in TaskKind \ {"invokeInd", "relInvoke"} /\ op \in Op \cup {NoOp}
  BY DEF StartState, TaskKind
<1> QED
  BY <1>1, <1>2, IndicateLive

\* The confirmations of an answer.
LEMMA PerformerCnfLive ==
    ASSUME TypeInv, LiveInv, NEW d \in Desc, NEW new,
           inv' = [inv EXCEPT ![d] = new], work' = work,
           NEW kind \in {"result", "error", "failure"}, performerCnf(d, kind),
           inv[d].state \in AnswerState, new.state \notin StartState \cup {"free"}
    PROVE  LiveInv'
<1>1. PICK tk \in {"resultCnf", "errorCnf", "failureInd"} :
        Submit(d[1], <<TaskFor(d, tk, inv[d].userRef)>>)
  BY DEF performerCnf
<1>2. /\ inv[d].state \notin StartState \cup {"free", "InvokePduReceived"}
      /\ tk \in TaskKind \ {"invokeInd", "relInvoke"}
  BY DEF StartState, AnswerState, TaskKind
<1>3. inv[d].userRef \in Op \cup {NoOp}
  BY DEF TypeInv, TypeOK, InvokeInfo
<1> QED
  BY <1>1, <1>2, <1>3, IndicateLive

\* New timers change no state.
LEMMA RetimeLive ==
    ASSUME TypeInv, LiveInv, NEW d \in Desc, NEW ts,
           inv' = [inv EXCEPT ![d].tmrs = ts], sch' = sch, work' = work
    PROVE  LiveInv'
<1>1. [inv[d] EXCEPT !.tmrs = ts].state = inv[d].state
  BY DEF TypeInv, TypeOK, InvokeInfo
<1>2. \A e \in Desc : inv'[e].state = inv[e].state
  BY <1>1, Updated
<1> QED
  BY <1>2, SameLive

\* A transition that submits nothing, in a state that waits for no answer and
\* into one that is not released.
LEMMA MoveLive ==
    ASSUME TypeInv, LiveInv, NEW d \in Desc, NEW new,
           inv' = [inv EXCEPT ![d] = new], sch' = sch, work' = work,
           inv[d].state \notin StartState \cup {"free", "InvokePduReceived"},
           new.state \notin StartState \cup {"free"}
    PROVE  LiveInv'
<1>1. d[1] \in Node /\ sch[d[1]] \in Seq(Task)
  BY TaskTyped DEF Desc
<1>2. sch[d[1]] = sch[d[1]] \o <<>>
  BY <1>1
<1>3. Submit(d[1], <<>>)
  BY <1>1, <1>2 DEF Submit, TypeInv, TypeOK
<1>4. inv'[d] = new /\ \A e \in Desc : e # d => inv'[e] = inv[e]
  BY Updated
<1>5. <<>> \in Seq(Task) /\ \A k \in 1 .. Len(<<>>) : FALSE
  OBVIOUS
<1> QED
  BY <1>3, <1>4, <1>5, StepLive

-----------------------------------------------------------------------------
(* Every step both diagrams share preserves the invariant.                 *)

\* EROP_invokeReq takes a free element, for which no task waits.
LEMMA InvokeReqLive ==
    ASSUME TypeInv, LiveInv, NEW op \in Op, InvokeReq(op)
    PROVE  LiveInv'
<1>1. PICK d \in Avail(From[op]) :
        \/ inv' = [inv EXCEPT ![d] = NewInvocation(op)]
        \/ inv' = [inv EXCEPT ![d] = SentInvocation(op)]
  BY DEF InvokeReq
<1>2. From[op] \in Node /\ d \in Desc /\ inv[d].state = "free"
  BY ShapeAssumption DEF Avail, Desc
<1>3. /\ NewInvocation(op).state = "InvokePduSent"
      /\ SentInvocation(op).state = "InvokePduSent"
  BY DEF NewInvocation, SentInvocation, FreeInfo
<1>4. /\ inv'[d].state = "InvokePduSent"
      /\ \A e \in Desc : e # d => inv'[e].state = inv[e].state
  BY <1>1, <1>2, <1>3, Updated
<1>5. sch' = sch /\ work' = work
  BY DEF InvokeReq
<1>6. ASSUME NEW n \in Node, NEW i \in 1 .. Len(sch[n])
      PROVE  <<n, sch[n][i].slot>> \in Desc /\ <<n, sch[n][i].slot>> # d
  BY <1>2, TaskTyped DEF LiveInv, QueueLive, TaskLive
<1>7. QueueLive'
  <2> SUFFICES ASSUME NEW n \in Node, NEW i \in 1 .. Len(sch[n])
               PROVE  TaskLive(n, i)'
    BY <1>5 DEF QueueLive
  <2>1. PICK f \in Desc : f = <<n, sch[n][i].slot>> /\ f # d
    BY <1>6
  <2>2. inv'[f].state = inv[f].state /\ TaskLive(n, i)
    BY <1>4, <2>1 DEF LiveInv, QueueLive
  <2>3. Awaited(f) => Awaited(f)'
    BY <1>5, <2>2 DEF Awaited, Failing
  <2> QED
    BY <1>5, <2>1, <2>2, <2>3 DEF TaskLive
<1>8. StartReleased'
  BY <1>4, <1>5 DEF LiveInv, StartReleased, Releasing, StartState
<1>9. HeldDescLive'
  BY <1>2, <1>4, <1>5 DEF LiveInv, HeldDescLive, Failing
<1> QED
  BY <1>7, <1>8, <1>9 DEF LiveInv

\* tr_clInvoker03.
LEMMA InvokerLastLive ==
    ASSUME TypeInv, LiveInv, NEW d \in Desc, InvokerLast(d)
    PROVE  LiveInv'
<1>1. PICK t :
        inv' = [inv EXCEPT ![d] = [inv[d] EXCEPT
                  !.state = "InvokerRefWait",
                  !.invokePdu = relPdu(inv[d].invokePdu),
                  !.resultPdu = relPdu(inv[d].resultPdu),
                  !.tmrs = tmrCreate(inv[d].tmrs \ {t}, "refNu", refKeepTime, 0)]]
  BY ZenonT(60) DEF InvokerLast
<1> DEFINE new == [inv[d] EXCEPT
                  !.state = "InvokerRefWait",
                  !.invokePdu = relPdu(inv[d].invokePdu),
                  !.resultPdu = relPdu(inv[d].resultPdu),
                  !.tmrs = tmrCreate(inv[d].tmrs \ {t}, "refNu", refKeepTime, 0)]
<1>2. new.state \notin StartState \cup {"free"}
  BY DEF TypeInv, TypeOK, InvokeInfo, StartState
<1>3. inv[d].state = "InvokePduSent" /\ inv[d].userRef \in Op
  BY DEF InvokerLast, TypeInv, LiveTyped
<1>4. invokerInd(d, "failure", inv[d].userRef) /\ work' = work
  BY DEF InvokerLast
<1>5. inv' = [inv EXCEPT ![d] = new]
  BY <1>1
<1> HIDE DEF new
<1> QED
  BY <1>2, <1>3, <1>4, <1>5, InvokerIndLive

\* tr_clInvoker05.
LEMMA InvokerFailureLive ==
    ASSUME TypeInv, LiveInv, NEW m \in net, InvokerFailure(m)
    PROVE  LiveInv'
<1>1. PICK d \in refToInvoker(m.dst, m.ref, m.src) :
        inv[d].state = "InvokePduSent" /\ FailOperation(d)
  BY DEF InvokerFailure
<1>2. d \in Desc
  BY PduInNet, MappedInDesc DEF refToInvoker
<1> DEFINE new == [inv[d] EXCEPT !.state = "InvokerRefWait",
                     !.tmrs = tmrCreate({}, "refNu", refKeepTime, 0)]
<1>3. new.state \notin StartState \cup {"free"}
  BY <1>2 DEF TypeInv, TypeOK, InvokeInfo, StartState
<1>4. inv[d].userRef \in Op
  BY <1>1, <1>2 DEF TypeInv, LiveTyped
<1>5. /\ invokerInd(d, "failure", inv[d].userRef) /\ work' = work
      /\ inv' = [inv EXCEPT ![d] = new]
  BY <1>1 DEF FailOperation
<1> HIDE DEF new
<1> QED
  BY <1>1, <1>2, <1>3, <1>4, <1>5, InvokerIndLive

\* tr_clInvoker08 and tr_clPerformer10: the release is the last task for the
\* InvokeInfo.
LEMMA ReleaseLive ==
    ASSUME TypeInv, LiveInv, NEW d \in Desc, InvokerRelease(d) \/ PerformerRelease(d)
    PROVE  LiveInv'
<1>1. PICK s \in StartState :
        \E t : inv' = [inv EXCEPT ![d].state = s, ![d].tmrs = @ \ {t}]
  BY DEF InvokerRelease, PerformerRelease, StartState
<1>2. PICK t : inv' = [inv EXCEPT ![d].state = s, ![d].tmrs = @ \ {t}]
  BY <1>1
<1> DEFINE new == [inv[d] EXCEPT !.state = s, !.tmrs = @ \ {t}]
           tasks == <<TaskFor(d, "relInvoke", NoOp)>>
<1>3. inv' = [inv EXCEPT ![d] = new]
  BY <1>2
<1>4. new.state = s
  BY DEF TypeInv, TypeOK, InvokeInfo
<1>5. inv'[d].state = s /\ \A e \in Desc : e # d => inv'[e] = inv[e]
  <2> HIDE DEF new
  <2> QED
    BY <1>3, <1>4, Updated
<1>6. TaskFor(d, "relInvoke", NoOp) \in Task
  BY DEF TaskFor, Task, TaskKind, Desc
<1>7. /\ tasks \in Seq(Task) /\ Len(tasks) = 1
      /\ tasks[1].slot = d[2] /\ tasks[1].kind = "relInvoke"
  BY <1>6 DEF TaskFor
<1>8. \A k \in 1 .. Len(tasks) : k = 1
  BY <1>7
<1>9. Submit(d[1], tasks) /\ work' = work
  BY DEF InvokerRelease, PerformerRelease, userVars
<1>10. inv[d].state \in {"InvokerRefWait", "PerformerRefWait"} /\ s # "free"
  BY DEF InvokerRelease, PerformerRelease, StartState
<1>11. inv[d].state \notin StartState \cup {"free", "InvokePduReceived"}
  BY <1>10 DEF StartState
<1> HIDE DEF new, tasks
<1>12. /\ inv'[d].state # "free" /\ inv'[d].state \in StartState
       /\ \A e \in Desc : e # d =>
            inv'[e].state = inv[e].state /\ work'[e] = work[e]
  BY <1>5, <1>9, <1>10
<1>13. \A k \in 1 .. Len(tasks) :
         /\ tasks[k].slot = d[2] /\ tasks[k].kind # "invokeInd"
         /\ tasks[k].kind = "relInvoke" =>
              k = Len(tasks) /\ inv'[d].state \in StartState
  BY <1>7, <1>8, <1>12
<1>14. \E k \in 1 .. Len(tasks) : tasks[k].kind = "relInvoke"
  BY <1>7
<1> QED
  BY <1>7, <1>9, <1>11, <1>12, <1>13, <1>14, StepLive

\* tr_clPerformer01 finds a free element: no task waits, so no InvokeInfo is
\* back in its start state and not yet released.
LEMMA FreshPerformer ==
    ASSUME TypeInv, LiveInv, NEW m \in net, PerformerInvoke(m)
    PROVE  \E d \in Desc :
             /\ d[1] = m.dst /\ sch[d[1]] = <<>> /\ inv[d].state = "free"
             /\ inv' = [inv EXCEPT ![d] =
                  [inv[d] EXCEPT
                     !.state = "InvokePduReceived", !.sap = m.sap,
                     !.rem = m.src, !.ref = m.ref, !.userRef = m.op,
                     !.tmrs = tmrCreate(inv[d].tmrs, "perfNoResponse",
                                        perfNoResponse, 0)]]
             /\ Submit(d[1], <<TaskFor(d, "invokeInd", m.op)>>)
<1>1. m.dst \in Node /\ sch[m.dst] = <<>>
  BY PduInNet DEF PerformerInvoke, Receive
<1>2. ASSUME NEW d \in Desc, d[1] = m.dst PROVE inv[d].state \notin StartState
  BY <1>1, <1>2 DEF LiveInv, StartReleased, Releasing
<1>3. PICK d \in IF Duplicates(m) = {} THEN Avail(m.dst)
                 ELSE {e \in Duplicates(m) : inv[e].state = "CLPerformerStart"} :
         /\ inv' = [inv EXCEPT ![d] =
              [inv[d] EXCEPT
                 !.state = "InvokePduReceived", !.sap = m.sap, !.rem = m.src,
                 !.ref = m.ref, !.userRef = m.op,
                 !.tmrs = tmrCreate(inv[d].tmrs, "perfNoResponse",
                                    perfNoResponse, 0)]]
         /\ Submit(d[1], <<TaskFor(d, "invokeInd", m.op)>>)
  BY DEF PerformerInvoke
<1>4. d \in Desc /\ d[1] = m.dst
  BY <1>1, <1>3 DEF Duplicates, Avail, Desc
<1>5. inv[d].state = "free"
  BY <1>2, <1>3, <1>4 DEF Avail, StartState
<1> QED
  BY <1>1, <1>3, <1>4, <1>5

\* tr_clPerformer01: its indication is the oldest task, and nobody holds the
\* descriptor yet.
LEMMA PerformerInvokeLive ==
    ASSUME TypeInv, LiveInv, NEW m \in net, PerformerInvoke(m)
    PROVE  LiveInv'
<1>1. PICK d \in Desc :
        /\ sch[d[1]] = <<>> /\ inv[d].state = "free"
        /\ inv' = [inv EXCEPT ![d] =
             [inv[d] EXCEPT
                !.state = "InvokePduReceived", !.sap = m.sap,
                !.rem = m.src, !.ref = m.ref, !.userRef = m.op,
                !.tmrs = tmrCreate(inv[d].tmrs, "perfNoResponse",
                                   perfNoResponse, 0)]]
        /\ Submit(d[1], <<TaskFor(d, "invokeInd", m.op)>>)
  BY FreshPerformer
<1>2. work' = work
  BY DEF PerformerInvoke
<1>3. /\ inv'[d].state = "InvokePduReceived"
      /\ \A e \in Desc : e # d => inv'[e] = inv[e]
  BY <1>1 DEF TypeInv, TypeOK, InvokeInfo
<1>4. d[1] \in Node /\ d = <<d[1], d[2]>>
  BY DEF Desc
<1>5. /\ sch'[d[1]] = <<TaskFor(d, "invokeInd", m.op)>>
      /\ \A n \in Node : n # d[1] => sch'[n] = sch[n]
  BY <1>1, <1>4 DEF Submit, TypeInv, TypeOK
<1>6. work[d] = NoOp
  BY <1>1 DEF LiveInv, HeldDescLive
<1>7. QueueLive'
  <2> SUFFICES ASSUME NEW n \in Node, NEW i \in 1 .. Len(sch'[n])
               PROVE  TaskLive(n, i)'
    BY DEF QueueLive
  <2>1. CASE n = d[1]
    <3>1. i = 1 /\ sch'[n][i] = TaskFor(d, "invokeInd", m.op)
      <4>1. PICK t : t = TaskFor(d, "invokeInd", m.op)
        OBVIOUS
      <4>2. sch'[n] = <<t>>
        BY <1>5, <2>1, <4>1
      <4> QED
        BY <4>1, <4>2
    <3>2. sch'[n][i].slot = d[2] /\ sch'[n][i].kind = "invokeInd"
      BY <3>1 DEF TaskFor
    <3> QED
      BY <1>2, <1>3, <1>4, <1>6, <2>1, <3>1, <3>2 DEF TaskLive, Awaited
  <2>2. CASE n # d[1]
    <3>1. PICK f \in Desc : f = <<n, sch[n][i].slot>>
      BY <1>5, <2>2, TaskTyped
    <3>2. sch'[n] = sch[n] /\ f # d /\ f[1] = n
      BY <1>5, <2>2, <3>1
    <3>3. inv'[f] = inv[f] /\ TaskLive(n, i)
      BY <1>3, <3>2 DEF LiveInv, QueueLive
    <3>4. Awaited(f) => Awaited(f)'
      BY <3>2, <3>3 DEF Awaited, Failing
    <3> QED
      BY <1>2, <3>1, <3>2, <3>3, <3>4 DEF TaskLive
  <2> QED
    BY <2>1, <2>2
<1>8. ASSUME NEW e \in Desc, e # d
      PROVE  (Releasing(e) => Releasing(e)') /\ (Failing(e) => Failing(e)')
  <2>1. e[1] \in Node
    BY DEF Desc
  <2> QED
    BY <1>1, <1>5, <2>1, SMTT(40) DEF Releasing, Failing
<1>9. StartReleased'
  BY <1>3, <1>8 DEF LiveInv, StartReleased, StartState
<1>10. HeldDescLive'
  BY <1>2, <1>3, <1>8 DEF LiveInv, HeldDescLive
<1> QED
  BY <1>7, <1>9, <1>10 DEF LiveInv

\* An answer takes the descriptor from the user.
LEMMA AnswerSentLive ==
    ASSUME TypeInv, LiveInv, NEW d \in Desc, NEW kind, NEW next \in AnswerState,
           NEW timer, NEW delay, AnswerSent(d, kind, next, timer, delay)
    PROVE  LiveInv'
<1> DEFINE new == [inv[d] EXCEPT !.state = next, !.isResult = kind]
           kept == [new EXCEPT !.refMap = "performer",
                      !.resultPdu = pduKeep(@, [kind |-> kind, op |-> work[d]]),
                      !.tmrs = tmrCancel(tmrCreate(@, timer, delay, 0),
                                         "perfNoResponse")]
<1>1. inv' = [inv EXCEPT ![d] = new] \/ inv' = [inv EXCEPT ![d] = kept]
  BY DEF AnswerSent
<1>2. new.state = next /\ kept.state = next
  BY DEF TypeInv, TypeOK, InvokeInfo
<1>3. inv'[d].state = next /\ \A e \in Desc : e # d => inv'[e] = inv[e]
  <2> HIDE DEF new, kept
  <2> QED
    BY <1>1, <1>2, Updated
<1>4. /\ inv[d].state = "InvokePduReceived" /\ sch' = sch
      /\ work[d] # NoOp /\ work' = [work EXCEPT ![d] = NoOp]
  BY DEF AnswerSent
<1>5. /\ work'[d] = NoOp /\ \A e \in Desc : e # d => work'[e] = work[e]
  BY <1>4 DEF TypeInv, TypeOK
<1>6. d[1] \in Node /\ sch[d[1]] \in Seq(Task)
  BY TaskTyped DEF Desc
<1>7. sch[d[1]] = sch[d[1]] \o <<>>
  BY <1>6
<1>8. Submit(d[1], <<>>)
  BY <1>4, <1>6, <1>7 DEF Submit, TypeInv, TypeOK
<1>9. <<>> \in Seq(Task) /\ \A k \in 1 .. Len(<<>>) : FALSE
  OBVIOUS
<1>10. /\ inv[d].state \notin StartState \cup {"free"}
       /\ inv'[d].state \notin StartState /\ inv'[d].state # "free"
  BY <1>3, <1>4 DEF StartState, AnswerState
<1> QED
  BY <1>3, <1>4, <1>5, <1>8, <1>9, <1>10, StepLive

\* So does an answer that comes too late.
LEMMA ResultReqIgnoredLive ==
    ASSUME TypeInv, LiveInv, NEW d \in Desc, NEW kind, ResultReqIgnored(d, kind)
    PROVE  LiveInv'
<1>1. /\ inv' = inv /\ sch' = sch
      /\ work' = [work EXCEPT ![d] = NoOp]
  BY DEF ResultReqIgnored
<1>2. \A e \in Desc : work'[e] = work[e] \/ work'[e] = NoOp
  BY <1>1 DEF TypeInv, TypeOK
<1>3. \A n \in Node : \A i \in 1 .. Len(sch[n]) : <<n, sch[n][i].slot>> \in Desc
  BY TaskTyped
<1>4. QueueLive'
  BY <1>1, <1>2, <1>3 DEF LiveInv, QueueLive, TaskLive, Awaited, Failing
<1>5. StartReleased'
  BY <1>1 DEF LiveInv, StartReleased, Releasing
<1>6. HeldDescLive'
  BY <1>1, <1>2 DEF LiveInv, HeldDescLive, Failing
<1> QED
  BY <1>4, <1>5, <1>6 DEF LiveInv

\* tr_clPerformer08: the indication that voids the descriptor is submitted
\* ahead of the release.
LEMMA PerformerNoResponseLive ==
    ASSUME TypeInv, LiveInv, NEW d \in Desc, PerformerNoResponse(d)
    PROVE  LiveInv'
<1> DEFINE new == [inv[d] EXCEPT !.state = "CLPerformerStart",
                     !.invokePdu = relPdu(@), !.tmrs = {}]
           tasks == NoResponseTasks(d)
<1>1. inv' = [inv EXCEPT ![d] = new] /\ work' = work /\ Submit(d[1], tasks)
  BY DEF PerformerNoResponse
<1>2. new.state = "CLPerformerStart"
  BY DEF TypeInv, TypeOK, InvokeInfo
<1>3. /\ inv'[d].state = "CLPerformerStart"
      /\ \A e \in Desc : e # d => inv'[e] = inv[e]
  <2> HIDE DEF new, tasks
  <2> QED
    BY <1>1, <1>2, Updated
<1>4. /\ TaskFor(d, "failureInd", NoOp) \in Task
      /\ TaskFor(d, "relInvoke", NoOp) \in Task
  BY DEF TaskFor, Task, TaskKind, Desc
<1>5. /\ tasks \in Seq(Task) /\ Len(tasks) = 2
      /\ tasks[1].slot = d[2] /\ tasks[1].kind = "failureInd"
      /\ tasks[2].slot = d[2] /\ tasks[2].kind = "relInvoke"
  BY <1>4 DEF NoResponseTasks, TaskFor
<1>6. inv[d].state = "InvokePduReceived"
  BY DEF PerformerNoResponse
<1> HIDE DEF new, tasks
<1>7. \A k \in 1 .. Len(tasks) : k = 1 \/ k = 2
  BY <1>5
<1>8. /\ inv[d].state \notin StartState \cup {"free"}
      /\ inv'[d].state # "free" /\ inv'[d].state \in StartState
      /\ \A e \in Desc : e # d =>
           inv'[e].state = inv[e].state /\ work'[e] = work[e]
  BY <1>1, <1>3, <1>6 DEF StartState
<1>9. \A k \in 1 .. Len(tasks) :
        /\ tasks[k].slot = d[2] /\ tasks[k].kind # "invokeInd"
        /\ tasks[k].kind = "relInvoke" =>
             k = Len(tasks) /\ inv'[d].state \in StartState
  BY <1>5, <1>7, <1>8
<1>10. /\ \E k \in 1 .. Len(tasks) : tasks[k].kind = "relInvoke"
       /\ \E k \in 1 .. Len(tasks) : tasks[k].kind = "failureInd"
  BY <1>5
<1> QED
  BY <1>1, <1>3, <1>5, <1>8, <1>9, <1>10, StepLive

\* SCH_run: what is told to a user or released was alive, and so is the rest.
LEMMA RunTaskLive ==
    ASSUME TypeInv, LiveInv, NEW n \in Node, RunTask(n)
    PROVE  LiveInv'
<1>1. PICK t, d : t = Head(sch[n]) /\ d = <<n, t.slot>>
  OBVIOUS
<1>2. /\ sch[n] \in Seq(Task) /\ sch[n] # <<>> /\ Len(sch[n]) \in Nat
      /\ t = sch[n][1] /\ 1 \in 1 .. Len(sch[n]) /\ d \in Desc
      /\ d[1] = n /\ d[2] = t.slot
  BY <1>1, TaskTyped DEF RunTask
<1>3. /\ sch'[n] = Tail(sch[n])
      /\ \A e \in Node : e # n => sch'[e] = sch[e]
  BY DEF RunTask, TypeInv, TypeOK
<1>4. /\ Len(sch'[n]) = Len(sch[n]) - 1
      /\ \A i \in 1 .. Len(sch'[n]) :
           i + 1 \in 2 .. Len(sch[n]) /\ sch'[n][i] = sch[n][i + 1]
      /\ \A j \in 2 .. Len(sch[n]) :
           j - 1 \in 1 .. Len(sch'[n]) /\ sch'[n][j - 1] = sch[n][j]
  BY <1>2, <1>3
<1>5. /\ t.kind = "relInvoke" => inv' = [inv EXCEPT ![d] = FreeInfo]
      /\ t.kind # "relInvoke" => inv' = inv
      /\ t.kind = "invokeInd" => work' = [work EXCEPT ![d] = t.op]
      /\ t.kind = "failureInd" => work' = [work EXCEPT ![d] = NoOp]
      /\ t.kind \notin {"invokeInd", "failureInd"} => work' = work
  BY <1>1 DEF RunTask, relInvoke
<1>6. \A e \in Desc : e # d => inv'[e] = inv[e] /\ work'[e] = work[e]
  BY <1>5 DEF TypeInv, TypeOK
<1>7. /\ t.kind = "relInvoke" => inv'[d].state = "free" /\ work'[d] = work[d]
      /\ t.kind # "relInvoke" => inv'[d] = inv[d]
      /\ t.kind = "failureInd" => work'[d] = NoOp
      /\ t.kind \notin {"invokeInd", "failureInd"} => work'[d] = work[d]
  BY <1>2, <1>5 DEF FreeInfo, TypeInv, TypeOK
<1>8. TaskLive(n, 1)
  BY <1>2 DEF LiveInv, QueueLive
<1>9. \A j \in 2 .. Len(sch[n]) :
        /\ TaskLive(n, j) /\ sch[n][j].kind # "invokeInd"
        /\ t.kind = "relInvoke" => sch[n][j].slot # t.slot
  <2>1. ASSUME NEW j \in 2 .. Len(sch[n])
        PROVE  j \in 1 .. Len(sch[n]) /\ j # 1 /\ j \in 1 + 1 .. Len(sch[n])
    OBVIOUS
  <2>2. \A j \in 2 .. Len(sch[n]) :
          TaskLive(n, j) /\ sch[n][j].kind # "invokeInd"
    BY <2>1 DEF LiveInv, QueueLive, TaskLive
  <2> QED
    BY <1>2, <1>8, <2>1, <2>2 DEF TaskLive
<1>10. ASSUME NEW e \in Desc
       PROVE  /\ Failing(e) /\ (e # d \/ t.kind # "failureInd") => Failing(e)'
              /\ Releasing(e) /\ (e # d \/ t.kind # "relInvoke") => Releasing(e)'
  <2>1. e[1] \in Node /\ e = <<e[1], e[2]>> /\ d = <<d[1], d[2]>>
    BY <1>2 DEF Desc
  <2>2. CASE e[1] # n
    BY <1>3, <2>1, <2>2 DEF Failing, Releasing
  <2>3. CASE e[1] = n
    <3>1. ASSUME NEW kind \in {"failureInd", "relInvoke"},
                 NEW j \in 1 .. Len(sch[n]),
                 sch[n][j].slot = e[2], sch[n][j].kind = kind,
                 e # d \/ t.kind # kind
          PROVE  \E i \in 1 .. Len(sch'[n]) :
                   sch'[n][i].slot = e[2] /\ sch'[n][i].kind = kind
      <4>1. j # 1
        BY <1>2, <2>1, <2>3, <3>1
      <4>2. j \in 2 .. Len(sch[n])
        BY <1>2, <4>1
      <4> QED
        BY <1>4, <3>1, <4>2
    <3> QED
      BY <2>3, <3>1 DEF Failing, Releasing
  <2> QED
    BY <2>2, <2>3
<1>11. work'[d] # NoOp => Awaited(d)'
  <2>1. CASE t.kind = "relInvoke"
    <3>1. inv[d].state \in StartState
      BY <1>1, <1>2, <1>8, <2>1 DEF TaskLive
    <3>2. ~ Failing(d)
      <4> SUFFICES ASSUME NEW j \in 1 .. Len(sch[n]), sch[n][j].slot = t.slot,
                          sch[n][j].kind = "failureInd"
                   PROVE  FALSE
        BY <1>2 DEF Failing
      <4>1. j = 1 \/ j \in 2 .. Len(sch[n])
        BY <1>2
      <4> QED
        BY <1>2, <1>9, <2>1, <4>1
    <3> QED
      BY <1>2, <1>7, <2>1, <3>1, <3>2 DEF LiveInv, HeldDescLive, StartState
  <2>2. CASE t.kind = "invokeInd"
    <3>1. Awaited(d)
      BY <1>1, <1>2, <1>8, <2>2 DEF TaskLive
    <3> QED
      BY <1>2, <1>7, <1>10, <2>2, <3>1 DEF Awaited
  <2>3. CASE t.kind \notin {"relInvoke", "invokeInd", "failureInd"}
    <3>1. work[d] # NoOp => Awaited(d)
      BY <1>2 DEF LiveInv, HeldDescLive, Awaited
    <3> QED
      BY <1>2, <1>7, <1>10, <2>3, <3>1 DEF Awaited
  <2> QED
    BY <1>7, <2>1, <2>2, <2>3
<1>12. HeldDescLive'
  <2> SUFFICES ASSUME NEW e \in Desc, work'[e] # NoOp PROVE Awaited(e)'
    BY DEF HeldDescLive, Awaited
  <2>1. CASE e # d
    BY <1>6, <1>10, <2>1 DEF LiveInv, HeldDescLive, Awaited
  <2> QED
    BY <1>11, <2>1
<1>13. StartReleased'
  <2> SUFFICES ASSUME NEW e \in Desc, inv'[e].state \in StartState
               PROVE  Releasing(e)'
    BY DEF StartReleased
  <2>1. CASE e = d
    BY <1>7, <1>10, <2>1 DEF LiveInv, StartReleased, StartState
  <2>2. CASE e # d
    BY <1>6, <1>10, <2>2 DEF LiveInv, StartReleased
  <2> QED
    BY <2>1, <2>2
<1>14. ASSUME NEW e \in Node, NEW i \in 1 .. Len(sch'[e]) PROVE TaskLive(e, i)'
  <2>1. CASE e = n
    <3>1. PICK j : j = i + 1
      OBVIOUS
    <3>2. /\ j \in 2 .. Len(sch[n]) /\ j \in 1 .. Len(sch[n])
          /\ sch'[n][i] = sch[n][j]
      BY <1>4, <2>1, <3>1
    <3>3. PICK u, f : u = sch[n][j] /\ f = <<n, u.slot>>
      OBVIOUS
    <3>4. f \in Desc
      BY <3>2, <3>3, TaskTyped
    <3>5. TaskLive(n, j) /\ u.kind # "invokeInd"
      BY <1>9, <3>2, <3>3
    <3>6. inv'[f] = inv[f]
      BY <1>1, <1>6, <1>7, <1>9, <3>2, <3>3, <3>4
    <3>7. ASSUME u.kind = "relInvoke", NEW k \in i + 1 .. Len(sch'[n])
          PROVE  sch'[n][k].slot # u.slot
      <4>1. k \in 1 .. Len(sch'[n]) /\ k + 1 \in j + 1 .. Len(sch[n])
        BY <1>2, <1>4, <2>1, <3>1
      <4> QED
        BY <1>4, <3>3, <3>5, <3>7, <4>1 DEF TaskLive
    <3> QED
      BY <2>1, <3>2, <3>3, <3>5, <3>6, <3>7 DEF TaskLive
  <2>2. CASE e # n
    <3>1. sch'[e] = sch[e]
      BY <1>3, <2>2
    <3>2. PICK f \in Desc : f = <<e, sch[e][i].slot>>
      BY <3>1, TaskTyped
    <3>3. f # d /\ f[1] = e
      BY <1>2, <2>2, <3>2
    <3>4. inv'[f] = inv[f] /\ work'[f] = work[f] /\ TaskLive(e, i)
      BY <1>6, <3>1, <3>3 DEF LiveInv, QueueLive
    <3>5. Awaited(f) => Awaited(f)'
      BY <3>1, <3>3, <3>4 DEF Awaited, Failing
    <3> QED
      BY <3>1, <3>2, <3>4, <3>5 DEF TaskLive
  <2> QED
    BY <2>1, <2>2
<1> QED
  BY <1>12, <1>13, <1>14 DEF LiveInv, QueueLive

\* The clock changes no state and no task.
LEMMA TickLive ==
    ASSUME TypeInv, LiveInv, Tick
    PROVE  LiveInv'
<1>1. ASSUME NEW d \in Desc PROVE inv'[d].state = inv[d].state
  BY TickedTyped DEF Tick, TypeInv, TypeOK
<1>2. sch' = sch /\ work' = work
  BY DEF Tick, userVars
<1> QED
  BY <1>1, <1>2, SameLive

\* A repeated INVOKE PDU and an ignored timer change no state and no task.
LEMMA RepeatedInvokeLive ==
    ASSUME TypeInv, LiveInv,
           \/ \E m \in net : PerformerLateInvoke(m)
           \/ \E m \in net : \E state : AnswerAgain(m, state)
           \/ \E d \in Desc : InvokerRetran(d)
           \/ \E d \in Desc : \E expects : IgnoreTimer(d, expects)
    PROVE  LiveInv'
<1>1. sch' = sch /\ work' = work
  BY DEF PerformerLateInvoke, AnswerAgain, InvokerRetran, IgnoreTimer, userVars
<1>2. CASE inv' = inv
  BY <1>1, <1>2, SameLive
<1>3. CASE inv' # inv
  <2>1. ASSUME NEW m \in net, NEW d \in Duplicates(m) PROVE d \in Desc
    BY PduInNet DEF Duplicates, Desc
  <2>2. PICK d \in Desc : \E ts : inv' = [inv EXCEPT ![d].tmrs = ts]
    <3>1. CASE \E m \in net : PerformerLateInvoke(m)
      BY <2>1, <3>1 DEF PerformerLateInvoke
    <3>2. CASE \E m \in net : \E state : AnswerAgain(m, state)
      BY <1>3, <2>1, <3>2 DEF AnswerAgain
    <3>3. CASE \/ \E d \in Desc : InvokerRetran(d)
               \/ \E d \in Desc : \E expects : IgnoreTimer(d, expects)
      BY <3>3 DEF InvokerRetran, IgnoreTimer
    <3> QED
      BY <3>1, <3>2, <3>3
  <2> QED
    BY <1>1, <2>2, RetimeLive
<1> QED
  BY <1>2, <1>3

\* A step that leaves the table, the tasks and the descriptors alone.
LEMMA UnchangedLive ==
    ASSUME TypeInv, LiveInv, UNCHANGED <<inv, sch, work>>
    PROVE  LiveInv'
BY SameLive

\* At the start nothing is in use.
LEMMA InitLive == Init => LiveInv
<1> SUFFICES ASSUME Init PROVE LiveInv
  OBVIOUS
<1>1. QueueLive
  BY DEF Init, QueueLive
<1>2. StartReleased
  BY DEF Init, StartReleased, StartState, FreeInfo
<1>3. HeldDescLive
  BY DEF Init, HeldDescLive
<1> QED
  BY <1>1, <1>2, <1>3 DEF LiveInv

-----------------------------------------------------------------------------
(* Timers.                                                                 *)

\* The rows of a transition diagram that both handshakes have.
TimerTable(expects) ==
    /\ expects["InvokePduSent"] \cap TimerName = {"invokePduRetran", "last"}
    /\ expects["InvokePduReceived"] \cap TimerName = {"perfNoResponse"}
    /\ \A s \in {"InvokerRefWait", "PerformerRefWait"} :
         expects[s] \cap TimerName = {"refNu"}
    /\ \A s \in StartState \cup {"free"} : expects[s] \cap TimerName = {}

\* The InvokeInfo u has a timer that its state expects, if it expects any, or
\* is one of those that never get it.
Timed(u, expects) ==
    \/ expects[u.state] \cap TimerName = {}
    \/ \E t \in u.tmrs : t.name \in expects[u.state] \cap TimerName
    \/ u.state = "InvokePduSent" /\ u.ref = NoRef
    \/ u.state \in AnswerState /\ u.refMap = "none"
    \/ FALSE \in SendOutcome /\ u.state = "AckPduSent" /\ u.tmrs = {}

\* Why an answer that was sent goes on being retransmitted: its InvokeInfo is
\* in the map only with the PDU kept, and in no map before the answer.
ArmedInfo(u, expects) ==
    /\ Timed(u, expects)
    /\ u.state \in {"free", "InvokePduReceived"} => u.refMap = "none"
    /\ u.state \in AnswerState /\ u.refMap # "none" => u.resultPdu # <<>>

ArmedInv(expects) == \A d \in Desc : ArmedInfo(inv[d], expects)

\* Changing one InvokeInfo.
LEMMA OneArmed ==
    ASSUME TypeInv, NEW expects, ArmedInv(expects), NEW d \in Desc, NEW new,
           inv' = [inv EXCEPT ![d] = new], ArmedInfo(new, expects)
    PROVE  ArmedInv(expects)'
<1>1. \A e \in Desc : inv'[e] = IF e = d THEN new ELSE inv[e]
  BY DEF TypeInv, TypeOK
<1>2. ASSUME NEW e \in Desc PROVE ArmedInfo(inv[e], expects)'
  <2>1. PICK u : u = inv'[e] /\ ArmedInfo(u, expects)
    BY <1>1 DEF ArmedInv
  <2> QED
    BY <2>1 DEF ArmedInfo, Timed
<1> QED
  BY <1>2 DEF ArmedInv

\* Leaving them all alone.
LEMMA SameArmed ==
    ASSUME NEW expects, ArmedInv(expects), inv' = inv
    PROVE  ArmedInv(expects)'
BY DEF ArmedInv, ArmedInfo, Timed

\* What a created timer and a restarted one leave in the queue.
LEMMA CreatedTimer ==
    ASSUME NEW ts, NEW name, NEW time, NEW datum
    PROVE  /\ \E t \in tmrCreate(ts, name, time, datum) : t.name = name
           /\ ts \subseteq tmrCreate(ts, name, time, datum)
           /\ \E t \in tmrRestart(ts, name, time) : t.name = name
           /\ \A t \in ts : t.name # name => t \in tmrRestart(ts, name, time)
<1>1. PICK u : u = [name |-> name, datum |-> datum, left |-> time]
  OBVIOUS
<1>2. PICK v : v = [name |-> name, datum |-> 0, left |-> time]
  OBVIOUS
<1>3. u.name = name /\ v.name = name
  BY <1>1, <1>2
<1>4. /\ tmrCreate(ts, name, time, datum) = ts \cup {u}
      /\ tmrRestart(ts, name, time) = {t \in ts : t.name # name} \cup {v}
  BY <1>1, <1>2 DEF tmrCreate, tmrRestart, tmrCancel
<1> QED
  BY <1>3, <1>4

\* New timers, one of them awaited, or every old one by name.
LEMMA RetimeArmed ==
    ASSUME TypeInv, NEW expects, ArmedInv(expects), NEW d \in Desc, NEW ts,
           inv' = [inv EXCEPT ![d].tmrs = ts],
           \/ \E t \in ts : t.name \in expects[inv[d].state] \cap TimerName
           \/ /\ inv[d].state # "AckPduSent"
              /\ \A t \in inv[d].tmrs : \E u \in ts : u.name = t.name
    PROVE  ArmedInv(expects)'
<1> DEFINE new == [inv[d] EXCEPT !.tmrs = ts]
<1>1. /\ new.tmrs = ts /\ new.state = inv[d].state /\ new.ref = inv[d].ref
      /\ new.refMap = inv[d].refMap /\ new.resultPdu = inv[d].resultPdu
  BY DEF TypeInv, TypeOK, InvokeInfo
<1>2. inv' = [inv EXCEPT ![d] = new]
  OBVIOUS
<1> HIDE DEF new
<1>3. Timed(new, expects)
  BY <1>1 DEF ArmedInv, ArmedInfo, Timed
<1>4. ArmedInfo(new, expects)
  BY <1>1, <1>3 DEF ArmedInv, ArmedInfo
<1> QED
  BY <1>2, <1>4, OneArmed

\* A timer restarted in a state that waits for others is one more.
LEMMA RestartArmed ==
    ASSUME TypeInv, NEW expects, ArmedInv(expects), NEW d \in Desc, NEW name,
           NEW time, inv' = [inv EXCEPT ![d].tmrs = tmrRestart(@, name, time)],
           \/ inv[d].state # "AckPduSent"
           \/ name \in expects[inv[d].state] \cap TimerName
    PROVE  ArmedInv(expects)'
<1>1. PICK ts : ts = tmrRestart(inv[d].tmrs, name, time)
  OBVIOUS
<1>2. /\ \E u \in ts : u.name = name
      /\ \A t \in inv[d].tmrs : \E u \in ts : u.name = t.name
  <2>1. /\ \E u \in ts : u.name = name
        /\ \A t \in inv[d].tmrs : t.name # name => t \in ts
    BY <1>1, CreatedTimer
  <2> QED
    BY <2>1
<1>3. inv' = [inv EXCEPT ![d].tmrs = ts]
  BY <1>1
<1>4. \/ \E t \in ts : t.name \in expects[inv[d].state] \cap TimerName
      \/ /\ inv[d].state # "AckPduSent"
         /\ \A t \in inv[d].tmrs : \E u \in ts : u.name = t.name
  BY <1>2
<1> QED
  BY <1>3, <1>4, RetimeArmed

\* A transition into a wait for the reference number's release.
LEMMA RefWaitArmed ==
    ASSUME TypeInv, NEW expects, TimerTable(expects), ArmedInv(expects),
           NEW d \in Desc, NEW s \in {"InvokerRefWait", "PerformerRefWait"},
           NEW ip, NEW rp, NEW ts, NEW time,
           inv' = [inv EXCEPT ![d] = [inv[d] EXCEPT
                     !.state = s, !.invokePdu = ip, !.resultPdu = rp,
                     !.tmrs = tmrCreate(ts, "refNu", time, 0)]]
    PROVE  ArmedInv(expects)'
<1> DEFINE new == [inv[d] EXCEPT
                     !.state = s, !.invokePdu = ip, !.resultPdu = rp,
                     !.tmrs = tmrCreate(ts, "refNu", time, 0)]
<1>1. new.state = s /\ new.tmrs = tmrCreate(ts, "refNu", time, 0)
  BY DEF TypeInv, TypeOK, InvokeInfo
<1>2. inv' = [inv EXCEPT ![d] = new]
  OBVIOUS
<1> HIDE DEF new
<1>3. \E t \in new.tmrs : t.name = "refNu"
  BY <1>1, CreatedTimer
<1>4. ArmedInfo(new, expects)
  BY <1>1, <1>3 DEF ArmedInfo, Timed, TimerTable, AnswerState
<1> QED
  BY <1>2, <1>4, OneArmed

\* A transition into a state that expects no timer.
LEMMA StartArmed ==
    ASSUME TypeInv, NEW expects, TimerTable(expects), ArmedInv(expects),
           NEW d \in Desc, NEW s \in StartState, NEW ip, NEW ts,
           inv' = [inv EXCEPT ![d] = [inv[d] EXCEPT
                     !.state = s, !.invokePdu = ip, !.tmrs = ts]]
    PROVE  ArmedInv(expects)'
<1> DEFINE new == [inv[d] EXCEPT !.state = s, !.invokePdu = ip, !.tmrs = ts]
<1>1. new.state = s
  BY DEF TypeInv, TypeOK, InvokeInfo
<1>2. inv' = [inv EXCEPT ![d] = new]
  OBVIOUS
<1> HIDE DEF new
<1>3. ArmedInfo(new, expects)
  BY <1>1 DEF ArmedInfo, Timed, TimerTable, StartState, AnswerState
<1> QED
  BY <1>2, <1>3, OneArmed

-----------------------------------------------------------------------------
(* Every step both diagrams share keeps the timers armed.                  *)

\* tr_clInvoker01 starts the retransmission timer if it got a number.
LEMMA InvokeReqArmed ==
    ASSUME TypeInv, NEW expects, TimerTable(expects), ArmedInv(expects),
           NEW op \in Op, InvokeReq(op)
    PROVE  ArmedInv(expects)'
<1>1. PICK d \in Avail(From[op]) :
        \/ NewInvocation(op).ref = NoRef /\ inv' = [inv EXCEPT ![d] = NewInvocation(op)]
        \/ inv' = [inv EXCEPT ![d] = SentInvocation(op)]
  BY DEF InvokeReq
<1>2. d \in Desc
  BY <1>1, ShapeAssumption DEF Avail, Desc
<1>3. /\ NewInvocation(op).state = "InvokePduSent"
      /\ SentInvocation(op).state = "InvokePduSent"
      /\ \E t \in SentInvocation(op).tmrs : t.name = "invokePduRetran"
  BY CreatedTimer DEF NewInvocation, SentInvocation, FreeInfo
<1>4. ArmedInfo(SentInvocation(op), expects)
  BY <1>3 DEF ArmedInfo, Timed, TimerTable, AnswerState
<1>5. NewInvocation(op).ref = NoRef => ArmedInfo(NewInvocation(op), expects)
  BY <1>3 DEF ArmedInfo, Timed, AnswerState
<1> QED
  BY <1>1, <1>2, <1>4, <1>5, OneArmed

\* The invoker's timers: after the retransmissions comes the last timer, after
\* it the release of the reference number.
LEMMA InvokerTimerArmed ==
    ASSUME TypeInv, NEW expects, TimerTable(expects), ArmedInv(expects),
           NEW d \in Desc, InvokerRetran(d) \/ InvokerLast(d)
    PROVE  ArmedInv(expects)'
<1>1. CASE InvokerRetran(d)
  <2>1. PICK ts : /\ inv' = [inv EXCEPT ![d].tmrs = ts]
                  /\ \/ \E r : ts = lastTimer(r)
                     \/ \E r, n : ts = tmrCreate(r, "invokePduRetran",
                                                 retransTimeout, n)
    <3>1. PICK t : LET rest == inv[d].tmrs \ {t} IN
                   \/ inv' = [inv EXCEPT ![d].tmrs = lastTimer(rest)]
                   \/ inv' = [inv EXCEPT ![d].tmrs =
                               tmrCreate(rest, "invokePduRetran",
                                         retransTimeout, t.datum + 1)]
      BY <1>1 DEF InvokerRetran
    <3> QED
      BY <3>1
  <2>2. \E t \in ts : t.name \in {"invokePduRetran", "last"}
    BY <2>1, CreatedTimer DEF lastTimer
  <2>3. inv[d].state = "InvokePduSent"
    BY <1>1 DEF InvokerRetran
  <2>4. \E t \in ts : t.name \in expects[inv[d].state] \cap TimerName
    BY <2>2, <2>3 DEF TimerTable
  <2> QED
    BY <2>1, <2>4, RetimeArmed
<1>2. CASE InvokerLast(d)
  <2>1. PICK t :
          inv' = [inv EXCEPT ![d] = [inv[d] EXCEPT
                    !.state = "InvokerRefWait",
                    !.invokePdu = relPdu(inv[d].invokePdu),
                    !.resultPdu = relPdu(inv[d].resultPdu),
                    !.tmrs = tmrCreate(inv[d].tmrs \ {t}, "refNu",
                                       refKeepTime, 0)]]
    BY <1>2, ZenonT(60) DEF InvokerLast
  <2> QED
    BY <2>1, RefWaitArmed
<1> QED
  BY <1>1, <1>2

\* A FAILURE PDU leaves the reference number waiting for its release.
LEMMA InvokerFailureArmed ==
    ASSUME TypeInv, NEW expects, TimerTable(expects), ArmedInv(expects),
           NEW m \in net, InvokerFailure(m)
    PROVE  ArmedInv(expects)'
<1>1. PICK d \in refToInvoker(m.dst, m.ref, m.src) : FailOperation(d)
  BY DEF InvokerFailure
<1>2. d \in Desc
  BY <1>1, PduInNet, MappedInDesc DEF refToInvoker
<1>3. inv[d] \in InvokeInfo
  BY <1>2 DEF TypeInv, TypeOK
<1>4. inv' = [inv EXCEPT ![d] = [inv[d] EXCEPT
                !.state = "InvokerRefWait", !.invokePdu = inv[d].invokePdu,
                !.resultPdu = inv[d].resultPdu,
                !.tmrs = tmrCreate({}, "refNu", refKeepTime, 0)]]
  BY <1>1, <1>3 DEF FailOperation, InvokeInfo
<1> QED
  BY <1>2, <1>4, RefWaitArmed

\* The releases and the silent user lead to a start state.
LEMMA ReleaseArmed ==
    ASSUME TypeInv, NEW expects, TimerTable(expects), ArmedInv(expects),
           NEW d \in Desc,
           InvokerRelease(d) \/ PerformerRelease(d) \/ PerformerNoResponse(d)
    PROVE  ArmedInv(expects)'
<1>1. inv[d] \in InvokeInfo
  BY SMTT(40) DEF TypeInv, TypeOK
<1>2. PICK s \in StartState :
        \E ip, ts : inv' = [inv EXCEPT ![d].state = s, ![d].invokePdu = ip,
                                       ![d].tmrs = ts]
  <2>1. CASE InvokerRelease(d) \/ PerformerRelease(d)
    <3>1. PICK s \in StartState :
            \E ts : inv' = [inv EXCEPT ![d].state = s, ![d].tmrs = ts]
      BY <2>1 DEF InvokerRelease, PerformerRelease, StartState
    <3>2. PICK ts : inv' = [inv EXCEPT ![d].state = s, ![d].tmrs = ts]
      BY <3>1
    <3>3. inv' = [inv EXCEPT ![d].state = s, ![d].invokePdu = inv[d].invokePdu,
                             ![d].tmrs = ts]
      BY <1>1, <3>2 DEF InvokeInfo
    <3> QED
      BY <3>3
  <2>2. CASE PerformerNoResponse(d)
    BY <2>2 DEF PerformerNoResponse, StartState
  <2> QED
    BY <2>1, <2>2
<1>3. PICK ip, ts : inv' = [inv EXCEPT ![d].state = s, ![d].invokePdu = ip,
                                       ![d].tmrs = ts]
  BY <1>2
<1>4. inv' = [inv EXCEPT ![d] = [inv[d] EXCEPT
                !.state = s, !.invokePdu = ip, !.tmrs = ts]]
  BY <1>3
<1> QED
  BY <1>4, StartArmed

\* tr_clPerformer01 times the user.
LEMMA PerformerInvokeArmed ==
    ASSUME TypeInv, LiveInv, NEW expects, TimerTable(expects), ArmedInv(expects),
           NEW m \in net, PerformerInvoke(m)
    PROVE  ArmedInv(expects)'
<1>1. PICK d \in Desc :
        /\ inv[d].state = "free"
        /\ inv' = [inv EXCEPT ![d] =
             [inv[d] EXCEPT
                !.state = "InvokePduReceived", !.sap = m.sap,
                !.rem = m.src, !.ref = m.ref, !.userRef = m.op,
                !.tmrs = tmrCreate(inv[d].tmrs, "perfNoResponse",
                                   perfNoResponse, 0)]]
  BY FreshPerformer
<1> DEFINE new == [inv[d] EXCEPT
                     !.state = "InvokePduReceived", !.sap = m.sap,
                     !.rem = m.src, !.ref = m.ref, !.userRef = m.op,
                     !.tmrs = tmrCreate(inv[d].tmrs, "perfNoResponse",
                                        perfNoResponse, 0)]
<1>2. /\ new.state = "InvokePduReceived" /\ new.refMap = inv[d].refMap
      /\ new.tmrs = tmrCreate(inv[d].tmrs, "perfNoResponse", perfNoResponse, 0)
  BY DEF TypeInv, TypeOK, InvokeInfo
<1>3. inv' = [inv EXCEPT ![d] = new]
  BY <1>1
<1> HIDE DEF new
<1>4. \E t \in new.tmrs : t.name = "perfNoResponse"
  BY <1>2, CreatedTimer
<1>5. inv[d].refMap = "none"
  BY <1>1 DEF ArmedInv, ArmedInfo
<1>6. ArmedInfo(new, expects)
  BY <1>2, <1>4, <1>5 DEF ArmedInfo, Timed, TimerTable, AnswerState
<1> QED
  BY <1>3, <1>6, OneArmed

\* An answer whose number could be kept is timed as its diagram wants.
LEMMA AnswerSentArmed ==
    ASSUME TypeInv, NEW expects, TimerTable(expects), ArmedInv(expects),
           NEW d \in Desc, NEW kind, NEW next \in AnswerState,
           NEW timer \in expects[next] \cap TimerName, timer # "perfNoResponse",
           NEW delay, AnswerSent(d, kind, next, timer, delay)
    PROVE  ArmedInv(expects)'
<1> DEFINE new == [inv[d] EXCEPT !.state = next, !.isResult = kind]
           kept == [new EXCEPT !.refMap = "performer",
                      !.resultPdu = pduKeep(@, [kind |-> kind, op |-> work[d]]),
                      !.tmrs = tmrCancel(tmrCreate(@, timer, delay, 0),
                                         "perfNoResponse")]
<1>1. inv' = [inv EXCEPT ![d] = new] \/ inv' = [inv EXCEPT ![d] = kept]
  BY DEF AnswerSent
<1>2. inv[d] \in InvokeInfo /\ inv[d].state = "InvokePduReceived"
  BY DEF AnswerSent, TypeInv, TypeOK
<1>3. /\ new.state = next /\ new.refMap = inv[d].refMap
      /\ kept.state = next
      /\ kept.resultPdu = pduKeep(inv[d].resultPdu,
                                  [kind |-> kind, op |-> work[d]])
      /\ kept.tmrs = tmrCancel(tmrCreate(inv[d].tmrs, timer, delay, 0),
                               "perfNoResponse")
  BY <1>2 DEF InvokeInfo
<1> HIDE DEF new, kept
<1>4. inv[d].refMap = "none"
  BY <1>2 DEF ArmedInv, ArmedInfo
<1>5. ArmedInfo(new, expects)
  BY <1>3, <1>4 DEF ArmedInfo, Timed, AnswerState
<1>6. kept.resultPdu # <<>>
  <2>1. inv[d].resultPdu \in Seq(Payload)
    BY <1>2 DEF InvokeInfo
  <2>2. \A q \in Seq(Payload) : \A p : Append(q, p) # <<>>
    OBVIOUS
  <2> QED
    BY <1>3, <2>1, <2>2 DEF pduKeep
<1>7. \E t \in kept.tmrs : t.name = timer
  BY <1>3, CreatedTimer DEF tmrCancel
<1>8. ArmedInfo(kept, expects)
  BY <1>3, <1>6, <1>7 DEF ArmedInfo, Timed, AnswerState
<1> QED
  BY <1>1, <1>5, <1>8, OneArmed

\* A repeated INVOKE PDU restarts a timer.
LEMMA RepeatedInvokeArmed ==
    ASSUME TypeInv, NEW expects, TimerTable(expects), ArmedInv(expects),
           NEW m \in net, NEW state \in AnswerState,
           PerformerLateInvoke(m) \/ AnswerAgain(m, state)
    PROVE  ArmedInv(expects)'
<1>1. CASE inv' = inv
  BY <1>1, SameArmed
<1>2. CASE inv' # inv
  <2>1. PICK d \in Duplicates(m) :
          /\ inv[d].state # "AckPduSent"
          /\ \E name, time :
               inv' = [inv EXCEPT ![d].tmrs = tmrRestart(@, name, time)]
    BY <1>2, ZenonT(60) DEF PerformerLateInvoke, AnswerAgain, AnswerState
  <2>2. d \in Desc
    BY PduInNet DEF Duplicates, Desc
  <2> QED
    BY <2>1, <2>2, RestartArmed
<1> QED
  BY <1>1, <1>2

\* The timers that the state does not expect go, the others stay.
LEMMA IgnoreTimerArmed ==
    ASSUME TypeInv, NEW expects, ArmedInv(expects), NEW d \in Desc,
           IgnoreTimer(d, expects)
    PROVE  ArmedInv(expects)'
<1>1. PICK t \in inv[d].tmrs :
        /\ t.name \notin expects[inv[d].state]
        /\ inv' = [inv EXCEPT ![d].tmrs = @ \ {t}]
  BY DEF IgnoreTimer
<1> DEFINE new == [inv[d] EXCEPT !.tmrs = @ \ {t}]
<1>2. /\ new.tmrs = inv[d].tmrs \ {t} /\ new.state = inv[d].state
      /\ new.ref = inv[d].ref /\ new.refMap = inv[d].refMap
      /\ new.resultPdu = inv[d].resultPdu
  BY DEF TypeInv, TypeOK, InvokeInfo
<1>3. inv' = [inv EXCEPT ![d] = new]
  BY <1>1
<1> HIDE DEF new
<1>4. Timed(new, expects)
  BY <1>1, <1>2 DEF ArmedInv, ArmedInfo, Timed
<1>5. ArmedInfo(new, expects)
  BY <1>2, <1>4 DEF ArmedInv, ArmedInfo
<1> QED
  BY <1>3, <1>5, OneArmed

\* A released element waits for nothing.
LEMMA RunTaskArmed ==
    ASSUME TypeInv, NEW expects, TimerTable(expects), ArmedInv(expects),
           NEW n \in Node, RunTask(n)
    PROVE  ArmedInv(expects)'
<1>1. PICK d : d = <<n, Head(sch[n]).slot>>
  OBVIOUS
<1>2. d \in Desc
  <2>1. sch[n] \in Seq(Task) /\ sch[n] # <<>>
    BY TaskTyped DEF RunTask
  <2>2. Head(sch[n]) = sch[n][1] /\ 1 \in 1 .. Len(sch[n])
    BY <2>1
  <2> QED
    BY <1>1, <2>2, TaskTyped
<1>3. inv' = inv \/ inv' = [inv EXCEPT ![d] = FreeInfo]
  BY <1>1 DEF RunTask, relInvoke
<1>4. ArmedInfo(FreeInfo, expects)
  BY DEF ArmedInfo, Timed, TimerTable, FreeInfo, AnswerState
<1> QED
  BY <1>2, <1>3, <1>4, SameArmed, OneArmed

\* The clock creates and removes no timer.
LEMMA TickArmed ==
    ASSUME TypeInv, NEW expects, ArmedInv(expects), Tick
    PROVE  ArmedInv(expects)'
<1> SUFFICES ASSUME NEW d \in Desc PROVE ArmedInfo(inv[d], expects)'
  BY DEF ArmedInv
<1>1. inv'[d] = [inv[d] EXCEPT !.tmrs = {[t EXCEPT !.left = @ - 1] : t \in @}]
  BY DEF Tick
<1>2. inv[d] \in InvokeInfo
  BY DEF TypeInv, TypeOK
<1>3. /\ inv'[d].state = inv[d].state /\ inv'[d].ref = inv[d].ref
      /\ inv'[d].refMap = inv[d].refMap /\ inv'[d].resultPdu = inv[d].resultPdu
      /\ inv'[d].tmrs = {[t EXCEPT !.left = @ - 1] : t \in inv[d].tmrs}
  BY <1>1, <1>2 DEF InvokeInfo
<1>4. \A t \in inv[d].tmrs : [t EXCEPT !.left = @ - 1].name = t.name
  BY <1>2 DEF InvokeInfo
<1>5. \A t \in inv[d].tmrs : \E u \in inv'[d].tmrs : u.name = t.name
  BY <1>3, <1>4
<1>6. inv[d].tmrs = {} => inv'[d].tmrs = {}
  BY <1>3
<1>7. Timed(inv[d], expects)'
  BY <1>3, <1>5, <1>6 DEF ArmedInv, ArmedInfo, Timed
<1> QED
  BY <1>3, <1>7 DEF ArmedInv, ArmedInfo

\* At the start nothing waits.
LEMMA InitArmed ==
    ASSUME NEW expects, TimerTable(expects), Init
    PROVE  ArmedInv(expects)
<1>1. ArmedInfo(FreeInfo, expects)
  BY DEF ArmedInfo, Timed, TimerTable, FreeInfo, AnswerState
<1>2. \A d \in Desc : inv[d] = FreeInfo
  BY DEF Init
<1> QED
  BY <1>1, <1>2 DEF ArmedInv

-----------------------------------------------------------------------------
(* The end of the performer's part, which each diagram reaches its own way. *)

\* It submits the confirmation of the answer.
LEMMA PerformerEndLive ==
    ASSUME TypeInv, LiveInv, NEW d \in Desc,
           NEW kind \in {"result", "error", "failure"},
           inv[d].state \in AnswerState, performerCnf(d, kind), work' = work,
           inv' = [inv EXCEPT
                     ![d].state = "PerformerRefWait",
                     ![d].resultPdu = relPdu(@),
                     ![d].tmrs = tmrCreate({}, "refNu", refKeepTime, 0)]
    PROVE  LiveInv'
<1> DEFINE new == [inv[d] EXCEPT !.state = "PerformerRefWait",
                     !.resultPdu = relPdu(@),
                     !.tmrs = tmrCreate({}, "refNu", refKeepTime, 0)]
<1>1. inv' = [inv EXCEPT ![d] = new]
  OBVIOUS
<1>2. new.state \notin StartState \cup {"free"}
  BY DEF TypeInv, TypeOK, InvokeInfo, StartState
<1> HIDE DEF new
<1> QED
  BY <1>1, <1>2, PerformerCnfLive

\* The reference number waits for its release.
LEMMA PerformerEndArmed ==
    ASSUME TypeInv, NEW expects, TimerTable(expects), ArmedInv(expects),
           NEW d \in Desc,
           inv' = [inv EXCEPT
                     ![d].state = "PerformerRefWait",
                     ![d].resultPdu = relPdu(@),
                     ![d].tmrs = tmrCreate({}, "refNu", refKeepTime, 0)]
    PROVE  ArmedInv(expects)'
<1> DEFINE new == [inv[d] EXCEPT !.state = "PerformerRefWait",
                     !.resultPdu = relPdu(@),
                     !.tmrs = tmrCreate({}, "refNu", refKeepTime, 0)]
<1>1. inv' = [inv EXCEPT ![d] = new]
  OBVIOUS
<1>2. /\ new.state = "PerformerRefWait"
      /\ new.tmrs = tmrCreate({}, "refNu", refKeepTime, 0)
  BY DEF TypeInv, TypeOK, InvokeInfo
<1> HIDE DEF new
<1>3. \E t \in new.tmrs : t.name = "refNu"
  BY <1>2, CreatedTimer
<1>4. ArmedInfo(new, expects)
  BY <1>2, <1>3 DEF ArmedInfo, Timed, TimerTable, AnswerState
<1> QED
  BY <1>1, <1>4, OneArmed

-----------------------------------------------------------------------------
(* Each operation on its own.  The engine finds its way by reference       *)
(* numbers and forgets them after a time.  Where no engine gives a number  *)
(* out twice, a number names one operation for good, and the time an       *)
(* InvokeInfo is kept after the answer outlasts every INVOKE PDU that may  *)
(* still arrive: no operation is performed twice.                          *)

\* No engine is asked for more operations than it has reference numbers.
NoReuse ==
    \A n \in Node : LET ops == {op \in Op : From[op] = n}
                    IN  IsFiniteSet(ops) /\ Cardinality(ops) <= NREFS

\* num[op] is the number that erop_refNew gave the operation op; the numbers
\* an engine has given out are those up to its newRef.
Numbered(num) ==
    /\ num \in [Op -> RefNu]
    /\ \A op \in Op : num[op] # NoRef =>
         op \in asked /\ newRef[From[op]] < NREFS /\ num[op] <= newRef[From[op]]
    /\ \A op1, op2 \in Op :
         From[op1] = From[op2] /\ num[op1] # NoRef /\ num[op1] = num[op2]
         => op1 = op2
    /\ \A n \in Node : newRef[n] < NREFS =>
         \A k \in 0 .. newRef[n] : \E op \in Op : From[op] = n /\ num[op] = k

\* The invoking user of op has the performer's answer.
Fulfilled(op) ==
    \E kind \in answer[op] : ind[op] = <<[kind |-> kind, op |-> op]>>

\* An InvokeInfo u of engine n carries the addresses and the number of the
\* operation it serves, and keeps no answer to another.
OwnInvoker(u, n) ==
    /\ u.refMap = "invoker" /\ n = From[u.userRef] /\ u.rem = To[u.userRef]
    /\ u.state = "AckPduSent" => Fulfilled(u.userRef)
OwnPerformer(u, n) ==
    /\ u.refMap # "invoker" /\ n = To[u.userRef] /\ u.rem = From[u.userRef]
    /\ u.sap = ToSap[u.userRef]
    /\ \A i \in 1 .. Len(u.resultPdu) :
         /\ u.resultPdu[i].op = u.userRef
         /\ u.resultPdu[i].kind \in answer[u.userRef]
OwnInfo(u, n, num) ==
    /\ u.state = "free" => u = FreeInfo
    /\ u.state # "free" => u.ref = num[u.userRef] /\ u.ref # NoRef
    /\ u.state \in InvokerState => OwnInvoker(u, n)
    /\ u.state \in PerformerState => OwnPerformer(u, n)

\* So does a PDU.  A RESULT or ERROR PDU says what the performing user said,
\* and an ACK PDU tells that the invoking user has heard it.
OwnPdu(m, num) ==
    /\ m.type = "INVOKE" =>
         /\ m.src = From[m.op] /\ m.dst = To[m.op] /\ m.sap = ToSap[m.op]
         /\ m.ref = num[m.op] /\ m.ref # NoRef
    /\ \A kind \in {"result", "error"} : m.type = ResultType(kind) =>
         /\ m.src = To[m.op] /\ m.dst = From[m.op]
         /\ m.ref = num[m.op] /\ m.ref # NoRef /\ kind \in answer[m.op]
    /\ m.type = "ACK" =>
         \E op \in Op : /\ m.src = From[op] /\ m.ref = num[op] /\ m.ref # NoRef
                        /\ Fulfilled(op)

\* The performing user holds op under descriptor d, or will once the
\* INVOKE.indication that waits in the scheduler is run.
Pending(d, op) ==
    \/ work[d] = op
    \/ \E i \in 1 .. Len(sch[d[1]]) :
         /\ sch[d[1]][i].kind = "invokeInd"
         /\ sch[d[1]][i].slot = d[2] /\ sch[d[1]][i].op = op

OwnInv(num) ==
    /\ Numbered(num)
    /\ \A d \in Desc : OwnInfo(inv[d], d[1], num)
    /\ \A m \in net : OwnPdu(m, num)
    /\ \A d \in Desc : \A op \in Op : Pending(d, op) => op = inv[d].userRef

\* Every INVOKE PDU of op, those still to be sent included, is gone within
\* the given time.
Within(op, time) ==
    /\ \A m \in net : m.type = "INVOKE" /\ m.op = op => m.ttl < time
    /\ \A e \in Desc : Open(e) /\ inv[e].userRef = op =>
         \A t \in inv[e].tmrs :
           t.name = "invokePduRetran" /\ t.datum < RetransmitCount =>
             t.left + (RetransmitCount - 1 - t.datum) * retransTimeout
               + MaxNSDULifeTime < time

\* The time from the request.
Horizon == RetransmitCount * retransTimeout + MaxNSDULifeTime + 1

\* A performer's InvokeInfo is not released before that: what its state s and
\* a timer t that runs say of it.
KeptTimer(s, op, t) ==
    /\ s = "InvokePduReceived" =>
         t.name = "perfNoResponse" /\ Within(op, t.left)
    /\ s = "AckPduWait" /\ t.name = "resultPduRetran" =>
         /\ t.datum <= RetransmitCount
         /\ Within(op, t.left + (RetransmitCount - t.datum) * retransTimeout
                         + rwait + refKeepTime)
    /\ s = "AckPduWait" /\ t.name = "last" => Within(op, t.left + refKeepTime)
    /\ s = "ResultPduRetrans" /\ t.name = "inactivity" =>
         Within(op, t.left + refKeepTime)
    /\ s = "PerformerRefWait" /\ t.name = "refNu" => Within(op, t.left)
KeptState(s, op) ==
    /\ s = "CLPerformerStart" => Within(op, 0)
    /\ s = "PerformerRefWait" => Within(op, refKeepTime)
Kept(u) ==
    /\ KeptState(u.state, u.userRef)
    /\ \A t \in u.tmrs : KeptTimer(u.state, u.userRef, t)

Serves(d, op) == inv[d].state \in PerformerState /\ inv[d].userRef = op

\* An operation is performed once, by one InvokeInfo, which is there as long
\* as an INVOKE PDU may ask for the operation again.
ExecOnce ==
    \A op \in Op :
      /\ exec[op] \in {0, 1} /\ (exec[op] = 1 => op \in asked)
      /\ exec[op] = 1 => Within(op, 0) \/ \E d \in Desc : Serves(d, op)
ServerDistinct ==
    \A d, e \in Desc : \A op \in Op : Serves(d, op) /\ Serves(e, op) => d = e
KeptInv ==
    /\ \A m \in net : m.ttl <= MaxNSDULifeTime
    /\ \A op \in Op : Within(op, Horizon)
    /\ ExecOnce
    /\ \A d \in Desc : inv[d].state \in PerformerState =>
         exec[inv[d].userRef] = 1 /\ Kept(inv[d])
    /\ ServerDistinct

\* What the performing user said and was told.  An answer that was given is
\* kept in the map of the performers: no other InvokeInfo has its number.
AnswersInv ==
    /\ \A op \in Op : exec[op] = 0 => answer[op] = {} /\ cnf[op] = <<>>
    /\ \A d \in Desc : inv[d].state \in {"InvokePduReceived"} \cup AnswerState =>
         cnf[inv[d].userRef] = <<>>
    /\ \A d \in Desc : inv[d].state \in AnswerState =>
         answer[inv[d].userRef] = {inv[d].isResult}
    /\ \A d \in Desc : \A op \in Op : Pending(d, op) => answer[op] = {}
    /\ \A d \in Desc :
         /\ inv[d].state = "InvokePduReceived" => inv[d].refMap = "none"
         /\ inv[d].state \in AnswerState => inv[d].refMap # "none"

Served(num) == OwnInv(num) /\ KeptInv /\ AnswersInv

\* Every invocation has its number and every answer keeps it.
LEMMA ServedNumbered ==
    ASSUME NEW num, Served(num), NEW d \in Desc
    PROVE  ~ Unnumbered(d) /\ ~ Unkept(d)
<1>1. inv[d].state = "InvokePduSent" => inv[d].ref # NoRef
  BY DEF Served, OwnInv, OwnInfo
<1>2. inv[d].state \in AnswerState => inv[d].refMap # "none"
  BY DEF Served, AnswersInv
<1> QED
  BY <1>1, <1>2 DEF Unnumbered, Unkept

\* What is known of a served InvokeInfo in use.
LEMMA RoleOf ==
    ASSUME TypeInv, NEW num, OwnInv(num), NEW d \in Desc
    PROVE  /\ inv[d].state = "free" => inv[d] = FreeInfo
           /\ inv[d].state # "free" =>
                /\ inv[d].userRef \in Op /\ inv[d] \in InvokeInfo
                /\ inv[d].state \in InvokerState \/ inv[d].state \in PerformerState
           /\ inv[d].refMap = "invoker" <=> inv[d].state \in InvokerState
           /\ inv[d].refMap = "performer" => inv[d].state \in PerformerState
           /\ inv[d].state \in PerformerState => inv[d].state \notin InvokerState
<1>1. inv[d] \in InvokeInfo
  BY DEF TypeInv, TypeOK
<1>2. OwnInfo(inv[d], d[1], num)
  BY DEF OwnInv
<1>3. inv[d].state \in State /\ inv[d].refMap \in {"none", "invoker", "performer"}
  BY <1>1 DEF InvokeInfo
<1>4. FreeInfo.refMap = "none"
  BY DEF FreeInfo
<1>5. "free" \notin InvokerState /\ "free" \notin PerformerState
  BY DEF InvokerState, PerformerState
<1>6. InvokerState \cap PerformerState = {}
  BY DEF InvokerState, PerformerState
<1> QED
  BY <1>1, <1>2, <1>3, <1>4, <1>5, <1>6
  DEF OwnInfo, OwnInvoker, OwnPerformer, State, TypeInv, LiveTyped

\* A RESULT or ERROR PDU finds the invocation it answers.
LEMMA FindInvoker ==
    ASSUME TypeInv, NEW num, OwnInv(num), NEW m \in net,
           m.type \in {"RESULT", "ERROR"},
           NEW d \in refToInvoker(m.dst, m.ref, m.src)
    PROVE  d \in Desc /\ inv[d].state \in InvokerState /\ inv[d].userRef = m.op
<1>1. d \in Desc /\ d[1] = m.dst /\ inv[d].refMap = "invoker" /\ inv[d].ref = m.ref
  BY PduInNet DEF refToInvoker, Mapped, Desc
<1>2. m.op \in Op
  BY DEF TypeInv, PduTyped, OpPdu
<1>3. /\ inv[d].state \in InvokerState /\ inv[d].state # "free"
      /\ inv[d].userRef \in Op
  BY <1>1, RoleOf DEF InvokerState
<1>4. OwnInfo(inv[d], d[1], num) /\ OwnPdu(m, num)
  BY <1>1 DEF OwnInv
<1>5. m.dst = From[m.op] /\ m.ref = num[m.op] /\ m.ref # NoRef
  BY <1>4 DEF OwnPdu, ResultType
<1>6. d[1] = From[inv[d].userRef] /\ inv[d].ref = num[inv[d].userRef]
  BY <1>3, <1>4 DEF OwnInfo, OwnInvoker
<1> QED
  BY <1>1, <1>2, <1>3, <1>5, <1>6 DEF OwnInv, Numbered

\* An INVOKE PDU finds the performer of its operation and no other.
LEMMA FindPerformer ==
    ASSUME TypeInv, NEW num, OwnInv(num), NEW m \in net, m.type = "INVOKE",
           NEW d \in Desc
    PROVE  /\ d \in Duplicates(m) /\ inv[d].state \in PerformerState =>
                inv[d].userRef = m.op
           /\ Serves(d, m.op) => d \in Duplicates(m)
<1>1. m.op \in Op
  BY DEF TypeInv, PduTyped, OpPdu
<1>2. OwnPdu(m, num) /\ OwnInfo(inv[d], d[1], num)
  BY DEF OwnInv
<1>3. /\ m.src = From[m.op] /\ m.dst = To[m.op] /\ m.sap = ToSap[m.op]
      /\ m.ref = num[m.op] /\ m.ref # NoRef
  BY <1>2 DEF OwnPdu
<1>4. ASSUME inv[d].state \in PerformerState
      PROVE  /\ inv[d].state # "free" /\ inv[d].userRef \in Op
             /\ inv[d].ref = num[inv[d].userRef]
             /\ d[1] = To[inv[d].userRef] /\ inv[d].rem = From[inv[d].userRef]
             /\ inv[d].sap = ToSap[inv[d].userRef]
  <2>1. inv[d].state # "free"
    BY <1>4 DEF PerformerState
  <2> QED
    BY <1>2, <1>4, <2>1, RoleOf DEF OwnInfo, OwnPerformer
<1>5. ASSUME d \in Duplicates(m), inv[d].state \in PerformerState
      PROVE  inv[d].userRef = m.op
  <2>1. inv[d].ref = m.ref /\ inv[d].rem = m.src
    BY <1>5 DEF Duplicates
  <2> QED
    BY <1>1, <1>3, <1>4, <1>5, <2>1 DEF OwnInv, Numbered
<1>6. ASSUME Serves(d, m.op) PROVE d \in Duplicates(m)
  <2>1. /\ d[1] = m.dst /\ inv[d].state # "free" /\ inv[d].sap = m.sap
        /\ inv[d].ref = m.ref /\ inv[d].rem = m.src
    BY <1>3, <1>4, <1>6 DEF Serves
  <2> QED
    BY <2>1 DEF Duplicates, Desc
<1> QED
  BY <1>5, <1>6

\* An ACK PDU finds the performer whose answer it acknowledges.
LEMMA FindAcked ==
    ASSUME TypeInv, NEW num, OwnInv(num), NEW m \in net, m.type = "ACK",
           NEW d \in refToPerformer(m.dst, m.ref, m.src)
    PROVE  /\ d \in Desc /\ inv[d].state \in PerformerState
           /\ Fulfilled(inv[d].userRef)
<1>1. /\ d \in Desc /\ d[1] = m.dst /\ inv[d].refMap = "performer"
      /\ inv[d].ref = m.ref /\ inv[d].rem = m.src
  BY PduInNet DEF refToPerformer, Mapped, Desc
<1>2. PICK op \in Op : /\ m.src = From[op] /\ m.ref = num[op] /\ m.ref # NoRef
                       /\ Fulfilled(op)
  BY DEF OwnInv, OwnPdu
<1>3. /\ inv[d].state \in PerformerState /\ inv[d].state # "free"
      /\ inv[d].userRef \in Op
  BY <1>1, RoleOf DEF PerformerState
<1>4. OwnInfo(inv[d], d[1], num)
  BY <1>1 DEF OwnInv
<1>5. inv[d].rem = From[inv[d].userRef] /\ inv[d].ref = num[inv[d].userRef]
  BY <1>3, <1>4 DEF OwnInfo, OwnPerformer
<1>6. op = inv[d].userRef
  BY <1>1, <1>2, <1>3, <1>5 DEF OwnInv, Numbered
<1> QED
  BY <1>1, <1>2, <1>3, <1>6

\* Nothing is handed to a user for a free element.
LEMMA FreePending ==
    ASSUME TypeInv, LiveInv, NEW d \in Desc, inv[d].state = "free",
           NEW op \in Op
    PROVE  ~ Pending(d, op)
<1>1. work[d] = NoOp
  BY DEF LiveInv, HeldDescLive
<1>2. d[1] \in Node /\ d = <<d[1], d[2]>>
  BY DEF Desc
<1>3. \A i \in 1 .. Len(sch[d[1]]) : sch[d[1]][i].slot # d[2]
  BY <1>2 DEF LiveInv, QueueLive, TaskLive
<1> QED
  BY <1>1, <1>3, NoValueAssumption DEF Pending

\* A user that holds a descriptor has no other operation to come under it.
LEMMA HeldPending ==
    ASSUME TypeInv, LiveInv, NEW d \in Desc, work[d] # NoOp, NEW op \in Op,
           Pending(d, op)
    PROVE  op = work[d]
<1>1. d[1] \in Node /\ d = <<d[1], d[2]>>
  BY DEF Desc
<1>2. \A i \in 1 .. Len(sch[d[1]]) :
        ~ (sch[d[1]][i].kind = "invokeInd" /\ sch[d[1]][i].slot = d[2])
  BY <1>1 DEF LiveInv, QueueLive, TaskLive
<1> QED
  BY <1>2 DEF Pending

\* A step hands no operation to a user.
NoNewPending == \A d \in Desc : \A op \in Op : Pending(d, op)' => Pending(d, op)

\* Nor do the indications of an outcome.
LEMMA SubmitPending ==
    ASSUME TypeInv, NEW n \in Node, NEW tasks \in Seq(Task), Submit(n, tasks),
           \A k \in 1 .. Len(tasks) : tasks[k].kind # "invokeInd",
           work' = work
    PROVE  NoNewPending
<1> SUFFICES ASSUME NEW d \in Desc, NEW op \in Op, Pending(d, op)'
             PROVE  Pending(d, op)
  BY DEF NoNewPending
<1>1. d[1] \in Node
  BY DEF Desc
<1>2. ASSUME NEW i \in 1 .. Len(sch'[d[1]]), sch'[d[1]][i].kind = "invokeInd"
      PROVE  i \in 1 .. Len(sch[d[1]]) /\ sch'[d[1]][i] = sch[d[1]][i]
  <2>1. CASE d[1] # n
    BY <1>1, <2>1, Submitted
  <2>2. CASE d[1] = n
    <3>1. /\ Len(sch[n]) \in Nat
          /\ \A j \in 1 .. Len(sch[n]) : sch'[n][j] = sch[n][j]
          /\ \A j \in 1 .. Len(sch'[n]) : j > Len(sch[n]) =>
               \E k \in 1 .. Len(tasks) : sch'[n][j] = tasks[k]
      BY Submitted
    <3>2. ~ (i > Len(sch[n]))
      BY <1>2, <2>2, <3>1
    <3> QED
      BY <2>2, <3>1, <3>2
  <2> QED
    BY <2>1, <2>2
<1> QED
  BY <1>2 DEF Pending

\* Nor does a step that leaves the tasks and the descriptors alone.
LEMMA SamePending ==
    ASSUME sch' = sch, work' = work
    PROVE  NoNewPending
BY DEF NoNewPending, Pending

\* A step moves InvokeInfo d to state s with new timers and kept answers.
Moved(d, s, rp, ts) ==
    /\ inv'[d].state = s /\ inv'[d].resultPdu = rp /\ inv'[d].tmrs = ts
    /\ inv'[d].sap = inv[d].sap /\ inv'[d].rem = inv[d].rem
    /\ inv'[d].ref = inv[d].ref /\ inv'[d].refMap = inv[d].refMap
    /\ inv'[d].userRef = inv[d].userRef /\ inv'[d].isResult = inv[d].isResult
    /\ \A e \in Desc : e # d => inv'[e] = inv[e]

\* A transition moves its InvokeInfo.
LEMMA ChangeMoved ==
    ASSUME TypeInv, NEW d \in Desc, NEW s, NEW ip, NEW rp, NEW ts,
           inv' = [inv EXCEPT ![d] = [inv[d] EXCEPT
                     !.state = s, !.invokePdu = ip, !.resultPdu = rp,
                     !.tmrs = ts]]
    PROVE  Moved(d, s, rp, ts)
<1> DEFINE new == [inv[d] EXCEPT !.state = s, !.invokePdu = ip,
                                 !.resultPdu = rp, !.tmrs = ts]
<1>1. /\ new.state = s /\ new.resultPdu = rp /\ new.tmrs = ts
      /\ new.sap = inv[d].sap /\ new.rem = inv[d].rem /\ new.ref = inv[d].ref
      /\ new.refMap = inv[d].refMap /\ new.userRef = inv[d].userRef
      /\ new.isResult = inv[d].isResult
  BY DEF TypeInv, TypeOK, InvokeInfo
<1>2. inv' = [inv EXCEPT ![d] = new]
  OBVIOUS
<1> HIDE DEF new
<1>3. inv'[d] = new /\ \A e \in Desc : e # d => inv'[e] = inv[e]
  BY <1>2, Updated
<1> QED
  BY <1>1, <1>3 DEF Moved

\* New timers only.
LEMMA RetimeMoved ==
    ASSUME TypeInv, NEW d \in Desc, NEW ts, inv' = [inv EXCEPT ![d].tmrs = ts]
    PROVE  Moved(d, inv[d].state, inv[d].resultPdu, ts)
<1>1. inv' = [inv EXCEPT ![d] = [inv[d] EXCEPT
                !.state = inv[d].state, !.invokePdu = inv[d].invokePdu,
                !.resultPdu = inv[d].resultPdu, !.tmrs = ts]]
  BY DEF TypeInv, TypeOK, InvokeInfo
<1> QED
  BY <1>1, ChangeMoved

\* Nothing new.
LEMMA SameMoved ==
    ASSUME inv' = inv, NEW d \in Desc
    PROVE  Moved(d, inv[d].state, inv[d].resultPdu, inv[d].tmrs)
BY DEF Moved

\* A step delays no INVOKE PDU of any operation.
WithinKept ==
    \A op \in Op : \A time \in Int : Within(op, time) => Within(op, time)'

\* That is so when it sends none and opens or restarts no invocation.
LEMMA CalmWithin ==
    ASSUME \A m \in net' : m.type = "INVOKE" => m \in net,
           \A e \in Desc : Open(e)' =>
             /\ Open(e) /\ inv'[e].userRef = inv[e].userRef
             /\ \A t \in inv'[e].tmrs : t.name = "invokePduRetran" =>
                  t \in inv[e].tmrs
    PROVE  WithinKept
BY DEF WithinKept, Within

\* The move of an InvokeInfo is of that kind unless it goes on retransmitting.
LEMMA MovedWithin ==
    ASSUME NEW d \in Desc, NEW s, NEW rp, NEW ts, Moved(d, s, rp, ts),
           \/ s # "InvokePduSent"
           \/ /\ inv[d].state = s
              /\ \A t \in ts : t.name = "invokePduRetran" => t \in inv[d].tmrs,
           \A m \in net' : m.type = "INVOKE" => m \in net
    PROVE  WithinKept
<1>1. \A e \in Desc : Open(e)' =>
        /\ Open(e) /\ inv'[e].userRef = inv[e].userRef
        /\ \A t \in inv'[e].tmrs : t.name = "invokePduRetran" =>
             t \in inv[e].tmrs
  BY DEF Moved, Open
<1> QED
  BY <1>1, CalmWithin

\* What holds within a time holds within a longer one.
LEMMA WithinLonger ==
    ASSUME TypeInv, NEW op, NEW time \in Int, NEW longer \in Int,
           time <= longer, Within(op, time)
    PROVE  Within(op, longer)
<1>1. \A m \in net : m.ttl \in Int
  BY DEF TypeInv, TypeOK, Pdu
<1>2. ASSUME NEW e \in Desc, NEW t \in inv[e].tmrs
      PROVE  t.left + (RetransmitCount - 1 - t.datum) * retransTimeout
               + MaxNSDULifeTime \in Int
  <2>1. t.left \in Int /\ t.datum \in Int
    BY DEF TypeInv, TypeOK, InvokeInfo
  <2>2. (RetransmitCount - 1 - t.datum) * retransTimeout \in Int
    BY <2>1, DelaysTyped, NumberAssumption
  <2> QED
    BY <2>1, <2>2, NumberAssumption
<1>3. ASSUME NEW m \in net, m.type = "INVOKE" /\ m.op = op PROVE m.ttl < longer
  BY <1>1, <1>3 DEF Within
<1>4. ASSUME NEW e \in Desc, Open(e) /\ inv[e].userRef = op,
             NEW t \in inv[e].tmrs,
             t.name = "invokePduRetran" /\ t.datum < RetransmitCount
      PROVE  t.left + (RetransmitCount - 1 - t.datum) * retransTimeout
               + MaxNSDULifeTime < longer
  <2>1. PICK x \in Int :
          x = t.left + (RetransmitCount - 1 - t.datum) * retransTimeout
                + MaxNSDULifeTime
    BY <1>2
  <2>2. x < time
    BY <1>4, <2>1 DEF Within
  <2> QED
    BY <2>1, <2>2
<1> QED
  BY <1>3, <1>4 DEF Within

\* An InvokeInfo that is not touched stays kept long enough.
LEMMA KeptLater ==
    ASSUME NEW s, NEW op \in Op,
           \A time \in Int : Within(op, time) => Within(op, time)'
    PROVE  /\ KeptState(s, op) => KeptState(s, op)'
           /\ \A t \in [name : TimerName, datum : Nat, left : Nat] :
                KeptTimer(s, op, t) => KeptTimer(s, op, t)'
<1>1. /\ refKeepTime \in Int /\ rwait \in Int /\ retransTimeout \in Int
      /\ RetransmitCount \in Int
  BY DelaysTyped, NumberAssumption
<1>2. KeptState(s, op) => KeptState(s, op)'
  BY <1>1 DEF KeptState
<1>3. ASSUME NEW t \in [name : TimerName, datum : Nat, left : Nat],
             KeptTimer(s, op, t)
      PROVE  KeptTimer(s, op, t)'
  <2>1. t.left \in Int /\ t.datum \in Int
    OBVIOUS
  <2>2. (RetransmitCount - t.datum) * retransTimeout \in Int
    BY <1>1, <2>1
  <2>3. /\ t.left + refKeepTime \in Int
        /\ t.left + (RetransmitCount - t.datum) * retransTimeout
             + rwait + refKeepTime \in Int
    BY <1>1, <2>1, <2>2
  <2> QED
    BY <1>3, <2>1, <2>3, Zenon DEF KeptTimer
<1> QED
  BY <1>2, <1>3

\* The same, of everything that is kept in it.
LEMMA SameKept ==
    ASSUME NEW u \in InvokeInfo, u.userRef \in Op, Kept(u),
           \A time \in Int : Within(u.userRef, time) => Within(u.userRef, time)'
    PROVE  Kept(u)'
BY KeptLater DEF Kept, InvokeInfo

\* Nor is one that moves to state s with the timers ts, each of them an old one
\* of the same state or long enough.
LEMMA MovedKept ==
    ASSUME TypeInv, NEW num, OwnInv(num), KeptInv, NEW d \in Desc,
           inv[d].state \in PerformerState, NEW s, NEW rp, NEW ts,
           Moved(d, s, rp, ts), ts \in Timers, WithinKept,
           KeptState(s, inv[d].userRef),
           \A t \in ts : \/ s = inv[d].state /\ t \in inv[d].tmrs
                         \/ KeptTimer(s, inv[d].userRef, t)
    PROVE  Kept(inv[d])'
<1>1. PICK op \in Op : op = inv[d].userRef
  BY RoleOf DEF PerformerState
<1>2. inv'[d].userRef = op /\ inv'[d].state = s /\ inv'[d].tmrs = ts
  BY <1>1 DEF Moved
<1>3. Kept(inv[d])
  BY DEF KeptInv
<1>4. \A t \in ts : KeptTimer(s, op, t)
  BY <1>1, <1>3 DEF Kept
<1>5. KeptState(s, op)' /\ \A t \in ts : KeptTimer(s, op, t)'
  BY <1>1, <1>4, KeptLater DEF Timers, WithinKept
<1> QED
  BY <1>2, <1>5 DEF Kept

\* The move of an InvokeInfo leaves every other one and every PDU its own
\* operation.
LEMMA MoveOwn ==
    ASSUME TypeInv, NEW num, OwnInv(num), NEW d \in Desc, inv[d].state # "free",
           NEW s \in State \ {"free"}, NEW rp, NEW ts, Moved(d, s, rp, ts),
           s \in InvokerState <=> inv[d].state \in InvokerState,
           rp = inv[d].resultPdu \/ rp = relPdu(inv[d].resultPdu),
           s = "AckPduSent" => Fulfilled(inv[d].userRef)',
           newRef' = newRef, asked' = asked, answer' = answer, NoNewPending,
           \A op \in Op : Fulfilled(op) => Fulfilled(op)',
           \A m \in net' : m \in net \/ OwnPdu(m, num)'
    PROVE  OwnInv(num)'
<1> DEFINE u == inv[d].userRef
<1>1. /\ u \in Op /\ inv[d] \in InvokeInfo
      /\ s \in InvokerState \/ s \in PerformerState
      /\ inv[d].state \in InvokerState \/ inv[d].state \in PerformerState
      /\ s \in PerformerState => s \notin InvokerState
  BY RoleOf DEF State, InvokerState, PerformerState
<1>2. /\ inv'[d].state = s /\ inv'[d].resultPdu = rp /\ inv'[d].sap = inv[d].sap
      /\ inv'[d].rem = inv[d].rem /\ inv'[d].ref = inv[d].ref
      /\ inv'[d].refMap = inv[d].refMap /\ inv'[d].userRef = u
      /\ \A e \in Desc : e # d => inv'[e] = inv[e]
  BY DEF Moved
<1>3. Numbered(num)'
  BY DEF OwnInv, Numbered
<1>4. OwnInfo(inv[d], d[1], num)'
  <2>1. OwnInfo(inv[d], d[1], num)
    BY DEF OwnInv
  <2>2. inv[d].state \in InvokerState => OwnInvoker(inv[d], d[1])'
    BY <1>2, <2>1 DEF OwnInfo, OwnInvoker
  <2>3. inv[d].state \in PerformerState => OwnPerformer(inv[d], d[1])'
    <3> SUFFICES ASSUME inv[d].state \in PerformerState
                 PROVE  OwnPerformer(inv[d], d[1])'
      OBVIOUS
    <3>1. OwnPerformer(inv[d], d[1])
      BY <2>1 DEF OwnInfo
    <3>2. inv[d].resultPdu \in Seq(Payload)
      BY <1>1 DEF InvokeInfo
    <3>3. \A i \in 1 .. Len(rp) : \E j \in 1 .. Len(inv[d].resultPdu) :
            rp[i] = inv[d].resultPdu[j]
      <4>1. CASE rp = inv[d].resultPdu
        BY <4>1
      <4>2. CASE rp = relPdu(inv[d].resultPdu)
        <5>1. PICK q \in Seq(Payload) : q = inv[d].resultPdu
          BY <3>2
        <5>2. CASE q = <<>>
          BY <4>2, <5>1, <5>2 DEF relPdu
        <5>3. CASE q # <<>>
          <6>1. rp = Tail(q)
            BY <4>2, <5>1, <5>3 DEF relPdu
          <6>2. \A i \in 1 .. Len(Tail(q)) :
                  i + 1 \in 1 .. Len(q) /\ Tail(q)[i] = q[i + 1]
            BY <5>3
          <6> QED
            BY <5>1, <6>1, <6>2
        <5> QED
          BY <5>2, <5>3
      <4> QED
        BY <4>1, <4>2
    <3>4. \A i \in 1 .. Len(rp) : rp[i].op = u /\ rp[i].kind \in answer[u]
      BY <3>1, <3>3 DEF OwnPerformer
    <3> QED
      BY <1>2, <3>1, <3>4 DEF OwnPerformer
  <2> QED
    BY <1>1, <1>2, <2>1, <2>2, <2>3 DEF OwnInfo
<1>5. ASSUME NEW e \in Desc, e # d PROVE OwnInfo(inv[e], e[1], num)'
  <2>1. OwnInfo(inv[e], e[1], num)
    BY DEF OwnInv
  <2>2. inv[e].state # "free" => inv[e].userRef \in Op
    BY RoleOf
  <2>3. inv[e].state = "AckPduSent" => inv[e].state # "free"
    OBVIOUS
  <2> QED
    BY <1>2, <1>5, <2>1, <2>2, <2>3 DEF OwnInfo, OwnInvoker, OwnPerformer
<1>6. ASSUME NEW m \in net' PROVE OwnPdu(m, num)'
  <2>1. CASE m \in net
    <3>1. OwnPdu(m, num)
      BY <2>1 DEF OwnInv
    <3> QED
      BY <3>1 DEF OwnPdu
  <2> QED
    BY <1>6, <2>1
<1>7. \A e \in Desc : inv'[e].userRef = inv[e].userRef
  BY <1>2
<1> QED
  BY <1>3, <1>4, <1>5, <1>6, <1>7 DEF OwnInv, NoNewPending

\* It leaves every other InvokeInfo of a performer kept long enough.
LEMMA MoveKept ==
    ASSUME TypeInv, NEW num, OwnInv(num), KeptInv, NEW d \in Desc,
           inv[d].state # "free", NEW s \in State \ {"free"}, NEW rp, NEW ts,
           Moved(d, s, rp, ts),
           s \in InvokerState <=> inv[d].state \in InvokerState,
           asked' = asked, exec' = exec, WithinKept,
           \A m \in net' : m \in net \/ m.ttl <= MaxNSDULifeTime,
           s \in PerformerState => Kept(inv[d])'
    PROVE  KeptInv'
<1>1. /\ s \in PerformerState <=> inv[d].state \in PerformerState
      /\ inv'[d].state = s /\ inv'[d].userRef = inv[d].userRef
      /\ \A e \in Desc : e # d => inv'[e] = inv[e]
  BY RoleOf DEF Moved, State, InvokerState, PerformerState
<1>2. \A e \in Desc : \A op \in Op : Serves(e, op)' <=> Serves(e, op)
  BY <1>1 DEF Serves
<1>3. \A m \in net' : m.ttl <= MaxNSDULifeTime
  BY DEF KeptInv
<1>4. \A op \in Op : Within(op, Horizon)'
  <2>1. Horizon \in Int
    BY DelaysTyped, NumberAssumption DEF Horizon
  <2> QED
    BY <2>1 DEF KeptInv, WithinKept
<1>5. ExecOnce'
  BY <1>2 DEF KeptInv, ExecOnce, WithinKept
<1>6. ASSUME NEW e \in Desc, inv'[e].state \in PerformerState
      PROVE  exec[inv'[e].userRef] = 1 /\ Kept(inv[e])'
  <2>1. CASE e = d
    BY <1>1, <1>6, <2>1 DEF KeptInv
  <2>2. CASE e # d
    <3>1. PICK u \in InvokeInfo : u = inv[e]
      BY DEF TypeInv, TypeOK
    <3>2. u.state \in PerformerState /\ u.state # "free" /\ inv'[e] = u
      BY <1>1, <1>6, <2>2, <3>1 DEF PerformerState
    <3>3. u.userRef \in Op /\ Kept(u) /\ exec[u.userRef] = 1
      BY <3>1, <3>2, RoleOf DEF KeptInv
    <3>4. Kept(u)'
      BY <3>3, SameKept DEF WithinKept
    <3> QED
      BY <3>2, <3>3, <3>4
  <2> QED
    BY <2>1, <2>2
<1>7. ServerDistinct'
  BY <1>2 DEF KeptInv, ServerDistinct
<1> QED
  BY <1>3, <1>4, <1>5, <1>6, <1>7 DEF KeptInv

\* It leaves the performing users what they said and were told, but for the
\* user of an InvokeInfo that no longer awaits either.
LEMMA MoveAnswers ==
    ASSUME TypeInv, NEW num, OwnInv(num), KeptInv, AnswersInv, NEW d \in Desc,
           inv[d].state # "free", NEW s \in State \ {"free"}, NEW rp, NEW ts,
           Moved(d, s, rp, ts), exec' = exec, answer' = answer, NoNewPending,
           s \in {"InvokePduReceived"} \cup AnswerState => inv[d].state = s,
           \/ cnf' = cnf
           \/ /\ inv[d].state \in PerformerState
              /\ s \notin {"InvokePduReceived"} \cup AnswerState
              /\ \A op \in Op : op # inv[d].userRef => cnf'[op] = cnf[op]
    PROVE  AnswersInv'
<1>1. /\ inv'[d].state = s /\ inv'[d].userRef = inv[d].userRef
      /\ inv'[d].isResult = inv[d].isResult /\ inv[d].userRef \in Op
      /\ inv'[d].refMap = inv[d].refMap
      /\ \A e \in Desc : e # d => inv'[e] = inv[e]
  BY RoleOf DEF Moved
<1>2. \A op \in Op : exec[op] = 0 => cnf'[op] = cnf[op]
  <2>1. inv[d].state \in PerformerState => exec[inv[d].userRef] = 1
    BY DEF KeptInv
  <2> QED
    BY <2>1
<1>3. ASSUME NEW e \in Desc, inv'[e].state \in {"InvokePduReceived"} \cup AnswerState
      PROVE  /\ inv[e].state = inv'[e].state /\ inv[e].userRef = inv'[e].userRef
             /\ inv[e].isResult = inv'[e].isResult
             /\ inv[e].refMap = inv'[e].refMap
             /\ cnf'[inv[e].userRef] = cnf[inv[e].userRef]
  <2>1. /\ inv[e].state = inv'[e].state /\ inv[e].userRef = inv'[e].userRef
        /\ inv[e].isResult = inv'[e].isResult
        /\ inv[e].refMap = inv'[e].refMap
    BY <1>1, <1>3
  <2>2. inv[e].state \in PerformerState /\ inv[e].state # "free"
    BY <1>3, <2>1 DEF PerformerState, AnswerState
  <2>3. inv[e].userRef \in Op
    BY <2>2, RoleOf
  <2>4. CASE cnf' = cnf
    BY <2>1, <2>4
  <2>5. CASE cnf' # cnf
    <3>1. e # d /\ inv[d].state \in PerformerState
      BY <1>1, <1>3, <2>5
    <3>2. inv[e].userRef # inv[d].userRef
      BY <1>1, <2>2, <2>3, <3>1 DEF KeptInv, ServerDistinct, Serves
    <3> QED
      BY <2>1, <2>3, <2>5, <3>2
  <2> QED
    BY <2>4, <2>5
<1>4. \A op \in Op : exec[op] = 0 => answer'[op] = {} /\ cnf'[op] = <<>>
  BY <1>2 DEF AnswersInv
<1>5. \A e \in Desc : inv'[e].state \in {"InvokePduReceived"} \cup AnswerState =>
        cnf'[inv'[e].userRef] = <<>>
  BY <1>3 DEF AnswersInv
<1>6. \A e \in Desc : inv'[e].state \in AnswerState =>
        answer'[inv'[e].userRef] = {inv'[e].isResult}
  BY <1>3 DEF AnswersInv
<1>7. \A e \in Desc :
        /\ inv'[e].state = "InvokePduReceived" => inv'[e].refMap = "none"
        /\ inv'[e].state \in AnswerState => inv'[e].refMap # "none"
  BY <1>3 DEF AnswersInv
<1> QED
  BY <1>4, <1>5, <1>6, <1>7 DEF AnswersInv, NoNewPending

\* The move of an InvokeInfo, with whatever it sends and tells, preserves the
\* invariant.
LEMMA MoveServed ==
    ASSUME TypeInv, NEW num, Served(num), NEW d \in Desc,
           inv[d].state # "free", NEW s \in State \ {"free"}, NEW rp, NEW ts,
           Moved(d, s, rp, ts),
           s \in InvokerState <=> inv[d].state \in InvokerState,
           rp = inv[d].resultPdu \/ rp = relPdu(inv[d].resultPdu),
           s = "AckPduSent" => Fulfilled(inv[d].userRef)',
           newRef' = newRef, asked' = asked, exec' = exec, answer' = answer,
           NoNewPending, WithinKept,
           \A op \in Op : Fulfilled(op) => Fulfilled(op)',
           \A m \in net' : m \in net \/ (OwnPdu(m, num)' /\ m.ttl <= MaxNSDULifeTime),
           s \in PerformerState => Kept(inv[d])',
           s \in {"InvokePduReceived"} \cup AnswerState => inv[d].state = s,
           \/ cnf' = cnf
           \/ /\ inv[d].state \in PerformerState
              /\ s \notin {"InvokePduReceived"} \cup AnswerState
              /\ \A op \in Op : op # inv[d].userRef => cnf'[op] = cnf[op]
    PROVE  Served(num)'
<1>1. OwnInv(num)'
  BY MoveOwn DEF Served
<1>2. KeptInv'
  BY MoveKept DEF Served
<1>3. AnswersInv'
  BY MoveAnswers DEF Served
<1> QED
  BY <1>1, <1>2, <1>3 DEF Served

\* A move that tells no user anything.
LEMMA QuietServed ==
    ASSUME TypeInv, NEW num, Served(num), NEW d \in Desc,
           inv[d].state # "free", NEW s \in State \ {"free"}, NEW rp, NEW ts,
           Moved(d, s, rp, ts),
           s \in InvokerState <=> inv[d].state \in InvokerState,
           rp = inv[d].resultPdu \/ rp = relPdu(inv[d].resultPdu),
           s = "AckPduSent" => inv[d].state = s,
           UNCHANGED <<newRef, sch, userVars>>, WithinKept,
           \A m \in net' : m \in net \/ (OwnPdu(m, num)' /\ m.ttl <= MaxNSDULifeTime),
           s \in PerformerState => Kept(inv[d])',
           s \in {"InvokePduReceived"} \cup AnswerState => inv[d].state = s
    PROVE  Served(num)'
<1>1. NoNewPending
  BY SamePending DEF userVars
<1>2. \A op : Fulfilled(op) => Fulfilled(op)'
  BY DEF Fulfilled, userVars
<1>3. s = "AckPduSent" => Fulfilled(inv[d].userRef)'
  <2>1. OwnInfo(inv[d], d[1], num)
    BY DEF Served, OwnInv
  <2>2. inv'[d].userRef = inv[d].userRef
    BY DEF Moved
  <2>3. inv[d].state = "AckPduSent" => Fulfilled(inv[d].userRef)
    BY <2>1 DEF OwnInfo, OwnInvoker, InvokerState
  <2> QED
    BY <1>2, <2>2, <2>3 DEF Fulfilled, userVars
<1> QED
  BY <1>1, <1>2, <1>3, MoveServed DEF userVars

\* What the engine builds for the peer of an InvokeInfo is about the operation
\* it serves.
LEMMA PduOfOwn ==
    ASSUME TypeInv, NEW num, OwnInv(num), NEW d \in Desc, inv[d].state # "free",
           NEW op \in Op, op = inv[d].userRef, NEW m,
           \/ /\ inv[d].state \in InvokerState
              /\ \/ m = PduOf(d[1], inv[d], "INVOKE", op)
                 \/ Fulfilled(op)' /\ m = PduOf(d[1], inv[d], "ACK", NoOp)
           \/ /\ inv[d].state \in PerformerState
              /\ \E kind \in {"result", "error"} :
                   /\ kind \in answer'[op]
                   /\ m = PduOf(d[1], inv[d], ResultType(kind), op)
           \/ m = PduOf(d[1], inv[d], "FAILURE", NoOp)
    PROVE  OwnPdu(m, num)' /\ m.ttl = MaxNSDULifeTime
<1>1. OwnInfo(inv[d], d[1], num)
  BY DEF OwnInv
<1>2. inv[d].ref = num[op] /\ inv[d].ref # NoRef
  BY <1>1 DEF OwnInfo
<1>3. CASE inv[d].state \in InvokerState /\ m = PduOf(d[1], inv[d], "INVOKE", op)
  <2>1. d[1] = From[op] /\ inv[d].rem = To[op]
    BY <1>1, <1>3 DEF OwnInfo, OwnInvoker
  <2>2. /\ m.type = "INVOKE" /\ m.src = From[op] /\ m.dst = To[op]
        /\ m.op = op /\ m.sap = ToSap[op] /\ m.ref = num[op] /\ m.ref # NoRef
        /\ m.ttl = MaxNSDULifeTime
    BY <1>2, <1>3, <2>1 DEF PduOf
  <2> QED
    BY <2>2 DEF OwnPdu, ResultType
<1>4. CASE /\ inv[d].state \in InvokerState /\ Fulfilled(op)'
           /\ m = PduOf(d[1], inv[d], "ACK", NoOp)
  <2>1. d[1] = From[op]
    BY <1>1, <1>4 DEF OwnInfo, OwnInvoker
  <2>2. /\ m.type = "ACK" /\ m.src = From[op] /\ m.ref = num[op]
        /\ m.ref # NoRef /\ m.ttl = MaxNSDULifeTime
    BY <1>2, <1>4, <2>1 DEF PduOf
  <2> QED
    BY <1>4, <2>2 DEF OwnPdu, ResultType
<1>5. ASSUME inv[d].state \in PerformerState, NEW kind \in {"result", "error"},
             kind \in answer'[op],
             m = PduOf(d[1], inv[d], ResultType(kind), op)
      PROVE  OwnPdu(m, num)' /\ m.ttl = MaxNSDULifeTime
  <2>1. d[1] = To[op] /\ inv[d].rem = From[op]
    BY <1>1, <1>5 DEF OwnInfo, OwnPerformer
  <2>2. /\ m.type = ResultType(kind) /\ m.src = To[op] /\ m.dst = From[op]
        /\ m.op = op /\ m.ref = num[op] /\ m.ref # NoRef
        /\ m.ttl = MaxNSDULifeTime
    BY <1>2, <1>5, <2>1 DEF PduOf
  <2> QED
    BY <1>5, <2>2 DEF OwnPdu, ResultType
<1>6. CASE m = PduOf(d[1], inv[d], "FAILURE", NoOp)
  <2>1. m.type = "FAILURE" /\ m.ttl = MaxNSDULifeTime
    BY <1>6 DEF PduOf
  <2> QED
    BY <2>1 DEF OwnPdu, ResultType
<1> QED
  BY <1>3, <1>4, <1>5, <1>6

\* An indication or a confirmation hands no operation to a user.
LEMMA IndPending ==
    ASSUME TypeInv, NEW d \in Desc, NEW kind \in {"result", "error", "failure"},
           NEW op \in Op, inv[d].userRef \in Op,
           invokerInd(d, kind, op) \/ performerCnf(d, kind), work' = work
    PROVE  NoNewPending
<1>1. d[1] \in Node /\ d[2] \in Slot
  BY DEF Desc
<1>2. PICK tk \in TaskKind, o \in Op :
        tk # "invokeInd" /\ Submit(d[1], <<TaskFor(d, tk, o)>>)
  <2>1. CASE invokerInd(d, kind, op)
    BY <2>1 DEF invokerInd, TaskKind
  <2>2. CASE performerCnf(d, kind)
    BY <2>2 DEF performerCnf, TaskKind
  <2> QED
    BY <2>1, <2>2
<1>3. PICK t : t = TaskFor(d, tk, o)
  OBVIOUS
<1>4. t \in Task /\ t.kind # "invokeInd"
  BY <1>1, <1>2, <1>3 DEF TaskFor, Task
<1>5. /\ <<t>> \in Seq(Task) /\ Submit(d[1], <<t>>)
      /\ \A k \in 1 .. Len(<<t>>) : <<t>>[k].kind # "invokeInd"
  BY <1>2, <1>3, <1>4
<1> QED
  BY <1>1, <1>5, SubmitPending

\* The indication of an open invocation takes no answer from anyone.
LEMMA IndFulfilled ==
    ASSUME TypeInv, OnceInv, NEW d \in Desc, Open(d), NEW kind, NEW op,
           invokerInd(d, kind, op), answer' = answer
    PROVE  /\ ind[inv[d].userRef] = <<>>
           /\ ind' = [ind EXCEPT ![inv[d].userRef] =
                        <<[kind |-> kind, op |-> op]>>]
           /\ \A o \in Op : Fulfilled(o) => Fulfilled(o)'
<1> DEFINE u == inv[d].userRef
           out == [kind |-> kind, op |-> op]
<1>1. u \in Op /\ ind[u] = <<>>
  BY DEF OnceInv, OpenUntold, TypeInv, LiveTyped, Open
<1>2. ind' = [ind EXCEPT ![u] = Append(ind[u], out)]
  BY Zenon DEF invokerInd
<1> HIDE DEF out
<1>3. Append(ind[u], out) = <<out>>
  BY <1>1
<1>4. ind' = [ind EXCEPT ![u] = <<out>>]
  BY <1>2, <1>3
<1>5. ASSUME NEW o \in Op, Fulfilled(o) PROVE Fulfilled(o)'
  <2>1. ind[o] # <<>>
    BY <1>5 DEF Fulfilled
  <2>2. ind'[o] = ind[o]
    BY <1>1, <1>4, <2>1 DEF TypeInv, TypeOK
  <2> QED
    BY <1>5, <2>2 DEF Fulfilled
<1> QED
  BY <1>1, <1>4, <1>5 DEF out

-----------------------------------------------------------------------------
(* Every step both diagrams share preserves the invariant.                 *)

\* What erop_tmrCreate adds.
LEMMA CreatedOnly ==
    ASSUME NEW ts, NEW name, NEW time, NEW datum,
           NEW t \in tmrCreate(ts, name, time, datum)
    PROVE  t \in ts \/ (t.name = name /\ t.left = time /\ t.datum = datum)
BY DEF tmrCreate

\* The time of the retransmissions that are left.
LEMMA RetranTime ==
    ASSUME NEW k \in Nat
    PROVE  /\ (RetransmitCount - 1 - (k + 1)) * retransTimeout + retransTimeout
                = (RetransmitCount - 1 - k) * retransTimeout
           /\ (RetransmitCount - (k + 1)) * retransTimeout + retransTimeout
                = (RetransmitCount - k) * retransTimeout
           /\ k < RetransmitCount =>
                (RetransmitCount - 1 - k) * retransTimeout \in Nat
           /\ (RetransmitCount - 1 - k) * retransTimeout \in Int
           /\ (RetransmitCount - k) * retransTimeout \in Int
<1>1. PICK r \in Nat : r = retransTimeout
  BY DelaysTyped
<1>2. PICK c \in Nat : c = RetransmitCount
  BY NumberAssumption
<1>3. /\ (c - 1 - (k + 1)) * r + r = (c - 1 - k) * r
      /\ (c - (k + 1)) * r + r = (c - k) * r
  BY SMTT(40)
<1>4. ASSUME k < c PROVE (c - 1 - k) * r \in Nat
  <2>1. PICK i \in Nat : i = c - 1 - k
    BY <1>4
  <2>2. i * r \in Nat
    OBVIOUS
  <2> QED
    BY <2>1, <2>2
<1>5. (c - 1 - k) * r \in Int /\ (c - k) * r \in Int
  OBVIOUS
<1> QED
  BY <1>1, <1>2, <1>3, <1>4, <1>5

\* tr_clInvoker02: the INVOKE PDU that is sent was reckoned with.
LEMMA InvokerRetranServed ==
    ASSUME TypeInv, NEW num, Served(num), NEW d \in Desc, InvokerRetran(d)
    PROVE  Served(num)'
<1>1. inv[d].state = "InvokePduSent"
  BY DEF InvokerRetran
<1>2. PICK t \in Expired(d, "invokePduRetran"), ok \in SendOutcome :
        LET rest == inv[d].tmrs \ {t} IN
        \/ /\ t.datum >= RetransmitCount
           /\ inv' = [inv EXCEPT ![d].tmrs = lastTimer(rest)] /\ net' = net
        \/ /\ ~ (t.datum >= RetransmitCount)
           /\ inv' = [inv EXCEPT ![d].tmrs =
                        tmrCreate(rest, "invokePduRetran", retransTimeout,
                                  t.datum + 1)]
           /\ \/ net' = net
              \/ net' = Send(net, PduOf(d[1], inv[d], "INVOKE",
                                        inv[d].userRef), ok)
  BY DEF InvokerRetran
<1>3. PICK rest : rest = inv[d].tmrs \ {t}
  OBVIOUS
<1>4. PICK op \in Op : op = inv[d].userRef
  BY <1>1, RoleOf DEF Served
<1>10. PICK p : p = PduOf(d[1], inv[d], "INVOKE", op)
  OBVIOUS
<1>5. OwnPdu(p, num)' /\ p.ttl = MaxNSDULifeTime /\ p.op = op
  <2>1. p.op = op
    BY <1>10 DEF PduOf
  <2> QED
    BY <1>1, <1>4, <1>10, <2>1, PduOfOwn DEF Served, InvokerState
<1>6. /\ t \in inv[d].tmrs /\ t.name = "invokePduRetran" /\ t.left = 0
      /\ t.datum \in Nat
  BY <1>1, InUse DEF Expired
<1>7. UNCHANGED <<newRef, sch, userVars>>
  BY DEF InvokerRetran
<1>8. CASE /\ inv' = [inv EXCEPT ![d].tmrs = lastTimer(rest)]
           /\ net' = net
  <2>1. PICK ts : ts = lastTimer(rest)
    OBVIOUS
  <2>2. Moved(d, inv[d].state, inv[d].resultPdu, ts)
    BY <1>8, <2>1, RetimeMoved
  <2>3. \A u \in ts : u.name = "invokePduRetran" => u \in inv[d].tmrs
    BY <1>3, <2>1, CreatedOnly DEF lastTimer
  <2>4. WithinKept
    BY <1>8, <2>2, <2>3, MovedWithin
  <2> QED
    BY <1>1, <1>7, <1>8, <2>2, <2>4, QuietServed
    DEF State, InvokerState, PerformerState, AnswerState
<1>9. CASE /\ ~ (t.datum >= RetransmitCount)
           /\ inv' = [inv EXCEPT ![d].tmrs =
                        tmrCreate(rest, "invokePduRetran", retransTimeout,
                                  t.datum + 1)]
           /\ net' = net \/ net' = Send(net, p, ok)
  <2>1. PICK ts : ts = tmrCreate(rest, "invokePduRetran", retransTimeout,
                                 t.datum + 1)
    OBVIOUS
  <2>2. Moved(d, inv[d].state, inv[d].resultPdu, ts)
    BY <1>9, <2>1, RetimeMoved
  <2>3. \A m \in net' : m \in net \/ m = p
    BY <1>9 DEF Send
  <2>4. PICK k \in Nat : k = t.datum /\ k < RetransmitCount
    BY <1>6, <1>9, NumberAssumption
  <2>5. PICK left \in Nat, rt \in Nat :
          /\ left = (RetransmitCount - 1 - k) * retransTimeout
          /\ rt = retransTimeout
          /\ (RetransmitCount - 1 - (k + 1)) * retransTimeout = left - rt
    <3>1. /\ retransTimeout \in Nat
          /\ (RetransmitCount - 1 - k) * retransTimeout \in Nat
          /\ (RetransmitCount - 1 - (k + 1)) * retransTimeout + retransTimeout
               = (RetransmitCount - 1 - k) * retransTimeout
          /\ (RetransmitCount - 1 - (k + 1)) * retransTimeout \in Int
      BY <2>4, DelaysTyped, RetranTime
    <3> QED
      BY <3>1
  <2>6. ASSUME NEW o \in Op, NEW time \in Int, Within(o, time)
        PROVE  Within(o, time)'
    <3>1. o = op => left + MaxNSDULifeTime < time
      <4>1. Open(d) /\ t.left = 0
        BY <1>1, <1>6 DEF Open
      <4>2. o = op => t.left + (RetransmitCount - 1 - t.datum) * retransTimeout
                        + MaxNSDULifeTime < time
        BY <1>4, <1>6, <2>4, <2>6, <4>1 DEF Within
      <4> QED
        BY <2>4, <2>5, <4>1, <4>2, NumberAssumption
    <3>2. ASSUME NEW m \in net', m.type = "INVOKE" /\ m.op = o
          PROVE  m.ttl < time
      <4>1. CASE m \in net
        BY <2>6, <3>2, <4>1 DEF Within
      <4>2. CASE m = p
        BY <1>5, <2>5, <3>1, <3>2, <4>2, NumberAssumption
      <4> QED
        BY <2>3, <4>1, <4>2
    <3>3. ASSUME NEW e \in Desc, Open(e)', inv'[e].userRef = o,
                 NEW v \in inv'[e].tmrs,
                 v.name = "invokePduRetran", v.datum < RetransmitCount
          PROVE  v.left + (RetransmitCount - 1 - v.datum) * retransTimeout
                   + MaxNSDULifeTime < time
      <4>1. inv'[e].userRef = inv[e].userRef /\ Open(e)
        BY <1>1, <2>2, <3>3 DEF Moved, Open
      <4>2. CASE v \in inv[e].tmrs
        BY <2>6, <3>3, <4>1, <4>2 DEF Within
      <4>3. CASE v \notin inv[e].tmrs
        <5>1. e = d /\ v \in ts
          BY <2>2, <3>3, <4>3 DEF Moved
        <5>2. v.left = rt /\ v.datum = k + 1 /\ o = op
          BY <1>3, <1>4, <2>1, <2>4, <2>5, <3>3, <4>1, <4>3, <5>1, CreatedOnly
        <5>3. (RetransmitCount - 1 - v.datum) * retransTimeout = left - rt
          BY <2>5, <5>2
        <5> QED
          BY <2>5, <3>1, <5>2, <5>3, NumberAssumption
      <4> QED
        BY <4>2, <4>3
    <3> QED
      BY <3>2, <3>3 DEF Within
  <2>7. WithinKept
    BY <2>6 DEF WithinKept
  <2>8. \A m \in net' : m \in net \/ (OwnPdu(m, num)' /\ m.ttl <= MaxNSDULifeTime)
    BY <1>5, <2>3, NumberAssumption
  <2> QED
    BY <1>1, <1>7, <2>2, <2>7, <2>8, QuietServed
    DEF State, InvokerState, PerformerState, AnswerState
<1> QED
  BY <1>2, <1>3, <1>4, <1>10, <1>8, <1>9

\* The compiled times are long enough if a datagram may live at all.
LEMMA LongEnough ==
    ASSUME MaxNSDULifeTime >= 1
    PROVE  /\ Horizon \in Int /\ refKeepTime \in Int /\ perfNoResponse \in Int
           /\ MaxNSDULifeTime + 1 <= refKeepTime /\ Horizon <= perfNoResponse
           /\ Horizon <= retransTimeout + RetransmitCount * retransTimeout
                           + rwait + refKeepTime
           /\ retransTimeout + RetransmitCount * retransTimeout
                + rwait + refKeepTime \in Int
<1>1. PICK c \in Nat, x \in Nat, r \in Nat, a \in Nat, life \in Nat :
        /\ c = RetransmitCount /\ x = Retransmit /\ r = Roundtrip
        /\ a = Acknowledgment /\ life = MaxNSDULifeTime
  BY NumberAssumption
<1>2. PICK cx \in Nat, cr \in Nat : cx = c * x /\ cr = c * r
  OBVIOUS
<1>3. c * (x + r) = cx + cr /\ (c + 1) * (x + r) = cx + cr + x + r
  BY <1>2, SMTT(40)
<1>4. /\ Horizon = cx + cr + life + 1 /\ refKeepTime = 2 * life + cx
      /\ perfNoResponse = 2 * life + cx + cr + x + r
      /\ retransTimeout = x + r /\ RetransmitCount * retransTimeout = cx + cr
      /\ rwait = 2 * (a + x)
  BY <1>1, <1>2, <1>3
  DEF Horizon, refKeepTime, perfNoResponse, retransTimeout, rwait
<1> QED
  BY <1>1, <1>4

\* Where the invoking user has been told, only the PDUs in transit are left.
LEMMA ToldWithin ==
    ASSUME TypeInv, OnceInv, KeptInv, NEW op \in Op, ind[op] # <<>>
    PROVE  Within(op, MaxNSDULifeTime + 1)
<1>1. \A e \in Desc : Open(e) => inv[e].userRef # op
  BY DEF OnceInv, OpenUntold
<1>2. \A m \in net : m.ttl < MaxNSDULifeTime + 1
  BY NumberAssumption DEF KeptInv, TypeInv, TypeOK, Pdu
<1> QED
  BY <1>1, <1>2 DEF Within

\* An InvokeInfo that waits for its number to be forgotten: the timers left.
LEMMA RefWaitKept ==
    ASSUME TypeInv, NEW num, OwnInv(num), KeptInv, NEW d \in Desc,
           inv[d].state \in PerformerState, NEW rp, NEW ts \in Timers,
           Moved(d, "PerformerRefWait", rp, ts), WithinKept,
           Within(inv[d].userRef, refKeepTime),
           \A t \in ts : t.name = "refNu" => t.left = refKeepTime
    PROVE  Kept(inv[d])'
<1>1. KeptState("PerformerRefWait", inv[d].userRef)
  BY DEF KeptState
<1>2. \A t \in ts : KeptTimer("PerformerRefWait", inv[d].userRef, t)
  BY DEF KeptTimer
<1> QED
  BY <1>1, <1>2, MovedKept

\* The steps that end an invocation without an answer.
LEMMA InvokerEndServed ==
    ASSUME TypeInv, OnceInv, NEW num, Served(num), NEW d \in Desc, Open(d),
           NEW ip, NEW rp, NEW ts,
           rp = inv[d].resultPdu \/ rp = relPdu(inv[d].resultPdu),
           inv' = [inv EXCEPT ![d] = [inv[d] EXCEPT
                     !.state = "InvokerRefWait", !.invokePdu = ip,
                     !.resultPdu = rp, !.tmrs = ts]],
           invokerInd(d, "failure", inv[d].userRef),
           UNCHANGED <<newRef, net, asked, exec, work, answer, cnf>>
    PROVE  Served(num)'
<1>1. Moved(d, "InvokerRefWait", rp, ts)
  BY ChangeMoved
<1>2. inv[d].userRef \in Op /\ inv[d].state = "InvokePduSent"
  BY RoleOf DEF Open, Served
<1>3. NoNewPending
  BY <1>2, IndPending
<1>4. \A op \in Op : Fulfilled(op) => Fulfilled(op)'
  BY IndFulfilled
<1>5. WithinKept
  BY <1>1, MovedWithin
<1> QED
  BY <1>1, <1>2, <1>3, <1>4, <1>5, MoveServed
  DEF State, InvokerState, PerformerState, AnswerState

\* tr_clInvoker03 and 05.
LEMMA InvokerFailedServed ==
    ASSUME TypeInv, OnceInv, NEW num, Served(num),
           \/ \E d \in Desc : InvokerLast(d)
           \/ \E m \in net : InvokerFailure(m)
    PROVE  Served(num)'
<1>1. ASSUME NEW d \in Desc, InvokerLast(d) PROVE Served(num)'
  <2>1. PICK ts :
          inv' = [inv EXCEPT ![d] = [inv[d] EXCEPT
                    !.state = "InvokerRefWait",
                    !.invokePdu = relPdu(inv[d].invokePdu),
                    !.resultPdu = relPdu(inv[d].resultPdu), !.tmrs = ts]]
    BY <1>1, ZenonT(60) DEF InvokerLast
  <2> QED
    BY <1>1, <2>1, InvokerEndServed DEF InvokerLast, Open
<1>2. ASSUME NEW m \in net, InvokerFailure(m) PROVE Served(num)'
  <2>1. PICK d \in refToInvoker(m.dst, m.ref, m.src) :
          inv[d].state = "InvokePduSent" /\ FailOperation(d)
    BY <1>2 DEF InvokerFailure
  <2>2. d \in Desc
    BY <2>1, PduInNet, MappedInDesc DEF refToInvoker
  <2>3. inv[d] \in InvokeInfo
    BY <2>2 DEF TypeInv, TypeOK
  <2>4. inv' = [inv EXCEPT ![d] = [inv[d] EXCEPT
                  !.state = "InvokerRefWait", !.invokePdu = inv[d].invokePdu,
                  !.resultPdu = inv[d].resultPdu,
                  !.tmrs = tmrCreate({}, "refNu", refKeepTime, 0)]]
    BY <2>1, <2>3 DEF FailOperation, InvokeInfo
  <2>5. Open(d)
    BY ONLY <2>1 DEF Open
  <2>6. /\ invokerInd(d, "failure", inv[d].userRef)
        /\ UNCHANGED <<newRef, net, asked, exec, work, answer, cnf>>
    BY ONLY <2>1, Zenon DEF FailOperation
  <2> QED
    BY <2>2, <2>4, <2>5, <2>6, InvokerEndServed, ZenonT(40)
<1> QED
  BY <1>1, <1>2

\* A step that leaves the table alone and delays nothing keeps it long enough.
LEMMA SameTableKept ==
    ASSUME TypeInv, NEW num, OwnInv(num), KeptInv, WithinKept,
           inv' = inv, exec' = exec, asked \subseteq asked',
           \A m \in net' : m \in net \/ m.ttl <= MaxNSDULifeTime
    PROVE  KeptInv'
<1>1. \A m \in net' : m.ttl <= MaxNSDULifeTime
  BY DEF KeptInv
<1>2. \A op \in Op : Within(op, Horizon)'
  <2>1. Horizon \in Int
    BY DelaysTyped, NumberAssumption DEF Horizon
  <2> QED
    BY <2>1 DEF KeptInv, WithinKept
<1>3. ExecOnce'
  BY DEF KeptInv, ExecOnce, Serves, WithinKept
<1>4. ASSUME NEW d \in Desc, inv[d].state \in PerformerState
      PROVE  exec[inv[d].userRef] = 1 /\ Kept(inv[d])'
  <2>1. PICK u \in InvokeInfo : u = inv[d]
    BY DEF TypeInv, TypeOK
  <2>2. u.userRef \in Op /\ Kept(u) /\ exec[u.userRef] = 1
    BY <1>4, <2>1, RoleOf DEF KeptInv, PerformerState
  <2>3. Kept(u)'
    BY <2>2, SameKept DEF WithinKept
  <2> QED
    BY <2>1, <2>2, <2>3
<1>5. ServerDistinct'
  BY DEF KeptInv, ServerDistinct, Serves
<1> QED
  BY <1>1, <1>2, <1>3, <1>4, <1>5 DEF KeptInv

\* Whatever such a step sends, other than an INVOKE PDU, if it is about the
\* operation it names.
LEMMA SentServed ==
    ASSUME TypeInv, NEW num, Served(num), UNCHANGED <<inv, newRef, sch, userVars>>,
           \A q \in net' : \/ q \in net
                           \/ /\ q.type # "INVOKE" /\ OwnPdu(q, num)'
                              /\ q.ttl <= MaxNSDULifeTime
    PROVE  Served(num)'
<1>1. OwnInv(num)'
  <2>1. Numbered(num)'
    BY DEF Served, OwnInv, Numbered, userVars
  <2>2. \A d \in Desc : OwnInfo(inv[d], d[1], num)'
    BY DEF Served, OwnInv, OwnInfo, OwnInvoker, OwnPerformer, Fulfilled,
       userVars
  <2>3. ASSUME NEW q \in net PROVE OwnPdu(q, num)'
    <3>1. OwnPdu(q, num)
      BY DEF Served, OwnInv
    <3> QED
      BY <3>1 DEF OwnPdu, Fulfilled, userVars
  <2>4. \A d \in Desc : \A op \in Op : Pending(d, op)' => op = inv'[d].userRef
    BY DEF Served, OwnInv, Pending, userVars
  <2> QED
    BY <2>1, <2>2, <2>3, <2>4 DEF OwnInv
<1>2. WithinKept
  BY CalmWithin DEF Open
<1>3. KeptInv'
  BY <1>2, SameTableKept DEF Served, userVars
<1>4. AnswersInv'
  BY DEF Served, AnswersInv, Pending, userVars
<1> QED
  BY <1>1, <1>3, <1>4 DEF Served

\* A step that changes nothing.
LEMMA UnchangedServed ==
    ASSUME TypeInv, NEW num, Served(num), UNCHANGED vars
    PROVE  Served(num)'
BY SentServed DEF vars, userVars

\* A FAILURE PDU sent to the sender of a PDU is about no operation.
LEMMA RefusedServed ==
    ASSUME TypeInv, NEW num, Served(num), NEW m \in net,
           ResultPduUnknown(m) \/ InvokePduRefused(m)
    PROVE  Served(num)'
<1>1. UNCHANGED <<inv, newRef, sch, userVars>>
  BY DEF ResultPduUnknown, InvokePduRefused
<1>2. PICK p : p = FailurePduFor(m)
  OBVIOUS
<1>3. p.type = "FAILURE" /\ p.ttl = MaxNSDULifeTime
  BY <1>2 DEF FailurePduFor
<1>4. \A q \in net' : q \in net \/ q = p
  BY <1>2 DEF ResultPduUnknown, InvokePduRefused, Send
<1>5. OwnPdu(p, num)'
  BY <1>3 DEF OwnPdu, ResultType
<1> QED
  BY <1>1, <1>3, <1>4, <1>5, SentServed, NumberAssumption
\* Back to a start state: a performer's InvokeInfo has been kept long enough.
LEMMA ReleaseServed ==
    ASSUME TypeInv, NEW num, Served(num), NEW d \in Desc,
           InvokerRelease(d) \/ PerformerRelease(d)
    PROVE  Served(num)'
<1>1. PICK s \in StartState :
        /\ \/ s = "CLInvokerStart" /\ inv[d].state = "InvokerRefWait"
           \/ s = "CLPerformerStart" /\ inv[d].state = "PerformerRefWait"
        /\ \E t \in Expired(d, "refNu") :
             inv' = [inv EXCEPT ![d].state = s, ![d].tmrs = @ \ {t}]
  BY DEF InvokerRelease, PerformerRelease, StartState
<1>2. PICK t \in Expired(d, "refNu") :
        inv' = [inv EXCEPT ![d].state = s, ![d].tmrs = @ \ {t}]
  BY <1>1
<1>3. PICK ts : ts = inv[d].tmrs \ {t}
  OBVIOUS
<1>4. inv' = [inv EXCEPT ![d] = [inv[d] EXCEPT
                !.state = s, !.invokePdu = inv[d].invokePdu,
                !.resultPdu = inv[d].resultPdu, !.tmrs = ts]]
  BY <1>2, <1>3 DEF TypeInv, TypeOK, InvokeInfo
<1>5. Moved(d, s, inv[d].resultPdu, ts)
  BY <1>4, ChangeMoved
<1>6. s # "InvokePduSent" /\ inv[d].state # "free"
  BY <1>1 DEF StartState
<1>7. net' = net /\ UNCHANGED <<newRef, userVars>>
  BY DEF InvokerRelease, PerformerRelease
<1>8. WithinKept
  BY <1>5, <1>6, <1>7, MovedWithin
<1>9. NoNewPending
  <2>1. PICK tk : tk = TaskFor(d, "relInvoke", NoOp)
    OBVIOUS
  <2>2. tk \in Task /\ tk.kind # "invokeInd" /\ d[1] \in Node
    BY <2>1 DEF TaskFor, Task, TaskKind, Desc
  <2>3. Submit(d[1], <<tk>>) /\ work' = work
    BY <2>1 DEF InvokerRelease, PerformerRelease, userVars
  <2>4. <<tk>> \in Seq(Task) /\ \A k \in 1 .. Len(<<tk>>) : <<tk>>[k].kind # "invokeInd"
    BY <2>2
  <2> QED
    BY <2>2, <2>3, <2>4, SubmitPending
<1>10. s \in PerformerState => Kept(inv[d])'
  <2> SUFFICES ASSUME s \in PerformerState PROVE Kept(inv[d])'
    OBVIOUS
  <2>1. s = "CLPerformerStart" /\ inv[d].state = "PerformerRefWait"
    BY <1>1 DEF PerformerState
  <2>2. t \in inv[d].tmrs /\ t.name = "refNu" /\ t.left = 0
    BY DEF Expired
  <2>3. inv[d].state \in PerformerState
    BY <2>1 DEF PerformerState
  <2>4. Within(inv[d].userRef, 0)
    BY <2>1, <2>2, <2>3 DEF Served, KeptInv, Kept, KeptTimer
  <2>5. KeptState(s, inv[d].userRef)
    BY <2>1, <2>4 DEF KeptState
  <2>6. \A v \in ts : KeptTimer(s, inv[d].userRef, v)
    BY <2>1 DEF KeptTimer
  <2>7. ts \in Timers
    BY <1>3, <1>6, InUse DEF Timers
  <2> QED
    BY <1>5, <1>8, <2>3, <2>5, <2>6, <2>7, MovedKept DEF Served
<1>11. \A op : Fulfilled(op) => Fulfilled(op)'
  BY <1>7 DEF Fulfilled, userVars
<1> QED
  BY <1>1, <1>5, <1>6, <1>7, <1>8, <1>9, <1>10, <1>11, MoveServed
  DEF State, InvokerState, PerformerState, AnswerState, StartState, userVars

\* tr_clPerformer08: the user had as long as the invoker may go on asking.
LEMMA PerformerNoResponseServed ==
    ASSUME TypeInv, NEW num, Served(num), NEW d \in Desc, PerformerNoResponse(d)
    PROVE  Served(num)'
<1>1. inv[d].state = "InvokePduReceived" /\ inv[d].state \in PerformerState
  BY DEF PerformerNoResponse, PerformerState
<1>2. inv' = [inv EXCEPT ![d] = [inv[d] EXCEPT
                !.state = "CLPerformerStart",
                !.invokePdu = relPdu(inv[d].invokePdu),
                !.resultPdu = inv[d].resultPdu, !.tmrs = {}]]
  BY DEF PerformerNoResponse, TypeInv, TypeOK, InvokeInfo
<1>3. Moved(d, "CLPerformerStart", inv[d].resultPdu, {})
  BY <1>2, ChangeMoved
<1>4. PICK op \in Op : op = inv[d].userRef
  BY <1>1, RoleOf DEF Served
<1>5. PICK p : p = PduOf(d[1], inv[d], "FAILURE", NoOp)
  OBVIOUS
<1>6. OwnPdu(p, num)' /\ p.ttl = MaxNSDULifeTime /\ p.type = "FAILURE"
  <2>1. p.type = "FAILURE"
    BY <1>5 DEF PduOf
  <2> QED
    BY <1>1, <1>4, <1>5, <2>1, PduOfOwn DEF Served
<1>7. \A m \in net' : m \in net \/ m = p
  BY <1>5 DEF PerformerNoResponse, Send
<1>8. WithinKept
  BY <1>3, <1>6, <1>7, MovedWithin
<1>9. NoNewPending
  <2>1. PICK t1, t2 : t1 = TaskFor(d, "failureInd", NoOp)
                      /\ t2 = TaskFor(d, "relInvoke", NoOp)
    OBVIOUS
  <2>2. /\ t1 \in Task /\ t1.kind # "invokeInd"
        /\ t2 \in Task /\ t2.kind # "invokeInd" /\ d[1] \in Node
    BY <2>1 DEF TaskFor, Task, TaskKind, Desc
  <2>3. Submit(d[1], <<t1, t2>>) /\ work' = work
    BY <2>1 DEF PerformerNoResponse, NoResponseTasks
  <2>4. /\ <<t1, t2>> \in Seq(Task)
        /\ \A k \in 1 .. Len(<<t1, t2>>) : <<t1, t2>>[k].kind # "invokeInd"
    BY <2>2
  <2> QED
    BY <2>2, <2>3, <2>4, SubmitPending
<1>10. Kept(inv[d])'
  <2>1. PICK t \in inv[d].tmrs : t.left = 0
    BY DEF PerformerNoResponse, Expired
  <2>2. Within(inv[d].userRef, 0)
    BY <1>1, <2>1 DEF Served, KeptInv, Kept, KeptTimer
  <2>3. KeptState("CLPerformerStart", inv[d].userRef)
    BY <2>2 DEF KeptState
  <2> QED
    BY <1>1, <1>3, <1>8, <2>3, MovedKept DEF Served, Timers
<1>11. UNCHANGED <<newRef, asked, exec, answer, ind>>
  BY DEF PerformerNoResponse
<1>12. \A o : Fulfilled(o) => Fulfilled(o)'
  BY <1>11 DEF Fulfilled
<1>13. \A o \in Op : o # op => cnf'[o] = cnf[o]
  BY <1>4 DEF PerformerNoResponse, TypeInv, TypeOK
<1>14. \A m \in net' : m \in net \/ (OwnPdu(m, num)' /\ m.ttl <= MaxNSDULifeTime)
  BY <1>6, <1>7, NumberAssumption
<1> QED
  BY <1>1, <1>3, <1>4, <1>8, <1>9, <1>10, <1>11, <1>12, <1>13, <1>14, MoveServed
  DEF State, InvokerState, PerformerState, AnswerState

\* A performer's part ends: its user is told, and the number is kept.
LEMMA PerformerEndServed ==
    ASSUME TypeInv, NEW num, Served(num), NEW d \in Desc,
           inv[d].state \in AnswerState,
           Within(inv[d].userRef, refKeepTime),
           inv' = [inv EXCEPT
                     ![d].state = "PerformerRefWait",
                     ![d].resultPdu = relPdu(@),
                     ![d].tmrs = tmrCreate({}, "refNu", refKeepTime, 0)],
           NEW kind \in {"result", "error", "failure"}, performerCnf(d, kind),
           UNCHANGED <<newRef, net, asked, ind, exec, work, answer>>
    PROVE  Served(num)'
<1>1. inv[d].state \in PerformerState /\ inv[d].state # "free"
  BY DEF AnswerState, PerformerState
<1>2. PICK ts : ts = tmrCreate({}, "refNu", refKeepTime, 0)
  OBVIOUS
<1>3. inv' = [inv EXCEPT ![d] = [inv[d] EXCEPT
                !.state = "PerformerRefWait", !.invokePdu = inv[d].invokePdu,
                !.resultPdu = relPdu(inv[d].resultPdu), !.tmrs = ts]]
  BY <1>2 DEF TypeInv, TypeOK, InvokeInfo
<1>4. Moved(d, "PerformerRefWait", relPdu(inv[d].resultPdu), ts)
  BY <1>3, ChangeMoved
<1>5. PICK op \in Op : op = inv[d].userRef
  BY <1>1, RoleOf DEF Served
<1>6. WithinKept
  BY <1>4, MovedWithin
<1>7. NoNewPending
  BY <1>5, IndPending
<1>8. ts \in Timers /\ \A t \in ts : t.name = "refNu" => t.left = refKeepTime
  <2>1. {} \in Timers
    BY DEF Timers
  <2>2. "refNu" \in TimerName /\ 0 \in Nat /\ refKeepTime \in Nat
    BY DelaysTyped DEF TimerName
  <2>3. ts \in Timers
    BY <1>2, <2>1, <2>2, TimersTyped
  <2>4. \A t \in ts : t.left = refKeepTime
    BY <1>2, CreatedOnly
  <2> QED
    BY <2>3, <2>4
<1>9. Kept(inv[d])'
  BY <1>1, <1>4, <1>6, <1>8, RefWaitKept DEF Served
<1>10. \A o : Fulfilled(o) => Fulfilled(o)'
  BY DEF Fulfilled
<1>11. \A o \in Op : o # op => cnf'[o] = cnf[o]
  BY <1>5 DEF performerCnf, TypeInv, TypeOK
<1> QED
  BY <1>1, <1>4, <1>5, <1>6, <1>7, <1>9, <1>10, <1>11, MoveServed
  DEF State, InvokerState, PerformerState, AnswerState


\* A step that gives an InvokeInfo new timers, none of them to retransmit an
\* INVOKE PDU, and sends none.
LEMMA RetimeServed ==
    ASSUME TypeInv, NEW num, Served(num), NEW d \in Desc,
           inv[d].state # "free", NEW ts \in Timers,
           inv' = [inv EXCEPT ![d].tmrs = ts],
           \A t \in ts :
             \/ t \in inv[d].tmrs
             \/ /\ t.name # "invokePduRetran"
                /\ inv[d].state \in PerformerState =>
                     KeptTimer(inv[d].state, inv[d].userRef, t),
           UNCHANGED <<newRef, sch, userVars>>,
           \A m \in net' : \/ m \in net
                           \/ /\ m.type # "INVOKE" /\ OwnPdu(m, num)'
                              /\ m.ttl <= MaxNSDULifeTime
    PROVE  Served(num)'
<1>1. PICK s \in State \ {"free"} : s = inv[d].state
  BY DEF TypeInv, TypeOK, InvokeInfo
<1>2. Moved(d, s, inv[d].resultPdu, ts)
  BY <1>1, RetimeMoved
<1>3. WithinKept
  BY <1>1, <1>2, MovedWithin
<1>4. s \in PerformerState => Kept(inv[d])'
  <2> SUFFICES ASSUME s \in PerformerState PROVE Kept(inv[d])'
    OBVIOUS
  <2>1. KeptState(s, inv[d].userRef)
    BY <1>1 DEF Served, KeptInv, Kept
  <2>2. \A t \in ts : \/ t \in inv[d].tmrs
                      \/ KeptTimer(s, inv[d].userRef, t)
    BY <1>1
  <2> QED
    BY <1>1, <1>2, <1>3, <2>1, <2>2, MovedKept DEF Served
<1>5. \A m \in net' : m \in net \/ (OwnPdu(m, num)' /\ m.ttl <= MaxNSDULifeTime)
  OBVIOUS
<1> QED
  BY <1>1, <1>2, <1>3, <1>4, <1>5, QuietServed

\* A timer that is not expected.
LEMMA IgnoreTimerServed ==
    ASSUME TypeInv, NEW num, Served(num), NEW d \in Desc, NEW expects,
           IgnoreTimer(d, expects)
    PROVE  Served(num)'
<1>1. PICK t \in inv[d].tmrs : inv' = [inv EXCEPT ![d].tmrs = inv[d].tmrs \ {t}]
  BY DEF IgnoreTimer
<1>2. inv[d].state # "free"
  BY <1>1, RoleOf DEF Served, FreeInfo
<1>3. inv[d].tmrs \ {t} \in Timers
  BY <1>2, InUse DEF Timers
<1>4. \A u \in inv[d].tmrs \ {t} : u \in inv[d].tmrs
  OBVIOUS
<1>5. UNCHANGED <<newRef, sch, userVars>> /\ net' = net
  BY DEF IgnoreTimer
<1> QED
  BY <1>1, <1>2, <1>3, <1>4, <1>5, RetimeServed

\* What restarting a timer leaves.
LEMMA RestartedOnly ==
    ASSUME NEW ts, NEW name, NEW time, NEW t \in tmrRestart(ts, name, time)
    PROVE  t \in ts \/ (t.name = name /\ t.left = time /\ t.datum = 0)
BY CreatedOnly DEF tmrRestart, tmrCancel

\* Restarting the refNu timer, while the reference number is kept.
LEMMA RefWaitServed ==
    ASSUME TypeInv, NEW num, Served(num), NEW d \in Desc,
           inv[d].state \in {"InvokerRefWait", "PerformerRefWait"},
           inv' = [inv EXCEPT ![d].tmrs = tmrRestart(@, "refNu", refKeepTime)],
           UNCHANGED <<newRef, net, sch, userVars>>
    PROVE  Served(num)'
<1>1. PICK ts : ts = tmrRestart(inv[d].tmrs, "refNu", refKeepTime)
  OBVIOUS
<1>2. ts \in Timers
  <2>1. "refNu" \in TimerName /\ 0 \in Nat /\ refKeepTime \in Nat
    BY DelaysTyped DEF TimerName
  <2> QED
    BY <1>1, <2>1, InUse, TimersTyped
<1>3. \A t \in ts : t \in inv[d].tmrs \/ (t.name = "refNu" /\ t.left = refKeepTime)
  BY <1>1, RestartedOnly
<1>4. ASSUME NEW t \in ts, t \notin inv[d].tmrs,
             inv[d].state \in PerformerState
      PROVE  KeptTimer(inv[d].state, inv[d].userRef, t)
  <2>1. inv[d].state = "PerformerRefWait"
    BY <1>4 DEF PerformerState
  <2>2. Within(inv[d].userRef, refKeepTime)
    BY <1>4, <2>1 DEF Served, KeptInv, Kept, KeptState
  <2> QED
    BY <1>3, <1>4, <2>1, <2>2 DEF KeptTimer
<1> QED
  BY <1>1, <1>2, <1>3, <1>4, RetimeServed

\* tr_clPerformer07: a late INVOKE PDU finds the operation it asks for.
LEMMA PerformerLateInvokeServed ==
    ASSUME TypeInv, NEW num, Served(num), NEW m \in net, PerformerLateInvoke(m)
    PROVE  Served(num)'
<1>1. PICK d \in Duplicates(m) :
        /\ inv[d].state = "PerformerRefWait"
        /\ inv' = [inv EXCEPT ![d].tmrs = tmrRestart(@, "refNu", refKeepTime)]
        /\ UNCHANGED <<newRef, sch, net, userVars>>
  BY DEF PerformerLateInvoke
<1>2. d \in Desc
  BY <1>1, PduInNet DEF Duplicates, Desc
<1> QED
  BY <1>1, <1>2, RefWaitServed

\* The RESULT or ERROR PDU that was kept is the performing user's answer.
LEMMA SendKeptOwn ==
    ASSUME TypeInv, NEW num, OwnInv(num), NEW d \in Desc,
           inv[d].state \in PerformerState, inv[d].state # "free",
           NEW ok, net' = SendKeptResult(d, net, ok), answer' = answer
    PROVE  \A m \in net' : \/ m \in net
                           \/ /\ m.type # "INVOKE" /\ OwnPdu(m, num)'
                              /\ m.ttl <= MaxNSDULifeTime
<1>1. CASE inv[d].resultPdu = <<>>
  BY <1>1 DEF SendKeptResult
<1>2. CASE inv[d].resultPdu # <<>>
  <2>1. PICK q \in Seq(Payload) : q = inv[d].resultPdu
    BY InUse
  <2>2. Head(q) = q[1] /\ 1 \in 1 .. Len(q)
    BY <1>2, <2>1
  <2>3. PICK op \in Op : op = inv[d].userRef
    BY InUse
  <2>4. OwnInfo(inv[d], d[1], num)
    BY DEF OwnInv
  <2>5. q[1].op = op /\ q[1].kind \in answer[op]
    BY <2>1, <2>2, <2>3, <2>4 DEF OwnInfo, OwnPerformer
  <2>6. PICK kind \in {"result", "error"} : kind = q[1].kind
    BY <2>3, <2>5 DEF TypeInv, TypeOK
  <2>7. PICK p : p = PduOf(d[1], inv[d], ResultType(kind), op)
    OBVIOUS
  <2>8. \A m \in net' : m \in net \/ m = p
    BY <1>2, <2>1, <2>2, <2>5, <2>6, <2>7 DEF SendKeptResult, Send
  <2>9. p.type # "INVOKE"
    BY <2>7 DEF PduOf, ResultType
  <2>10. OwnPdu(p, num)' /\ p.ttl = MaxNSDULifeTime
    BY <2>3, <2>5, <2>6, <2>7, PduOfOwn
  <2> QED
    BY <2>8, <2>9, <2>10, NumberAssumption
<1> QED
  BY <1>1, <1>2

\* tr_clPerformer06 and tr_2clPerformer05.
LEMMA AnswerAgainServed ==
    ASSUME TypeInv, NEW num, Served(num), MaxNSDULifeTime >= 1,
           NEW m \in net, NEW state \in AnswerState, AnswerAgain(m, state)
    PROVE  Served(num)'
<1>1. PICK ok \in SendOutcome, d \in Duplicates(m) :
        /\ inv[d].state = state
        /\ \/ inv' = inv
           \/ inv' = [inv EXCEPT ![d].tmrs =
                        tmrRestart(@, "resultPduRetran", retransTimeout)]
        /\ net' = SendKeptResult(d, net, ok)
        /\ UNCHANGED <<newRef, sch, userVars>>
  BY DEF AnswerAgain
<1>2. d \in Desc /\ inv[d].state # "free" /\ inv[d].state \in PerformerState
  BY <1>1, PduInNet DEF Duplicates, Desc, AnswerState, PerformerState
<1>3. \A p \in net' : \/ p \in net
                      \/ /\ p.type # "INVOKE" /\ OwnPdu(p, num)'
                         /\ p.ttl <= MaxNSDULifeTime
  BY <1>1, <1>2, SendKeptOwn DEF Served, userVars
<1>4. CASE inv' = inv
  <2>1. inv' = [inv EXCEPT ![d].tmrs = inv[d].tmrs]
    BY <1>4 DEF TypeInv, TypeOK, InvokeInfo
  <2> QED
    BY <1>1, <1>2, <1>3, <2>1, InUse, RetimeServed
<1>5. CASE inv' = [inv EXCEPT ![d].tmrs =
                     tmrRestart(@, "resultPduRetran", retransTimeout)]
  <2>1. PICK ts : ts = tmrRestart(inv[d].tmrs, "resultPduRetran", retransTimeout)
    OBVIOUS
  <2>2. ts \in Timers
    <3>1. "resultPduRetran" \in TimerName /\ 0 \in Nat /\ retransTimeout \in Nat
      BY DelaysTyped DEF TimerName
    <3> QED
      BY <1>2, <2>1, <3>1, InUse, TimersTyped
  <2>3. \A t \in ts : \/ t \in inv[d].tmrs
                      \/ /\ t.name = "resultPduRetran"
                         /\ t.left = retransTimeout /\ t.datum = 0
    BY <2>1, RestartedOnly
  <2>4. PICK op \in Op : op = inv[d].userRef
    BY <1>2, InUse
  <2>5. ASSUME NEW t, t.name = "resultPduRetran", t.left = retransTimeout,
               t.datum = 0
        PROVE  KeptTimer(inv[d].state, op, t)
    <3>1. Within(op, Horizon)
      BY DEF Served, KeptInv
    <3>2. PICK long \in Int :
            /\ long = retransTimeout + RetransmitCount * retransTimeout
                        + rwait + refKeepTime
            /\ Horizon <= long /\ Horizon \in Int
      BY LongEnough
    <3>3. Within(op, long)
      BY <3>1, <3>2, WithinLonger
    <3>4. /\ t.left + (RetransmitCount - t.datum) * retransTimeout
               + rwait + refKeepTime = long
          /\ t.datum <= RetransmitCount
      BY <2>5, <3>2, NumberAssumption
    <3> QED
      BY <1>1, <2>5, <3>3, <3>4 DEF KeptTimer, AnswerState
  <2>6. \A t \in ts : \/ t \in inv[d].tmrs
                      \/ /\ t.name # "invokePduRetran"
                         /\ KeptTimer(inv[d].state, inv[d].userRef, t)
    BY <2>3, <2>4, <2>5
  <2>7. inv' = [inv EXCEPT ![d].tmrs = ts]
    BY <1>5, <2>1
  <2> QED
    BY <1>1, <1>2, <1>3, <2>2, <2>6, <2>7, RetimeServed
<1> QED
  BY <1>1, <1>4, <1>5

\* A user that holds a descriptor, or is about to, has it for an InvokeInfo
\* that serves the operation.
LEMMA PendingServes ==
    ASSUME TypeInv, LiveInv, NEW num, OwnInv(num), NEW d \in Desc,
           NEW op \in Op, Pending(d, op)
    PROVE  Serves(d, op)
<1>1. inv[d].userRef = op
  BY DEF OwnInv
<1>2. d[1] \in Node /\ d = <<d[1], d[2]>>
  BY DEF Desc
<1>3. CASE work[d] = op
  BY <1>1, <1>3, NoValueAssumption
  DEF LiveInv, HeldDescLive, Serves, PerformerState
<1>4. CASE work[d] # op
  <2>1. PICK i \in 1 .. Len(sch[d[1]]) :
          sch[d[1]][i].kind = "invokeInd" /\ sch[d[1]][i].slot = d[2]
    BY <1>4 DEF Pending
  <2>2. Awaited(d)
    BY <1>2, <2>1 DEF LiveInv, QueueLive, TaskLive
  <2> QED
    BY <1>1, <2>2 DEF Awaited, Serves, PerformerState
<1> QED
  BY <1>3, <1>4

\* What the performing user's answer changes, whether it is waited for or not.
AnswerTaken(d, op, kind) ==
    /\ op \in Op /\ Serves(d, op) /\ exec[op] = 1
    /\ answer'[op] = {kind}
    /\ \A o \in Op : o # op => answer'[o] = answer[o]
    /\ \A o \in Op : answer[o] \subseteq answer'[o]
    /\ \A o \in Op : Fulfilled(o) => Fulfilled(o)'
    /\ NoNewPending
    /\ \A e \in Desc : \A o \in Op : Pending(e, o)' => answer'[o] = {}

\* It was the only one, and answers nothing else.
LEMMA AnswerGiven ==
    ASSUME TypeInv, LiveInv, NEW num, Served(num), NEW d \in Desc, NEW kind,
           work[d] # NoOp, work' = [work EXCEPT ![d] = NoOp], sch' = sch,
           answer' = [answer EXCEPT ![work[d]] = @ \cup {kind}], ind' = ind,
           NEW op, op = work[d]
    PROVE  AnswerTaken(d, op, kind)
<1>1. op \in Op
  BY DEF TypeInv, TypeOK
<1>2. Pending(d, op)
  BY DEF Pending
<1>3. Serves(d, op)
  BY <1>1, <1>2, PendingServes DEF Served
<1>4. exec[op] = 1
  BY <1>3 DEF Served, KeptInv, Serves
<1>5. answer[op] = {}
  BY <1>1, <1>2 DEF Served, AnswersInv
<1>6. /\ answer'[op] = {kind}
      /\ \A o \in Op : o # op => answer'[o] = answer[o]
  BY <1>1, <1>5 DEF TypeInv, TypeOK
<1>7. \A o \in Op : answer[o] \subseteq answer'[o]
  BY <1>5, <1>6
<1>8. \A o \in Op : Fulfilled(o) => Fulfilled(o)'
  BY <1>7 DEF Fulfilled
<1>9. ASSUME NEW e \in Desc, NEW o \in Op, Pending(e, o)'
      PROVE  e # d /\ Pending(e, o)
  <2>1. CASE e = d
    <3>1. work'[d] = NoOp
      BY DEF TypeInv, TypeOK
    <3>2. PICK i \in 1 .. Len(sch[d[1]]) :
            sch[d[1]][i].kind = "invokeInd" /\ sch[d[1]][i].slot = d[2]
      BY <1>9, <2>1, <3>1, NoValueAssumption DEF Pending
    <3>3. d[1] \in Node /\ d = <<d[1], d[2]>>
      BY DEF Desc
    <3> QED
      BY <3>2, <3>3 DEF LiveInv, QueueLive, TaskLive
  <2>2. CASE e # d
    BY <1>9, <2>2 DEF Pending, TypeInv, TypeOK
  <2> QED
    BY <2>1, <2>2
<1>10. ASSUME NEW e \in Desc, NEW o \in Op, Pending(e, o)'
       PROVE  answer'[o] = {}
  <2>1. Serves(e, o) /\ e # d
    BY <1>9, <1>10, PendingServes DEF Served
  <2>2. o # op
    BY <1>1, <1>3, <2>1 DEF Served, KeptInv, ServerDistinct
  <2> QED
    BY <1>6, <1>9, <1>10, <2>2 DEF Served, AnswersInv
<1>11. NoNewPending
  BY <1>9 DEF NoNewPending
<1> QED
  BY <1>1, <1>3, <1>4, <1>6, <1>7, <1>8, <1>10, <1>11 DEF AnswerTaken

\* An answer nobody waits for: the descriptor is about to be voided.
LEMMA ResultReqIgnoredServed ==
    ASSUME TypeInv, LiveInv, NEW num, Served(num), NEW d \in Desc,
           NEW kind \in Reply, ResultReqIgnored(d, kind)
    PROVE  Served(num)'
<1>1. PICK op : op = work[d]
  OBVIOUS
<1>2. /\ work[d] # NoOp /\ work' = [work EXCEPT ![d] = NoOp]
      /\ answer' = [answer EXCEPT ![work[d]] = @ \cup {kind}]
      /\ UNCHANGED <<inv, newRef, sch, net, asked, ind, exec, cnf>>
      /\ sch' = sch /\ ind' = ind
  BY DEF ResultReqIgnored
<1>3. AnswerTaken(d, op, kind)
  BY <1>1, <1>2, AnswerGiven
<1>4. inv[d].state = "CLPerformerStart"
  BY DEF ResultReqIgnored, LiveInv, HeldDescLive
<1>5. OwnInv(num)'
  <2>1. Numbered(num)'
    BY <1>2 DEF Served, OwnInv, Numbered
  <2>2. ASSUME NEW e \in Desc PROVE OwnInfo(inv[e], e[1], num)'
    <3>1. OwnInfo(inv[e], e[1], num)
      BY DEF Served, OwnInv
    <3>2. inv[e].state # "free" => inv[e].userRef \in Op
      BY RoleOf DEF Served
    <3>3. inv[e].state \in InvokerState \cup PerformerState => inv[e].state # "free"
      BY DEF InvokerState, PerformerState
    <3> QED
      BY <1>2, <1>3, <3>1, <3>2, <3>3 DEF OwnInfo, OwnInvoker, OwnPerformer, AnswerTaken
  <2>3. ASSUME NEW m \in net PROVE OwnPdu(m, num)'
    <3>1. OwnPdu(m, num)
      BY DEF Served, OwnInv
    <3>2. m.type \in OpPdu => m.op \in Op
      BY DEF TypeInv, PduTyped
    <3> QED
      BY <1>3, <3>1, <3>2 DEF OwnPdu, OpPdu, ResultType, AnswerTaken
  <2> QED
    BY <1>2, <1>3, <2>1, <2>2, <2>3 DEF Served, OwnInv, NoNewPending, AnswerTaken
<1>6. KeptInv'
  <2>1. WithinKept
    BY <1>2, CalmWithin DEF Open
  <2> QED
    BY <1>2, <2>1, SameTableKept DEF Served
<1>7. AnswersInv'
  <2>1. ASSUME NEW e \in Desc, inv[e].state \in AnswerState
        PROVE  answer'[inv[e].userRef] = {inv[e].isResult}
    <3>1. e # d /\ inv[e].state # "free" /\ inv[e].state \in PerformerState
      BY <1>4, <2>1 DEF AnswerState, PerformerState
    <3>2. inv[e].userRef \in Op
      BY <3>1, RoleOf DEF Served
    <3>3. inv[e].userRef # op
      BY <1>3, <3>1 DEF Served, KeptInv, ServerDistinct, Serves, AnswerTaken
    <3> QED
      BY <1>3, <2>1, <3>2, <3>3 DEF Served, AnswersInv, AnswerTaken
  <2>2. \A o \in Op : exec[o] = 0 => answer'[o] = {} /\ cnf[o] = <<>>
    BY <1>3 DEF Served, AnswersInv, AnswerTaken
  <2> QED
    BY <1>2, <1>3, <2>1, <2>2 DEF Served, AnswersInv, AnswerTaken
<1> QED
  BY <1>5, <1>6, <1>7 DEF Served

\* EROP_invokeReq that is refused.
LEMMA InvokeReqRefusedServed ==
    ASSUME TypeInv, OnceInv, NEW num, Served(num), NEW op \in Op,
           InvokeReqRefused(op)
    PROVE  Served(num)'
<1>1. /\ asked \subseteq asked' /\ op \notin asked
      /\ UNCHANGED <<inv, newRef, sch, net, exec, work, answer, cnf>>
  BY DEF InvokeReqRefused
<1>2. \A o \in Op : Fulfilled(o) => Fulfilled(o)'
  <2>1. \A o \in Op : o # op => ind'[o] = ind[o]
    BY DEF InvokeReqRefused, TypeInv, TypeOK
  <2>2. ~ Fulfilled(op)
    <3>1. ind[op] = <<>>
      BY <1>1 DEF OnceInv, UnaskedUntold
    <3>2. \A out : <<>> # <<out>>
      OBVIOUS
    <3> QED
      BY <3>1, <3>2, Zenon DEF Fulfilled
  <2> QED
    BY <1>1, <2>1, <2>2 DEF Fulfilled
<1>3. NoNewPending
  BY <1>1, SamePending
<1>4. OwnInv(num)'
  <2>1. Numbered(num)'
    BY <1>1 DEF Served, OwnInv, Numbered
  <2>2. ASSUME NEW e \in Desc PROVE OwnInfo(inv[e], e[1], num)'
    <3>1. OwnInfo(inv[e], e[1], num)
      BY DEF Served, OwnInv
    <3>2. inv[e].state # "free" => inv[e].userRef \in Op
      BY RoleOf DEF Served
    <3>3. inv[e].state \in InvokerState => inv[e].state # "free"
      BY DEF InvokerState
    <3> QED
      BY <1>1, <1>2, <3>1, <3>2, <3>3 DEF OwnInfo, OwnInvoker, OwnPerformer
  <2>3. ASSUME NEW m \in net PROVE OwnPdu(m, num)'
    <3>1. OwnPdu(m, num)
      BY DEF Served, OwnInv
    <3> QED
      BY <1>1, <1>2, <3>1 DEF OwnPdu
  <2> QED
    BY <1>1, <1>3, <2>1, <2>2, <2>3 DEF Served, OwnInv, NoNewPending
<1>5. KeptInv'
  <2>1. WithinKept
    BY <1>1, CalmWithin DEF Open
  <2> QED
    BY <1>1, <2>1, SameTableKept DEF Served
<1>6. AnswersInv'
  BY <1>1, <1>3 DEF Served, AnswersInv, NoNewPending
<1> QED
  BY <1>4, <1>5, <1>6 DEF Served

\* The timer that is started with an answer in a state: it outlasts every
\* INVOKE PDU of the operation.
LongTimer(next, timer, delay) ==
    \A op \in Op : \A t :
        Within(op, Horizon) /\ t.name = timer /\ t.left = delay /\ t.datum = 0
        => KeptTimer(next, op, t)

\* The number of an operation that awaits its answer is free to be kept.
LEMMA OwnNumberKept ==
    ASSUME TypeInv, NEW num, Served(num), NEW d \in Desc,
           inv[d].state = "InvokePduReceived"
    PROVE  refKeepOk(d)
<1> SUFFICES ASSUME NEW e \in Desc, e[1] = d[1],
                    inv[e].refMap = "performer",
                    inv[e].ref = inv[d].ref, inv[e].rem = inv[d].rem
             PROVE  FALSE
  BY DEF refKeepOk, refToPerformer, Mapped, Desc
<1>1. \A c \in {d, e} : /\ inv[c].state \in PerformerState
                        /\ inv[c].state # "free" /\ inv[c].userRef \in Op
  BY RoleOf DEF Served, PerformerState
<1>2. \A c \in {d, e} : /\ inv[c].ref = num[inv[c].userRef]
                        /\ inv[c].ref # NoRef
                        /\ inv[c].rem = From[inv[c].userRef]
  BY <1>1 DEF Served, OwnInv, OwnInfo, OwnPerformer
<1>3. inv[d].userRef = inv[e].userRef
  BY <1>1, <1>2 DEF Served, OwnInv, Numbered
<1>4. d = e
  BY <1>1, <1>3 DEF Served, KeptInv, ServerDistinct, Serves
<1> QED
  BY <1>4 DEF Served, AnswersInv

\* tr_clPerformer02 and tr_2clPerformer03.
LEMMA AnswerSentServed ==
    ASSUME TypeInv, LiveInv, NEW num, Served(num), NEW d \in Desc,
           NEW kind \in Reply, NEW next \in AnswerState,
           NEW timer \in TimerName \ {"perfNoResponse"}, NEW delay \in Nat,
           LongTimer(next, timer, delay),
           AnswerSent(d, kind, next, timer, delay)
    PROVE  Served(num)'
<1>1. PICK op : op = work[d]
  OBVIOUS
<1>2. /\ work[d] # NoOp /\ work' = [work EXCEPT ![d] = NoOp]
      /\ answer' = [answer EXCEPT ![work[d]] = @ \cup {kind}]
      /\ UNCHANGED <<newRef, sch, asked, ind, exec, cnf>>
      /\ sch' = sch /\ ind' = ind
      /\ inv[d].state = "InvokePduReceived"
  BY DEF AnswerSent
<1>3. AnswerTaken(d, op, kind)
  BY <1>1, <1>2, AnswerGiven
<1>4. op \in Op /\ op = inv[d].userRef /\ inv[d].state \in PerformerState
  BY <1>3 DEF AnswerTaken, Serves
<1>5. PICK p : p = PduOf(d[1], inv[d], ResultType(kind), op)
  OBVIOUS
<1>6. kind \in {"result", "error"} /\ kind \in answer'[op]
  BY <1>3, ShapeAssumption DEF AnswerTaken
<1>7. p.type # "INVOKE" /\ OwnPdu(p, num)' /\ p.ttl = MaxNSDULifeTime
  <2>1. p.type # "INVOKE"
    BY <1>5 DEF PduOf, ResultType
  <2> QED
    BY <1>2, <1>4, <1>5, <1>6, <2>1, PduOfOwn DEF Served
<1>8. inv[d] \in InvokeInfo /\ inv[d].resultPdu \in Seq(Payload) /\ inv[d].tmrs \in Timers
  BY <1>2, InUse
<1> DEFINE new == [inv[d] EXCEPT !.state = next, !.isResult = kind]
           kept == [new EXCEPT
                      !.refMap = "performer",
                      !.resultPdu = pduKeep(@, [kind |-> kind, op |-> work[d]]),
                      !.tmrs = tmrCancel(tmrCreate(@, timer, delay, 0),
                                         "perfNoResponse")]
           said == [kind |-> kind, op |-> op]
<1>9. \/ inv' = [inv EXCEPT ![d] = new] /\ net' = net
      \/ /\ inv' = [inv EXCEPT ![d] = kept]
         /\ \A m \in net' : m \in net \/ m = p
  <2>1. PduOf(d[1], new, ResultType(kind), work[d]) = p
    BY <1>1, <1>5, <1>8 DEF PduOf, InvokeInfo
  <2> QED
    BY <2>1 DEF AnswerSent, Send
<1>10. /\ new.state = next /\ new.isResult = kind /\ new.userRef = op
       /\ new.sap = inv[d].sap /\ new.rem = inv[d].rem
       /\ new.ref = inv[d].ref /\ new.refMap # "invoker"
       /\ new.resultPdu = inv[d].resultPdu /\ new.tmrs = inv[d].tmrs
  <2>1. inv[d].refMap # "invoker"
    BY <1>4, RoleOf DEF Served
  <2> QED
    BY <1>4, <1>8, <2>1 DEF InvokeInfo
<1>11. /\ kept.state = next /\ kept.isResult = kind /\ kept.userRef = op
       /\ kept.sap = inv[d].sap /\ kept.rem = inv[d].rem
       /\ kept.ref = inv[d].ref /\ kept.refMap # "invoker"
       /\ kept.resultPdu = Append(inv[d].resultPdu, said)
       /\ kept.tmrs = tmrCancel(tmrCreate(inv[d].tmrs, timer, delay, 0),
                                "perfNoResponse")
  BY <1>1, <1>4, <1>8 DEF InvokeInfo, pduKeep
<1> HIDE DEF new, kept, said
<1>12. PICK u : /\ u = new \/ u = kept
                /\ inv'[d] = u /\ \A e \in Desc : e # d => inv'[e] = inv[e]
  BY <1>9, Updated
<1>13. PICK rp : rp = u.resultPdu
  OBVIOUS
<1>14. /\ inv'[d] = u /\ \A e \in Desc : e # d => inv'[e] = inv[e]
       /\ u.state = next /\ u.isResult = kind /\ u.userRef = op
       /\ u.sap = inv[d].sap /\ u.rem = inv[d].rem
       /\ u.ref = inv[d].ref /\ u.refMap # "invoker" /\ u.resultPdu = rp
       /\ rp = inv[d].resultPdu \/ rp = Append(inv[d].resultPdu, said)
       /\ \/ u.tmrs = inv[d].tmrs
          \/ u.tmrs = tmrCancel(tmrCreate(inv[d].tmrs, timer, delay, 0),
                                "perfNoResponse")
  BY <1>10, <1>11, <1>12, <1>13
<1>15. \A m \in net' : m \in net \/ m = p
  BY <1>9
<1>16. /\ next \in PerformerState /\ next \notin InvokerState /\ next # "free"
       /\ next # "InvokePduReceived"
  BY DEF AnswerState, PerformerState, InvokerState
<1>17. OwnInv(num)'
  <2>1. Numbered(num)'
    BY <1>2 DEF Served, OwnInv, Numbered
  <2>2. OwnInfo(inv[d], d[1], num)'
    <3>1. OwnInfo(inv[d], d[1], num)
      BY DEF Served, OwnInv
    <3>2. OwnPerformer(inv[d], d[1])
      BY <1>4, <3>1 DEF OwnInfo
    <3>3. \A i \in 1 .. Len(rp) : rp[i].op = op /\ rp[i].kind \in answer'[op]
      <4>1. \A i \in 1 .. Len(inv[d].resultPdu) :
              /\ inv[d].resultPdu[i].op = op
              /\ inv[d].resultPdu[i].kind \in answer'[op]
        BY <1>3, <1>4, <3>2 DEF OwnPerformer, AnswerTaken
      <4>2. CASE rp = Append(inv[d].resultPdu, said)
        <5>1. PICK q \in Seq(Payload) : q = inv[d].resultPdu
          BY <1>8
        <5>2. said.op = op /\ said.kind = kind
          BY DEF said
        <5>3. \A i \in 1 .. Len(rp) :
                (i \in 1 .. Len(q) /\ rp[i] = q[i]) \/ rp[i] = said
          BY <4>2, <5>1
        <5> QED
          BY <1>6, <4>1, <5>1, <5>2, <5>3
      <4> QED
        BY <1>14, <4>1, <4>2
    <3>4. inv[d].ref = num[op] /\ inv[d].ref # NoRef
      BY <1>2, <1>4, <3>1 DEF OwnInfo
    <3>5. OwnPerformer(inv[d], d[1])'
      BY <1>4, <1>14, <3>2, <3>3 DEF OwnPerformer
    <3> QED
      BY <1>14, <1>16, <3>4, <3>5 DEF OwnInfo
  <2>3. ASSUME NEW e \in Desc, e # d PROVE OwnInfo(inv[e], e[1], num)'
    <3>1. OwnInfo(inv[e], e[1], num)
      BY DEF Served, OwnInv
    <3>2. inv[e].state # "free" => inv[e].userRef \in Op
      BY RoleOf DEF Served
    <3>3. inv[e].state \in InvokerState \cup PerformerState => inv[e].state # "free"
      BY DEF InvokerState, PerformerState
    <3> QED
      <4>1. PICK u0 : u0 = inv[e]
        OBVIOUS
      <4>2. inv'[e] = u0
        BY ONLY <1>14, <2>3, <4>1
      <4>3. /\ \A o \in Op : answer[o] \subseteq answer'[o]
            /\ \A o \in Op : Fulfilled(o) => Fulfilled(o)'
        BY <1>3 DEF AnswerTaken
      <4>4. OwnInfo(u0, e[1], num) /\ (u0.state # "free" => u0.userRef \in Op)
        BY ONLY <3>1, <3>2, <4>1
      <4>5. u0.state \in InvokerState \/ u0.state \in PerformerState
            => u0.userRef \in Op
        BY ONLY <3>3, <4>1, <4>4
      <4>6. ASSUME u0.state \in InvokerState PROVE OwnInvoker(u0, e[1])'
        BY ONLY <4>3, <4>4, <4>5, <4>6 DEF OwnInfo, OwnInvoker
      <4>7. ASSUME u0.state \in PerformerState PROVE OwnPerformer(u0, e[1])'
        BY ONLY <4>3, <4>4, <4>5, <4>7 DEF OwnInfo, OwnPerformer
      <4>8. OwnInfo(u0, e[1], num)'
        BY ONLY <4>4, <4>6, <4>7 DEF OwnInfo
      <4> QED
        BY ONLY <4>2, <4>8
  <2>4. ASSUME NEW m \in net' PROVE OwnPdu(m, num)'
    <3>1. CASE m = p
      BY <1>7, <3>1
    <3>2. CASE m \in net
      <4>1. OwnPdu(m, num)
        BY <3>2 DEF Served, OwnInv
      <4>2. m.type \in OpPdu => m.op \in Op
        BY <3>2 DEF TypeInv, PduTyped
      <4> QED
        BY <1>3, <4>1, <4>2 DEF OwnPdu, OpPdu, ResultType, AnswerTaken
    <3> QED
      BY <1>15, <3>1, <3>2
  <2>5. \A e \in Desc : inv'[e].userRef = inv[e].userRef
    BY <1>4, <1>14
  <2>6. \A e \in Desc : \A o \in Op : Pending(e, o)' => o = inv'[e].userRef
    BY <1>3, <2>5 DEF AnswerTaken, NoNewPending, Served, OwnInv
  <2> QED
    BY <2>1, <2>2, <2>3, <2>4, <2>6 DEF OwnInv
<1>18. WithinKept
  <2>1. \A m \in net' : m.type = "INVOKE" => m \in net
    BY <1>7, <1>15
  <2>2. \A e \in Desc : Open(e)' => e # d /\ inv'[e] = inv[e] /\ Open(e)
    BY <1>14, <1>16 DEF Open, InvokerState
  <2> QED
    BY <2>1, <2>2, CalmWithin
<1>19. Kept(u)'
  <2>1. KeptState(next, op)'
    BY DEF KeptState, AnswerState
  <2>2. ASSUME NEW t \in u.tmrs PROVE KeptTimer(next, op, t)'
    <3>1. Within(op, Horizon)
      BY <1>4 DEF Served, KeptInv
    <3>2. KeptTimer(next, op, t)
      <4>1. CASE t \in inv[d].tmrs
        <5>1. Kept(inv[d])
          BY <1>4 DEF Served, KeptInv
        <5>2. t.name = "perfNoResponse"
          BY <1>2, <4>1, <5>1 DEF Kept, KeptTimer
        <5> QED
          BY <1>16, <5>2 DEF KeptTimer, AnswerState
      <4>2. CASE t \notin inv[d].tmrs
        <5>1. t \in tmrCreate(inv[d].tmrs, timer, delay, 0)
          BY <1>14, <2>2, <4>2 DEF tmrCancel
        <5>2. t.name = timer /\ t.left = delay /\ t.datum = 0
          BY <4>2, <5>1, CreatedOnly
        <5> QED
          BY <1>4, <3>1, <5>2 DEF LongTimer
      <4> QED
        BY <4>1, <4>2
    <3>3. t \in [name : TimerName, datum : Nat, left : Nat]
      <4>1. tmrCreate(inv[d].tmrs, timer, delay, 0) \in Timers
        BY <1>8, TimersTyped
      <4>2. t \in inv[d].tmrs \/ t \in tmrCreate(inv[d].tmrs, timer, delay, 0)
        BY <1>14, <2>2 DEF tmrCancel
      <4> QED
        BY <1>8, <4>1, <4>2 DEF Timers
    <3> QED
      BY <1>4, <1>18, <3>2, <3>3, KeptLater DEF WithinKept
  <2> QED
    BY <1>14, <2>1, <2>2 DEF Kept
<1>20. KeptInv'
  <2>1. \A e \in Desc : \A o \in Op : Serves(e, o)' <=> Serves(e, o)
    BY <1>4, <1>14, <1>16 DEF Serves
  <2>2. \A m \in net' : m.ttl <= MaxNSDULifeTime
    BY <1>7, <1>15, NumberAssumption DEF Served, KeptInv
  <2>3. \A o \in Op : Within(o, Horizon)'
    <3>1. Horizon \in Int
      BY DelaysTyped, NumberAssumption DEF Horizon
    <3> QED
      BY <1>18, <3>1 DEF Served, KeptInv, WithinKept
  <2>4. ExecOnce'
    BY <1>2, <1>18, <2>1 DEF Served, KeptInv, ExecOnce, WithinKept
  <2>5. ASSUME NEW e \in Desc, inv'[e].state \in PerformerState
        PROVE  exec'[inv'[e].userRef] = 1 /\ Kept(inv[e])'
    <3>1. CASE e = d
      BY <1>2, <1>3, <1>14, <1>19, <3>1 DEF AnswerTaken
    <3>2. CASE e # d
      <4>1. PICK v \in InvokeInfo : v = inv[e]
        BY DEF TypeInv, TypeOK
      <4>2. inv'[e] = v /\ v.state \in PerformerState /\ v.state # "free"
        BY <1>14, <2>5, <3>2, <4>1 DEF PerformerState
      <4>3. v.userRef \in Op /\ Kept(v) /\ exec[v.userRef] = 1
        BY <4>1, <4>2, RoleOf DEF Served, KeptInv
      <4>4. Kept(v)'
        BY <1>18, <4>3, SameKept DEF WithinKept
      <4> QED
        BY <1>2, <4>2, <4>3, <4>4
    <3> QED
      BY <3>1, <3>2
  <2>6. ServerDistinct'
    BY <2>1 DEF Served, KeptInv, ServerDistinct
  <2> QED
    BY <2>2, <2>3, <2>4, <2>5, <2>6 DEF KeptInv
<1>21. AnswersInv'
  <2>1. cnf[op] = <<>>
    BY <1>2, <1>4 DEF Served, AnswersInv
  <2>2. ASSUME NEW e \in Desc, inv'[e].state \in {"InvokePduReceived"} \cup AnswerState
        PROVE  cnf'[inv'[e].userRef] = <<>>
    BY <1>2, <1>14, <2>1, <2>2 DEF Served, AnswersInv
  <2>3. ASSUME NEW e \in Desc, inv'[e].state \in AnswerState
        PROVE  answer'[inv'[e].userRef] = {inv'[e].isResult}
    <3>1. CASE e = d
      BY <1>3, <1>14, <3>1 DEF AnswerTaken
    <3>2. CASE e # d
      <4>1. /\ inv'[e] = inv[e] /\ inv[e].state # "free"
            /\ inv[e].state \in PerformerState
        BY <1>14, <2>3, <3>2 DEF AnswerState, PerformerState
      <4>2. inv[e].userRef \in Op
        BY <4>1, RoleOf DEF Served
      <4>3. inv[e].userRef # op
        BY <1>3, <3>2, <4>1 DEF Served, KeptInv, ServerDistinct, Serves, AnswerTaken
      <4>4. answer[inv[e].userRef] = {inv[e].isResult}
        BY <2>3, <4>1 DEF Served, AnswersInv
      <4>5. answer'[inv[e].userRef] = answer[inv[e].userRef]
        BY <1>3, <4>2, <4>3 DEF AnswerTaken
      <4> QED
        BY <4>1, <4>4, <4>5
    <3> QED
      BY <3>1, <3>2
  <2>4. \A o \in Op : exec[o] = 0 => answer'[o] = {} /\ cnf[o] = <<>>
    BY <1>3 DEF Served, AnswersInv, AnswerTaken
  <2>5. u.refMap = "performer"
    <3>1. refKeepOk(d)
      BY <1>2, OwnNumberKept
    <3>2. inv' = [inv EXCEPT ![d] = kept]
      BY <3>1 DEF AnswerSent, new, kept
    <3>3. inv'[d] = kept
      BY <3>2, Updated
    <3>4. kept.refMap = "performer"
      BY <1>8 DEF kept, new, InvokeInfo
    <3> QED
      BY <1>14, <3>3, <3>4
  <2>6. ASSUME NEW e \in Desc
        PROVE  /\ inv'[e].state = "InvokePduReceived" => inv'[e].refMap = "none"
               /\ inv'[e].state \in AnswerState => inv'[e].refMap # "none"
    BY <1>14, <1>16, <2>5 DEF Served, AnswersInv
  <2> QED
    BY <1>2, <1>3, <2>2, <2>3, <2>4, <2>6 DEF AnswersInv, AnswerTaken
<1> QED
  BY <1>17, <1>20, <1>21 DEF Served

\* tr_clPerformer01: the operation was not performed before, as its INVOKE PDU
\* is still about and no InvokeInfo serves it.
LEMMA FirstPerformed ==
    ASSUME TypeInv, LiveInv, NEW num, Served(num), NEW m \in net,
           PerformerInvoke(m)
    PROVE  /\ m.op \in Op /\ m.op \in asked /\ exec[m.op] = 0
           /\ \A e \in Desc : ~ Serves(e, m.op)
<1>1. m.type = "INVOKE" /\ sch[m.dst] = <<>> /\ m.dst \in Node
  BY PduInNet DEF PerformerInvoke, Receive
<1>2. m.op \in Op
  BY <1>1 DEF TypeInv, PduTyped, OpPdu
<1>3. m.op \in asked
  <2>1. OwnPdu(m, num)
    BY DEF Served, OwnInv
  <2> QED
    BY <1>1, <1>2, <2>1 DEF OwnPdu, Served, OwnInv, Numbered
<1>4. Duplicates(m) = {}
  <2> SUFFICES ASSUME Duplicates(m) # {} PROVE FALSE
    OBVIOUS
  <2>1. PICK e \in Duplicates(m) : inv[e].state = "CLPerformerStart"
    BY DEF PerformerInvoke
  <2>2. e \in Desc /\ e[1] = m.dst
    BY <1>1, <2>1 DEF Duplicates, Desc
  <2> QED
    BY <1>1, <2>1, <2>2 DEF LiveInv, StartReleased, Releasing, StartState
<1>5. \A e \in Desc : ~ Serves(e, m.op)
  BY <1>1, <1>4, FindPerformer DEF Served
<1>6. exec[m.op] = 0
  <2>1. exec[m.op] \in {0, 1} /\ (exec[m.op] = 1 => Within(m.op, 0))
    BY <1>2, <1>5 DEF Served, KeptInv, ExecOnce
  <2>2. ~ Within(m.op, 0)
    <3>1. m.ttl \in Nat
      BY PduInNet DEF Pdu
    <3> QED
      BY <1>1, <3>1 DEF Within
  <2> QED
    BY <2>1, <2>2
<1> QED
  BY <1>2, <1>3, <1>5, <1>6

\* Its InvokeInfo is kept as long as the invoker may go on asking.
LEMMA PerformerInvokeServed ==
    ASSUME TypeInv, LiveInv, NEW num, Served(num), MaxNSDULifeTime >= 1,
           NEW m \in net, PerformerInvoke(m)
    PROVE  Served(num)'
<1>1. PICK d \in Desc :
        /\ d[1] = m.dst /\ sch[d[1]] = <<>> /\ inv[d].state = "free"
        /\ inv' = [inv EXCEPT ![d] =
             [inv[d] EXCEPT
                !.state = "InvokePduReceived", !.sap = m.sap,
                !.rem = m.src, !.ref = m.ref, !.userRef = m.op,
                !.tmrs = tmrCreate(inv[d].tmrs, "perfNoResponse",
                                   perfNoResponse, 0)]]
        /\ Submit(d[1], <<TaskFor(d, "invokeInd", m.op)>>)
  BY FreshPerformer
<1>2. PICK op \in Op :
        /\ op = m.op /\ op \in asked /\ exec[op] = 0
        /\ \A e \in Desc : ~ Serves(e, op)
  BY FirstPerformed
<1>3. /\ UNCHANGED <<newRef, net, asked, ind, work, answer, cnf>>
      /\ exec' = [exec EXCEPT ![op] = @ + 1] /\ m.type = "INVOKE"
  BY <1>2 DEF PerformerInvoke, Receive
<1>4. inv[d] = FreeInfo
  BY <1>1, RoleOf DEF Served
<1>5. PICK u : u = [inv[d] EXCEPT
                      !.state = "InvokePduReceived", !.sap = m.sap,
                      !.rem = m.src, !.ref = m.ref, !.userRef = m.op,
                      !.tmrs = tmrCreate(inv[d].tmrs, "perfNoResponse",
                                         perfNoResponse, 0)]
  OBVIOUS
<1>6. /\ u.state = "InvokePduReceived" /\ u.sap = m.sap /\ u.rem = m.src
      /\ u.ref = m.ref /\ u.userRef = op /\ u.refMap = "none"
      /\ u.resultPdu = <<>>
      /\ u.tmrs = tmrCreate({}, "perfNoResponse", perfNoResponse, 0)
  BY <1>2, <1>4, <1>5 DEF FreeInfo
<1>7. inv'[d] = u /\ \A e \in Desc : e # d => inv'[e] = inv[e]
  BY <1>1, <1>5, Updated
<1>8. \A e \in Desc : \A o \in Op :
        Serves(e, o)' <=> Serves(e, o) \/ (e = d /\ o = op)
  BY <1>1, <1>6, <1>7 DEF Serves, PerformerState
<1>9. ASSUME NEW e \in Desc, NEW o \in Op, Pending(e, o)'
      PROVE  (e = d /\ o = op) \/ (e # d /\ Pending(e, o))
  <2>1. PICK t : t = TaskFor(d, "invokeInd", op)
    OBVIOUS
  <2>2. t.slot = d[2] /\ t.op = op
    BY <2>1 DEF TaskFor
  <2>3. sch'[d[1]] = <<t>> /\ \A n \in Node : n # d[1] => sch'[n] = sch[n]
    <3>1. sch[d[1]] \o <<t>> = <<t>>
      BY <1>1
    <3> QED
      BY <1>1, <1>2, <2>1, <3>1 DEF Submit, TypeInv, TypeOK, Desc
  <2>4. Len(<<t>>) = 1 /\ <<t>>[1] = t /\ d[1] \in Node /\ e[1] \in Node
    BY DEF Desc
  <2>5. e # d /\ e[1] = d[1] => e[2] # d[2]
    BY DEF Desc
  <2>6. work[d] = NoOp
    BY <1>1 DEF LiveInv, HeldDescLive
  <2>7. CASE e[1] = d[1]
    <3>1. work[e] = o \/ (e[2] = d[2] /\ o = op)
      BY <1>3, <1>9, <2>2, <2>3, <2>4, <2>7 DEF Pending
    <3> QED
      BY <2>5, <2>6, <2>7, <3>1, NoValueAssumption DEF Pending
  <2>8. CASE e[1] # d[1]
    BY <1>3, <1>9, <2>3, <2>4, <2>8 DEF Pending
  <2> QED
    BY <2>7, <2>8
<1>10. OwnInv(num)'
  <2>1. Numbered(num)'
    BY <1>3 DEF Served, OwnInv, Numbered
  <2>2. OwnInfo(inv[d], d[1], num)'
    <3>1. OwnPdu(m, num)
      BY DEF Served, OwnInv
    <3>2. /\ m.src = From[op] /\ m.dst = To[op] /\ m.sap = ToSap[op]
          /\ m.ref = num[op] /\ m.ref # NoRef
      BY <1>2, <1>3, <3>1 DEF OwnPdu
    <3>3. OwnPerformer(inv[d], d[1])'
      <4>1. \A i \in 1 .. Len(u.resultPdu) : FALSE
        BY <1>6
      <4>2. /\ u.refMap # "invoker" /\ d[1] = To[u.userRef]
            /\ u.rem = From[u.userRef] /\ u.sap = ToSap[u.userRef]
        BY <1>1, <1>6, <3>2
      <4> QED
        BY <1>7, <4>1, <4>2 DEF OwnPerformer
    <3> QED
      BY <1>6, <1>7, <3>2, <3>3 DEF OwnInfo, InvokerState
  <2>3. ASSUME NEW e \in Desc, e # d PROVE OwnInfo(inv[e], e[1], num)'
    <3>1. OwnInfo(inv[e], e[1], num)
      BY DEF Served, OwnInv
    <3> QED
      BY <1>3, <1>7, <2>3, <3>1 DEF OwnInfo, OwnInvoker, OwnPerformer, Fulfilled
  <2>4. ASSUME NEW p \in net PROVE OwnPdu(p, num)'
    <3>1. OwnPdu(p, num)
      BY DEF Served, OwnInv
    <3> QED
      BY <1>3, <3>1 DEF OwnPdu, Fulfilled
  <2>5. \A e \in Desc : \A o \in Op : Pending(e, o)' => o = inv'[e].userRef
    BY <1>6, <1>7, <1>9 DEF Served, OwnInv
  <2> QED
    BY <1>3, <2>1, <2>2, <2>3, <2>4, <2>5 DEF OwnInv
<1>11. WithinKept
  <2>1. \A e \in Desc : Open(e)' => e # d /\ inv'[e] = inv[e] /\ Open(e)
    BY <1>6, <1>7 DEF Open
  <2> QED
    BY <1>3, <2>1, CalmWithin
<1>12. Kept(u)'
  <2>1. KeptState(u.state, u.userRef)'
    BY <1>6 DEF KeptState
  <2>2. ASSUME NEW t \in u.tmrs PROVE KeptTimer(u.state, u.userRef, t)'
    <3>1. t.name = "perfNoResponse" /\ t.left = perfNoResponse
      BY <1>6, <2>2, CreatedOnly
    <3>2. Within(op, Horizon)
      BY DEF Served, KeptInv
    <3>3. Within(op, perfNoResponse)
      BY <3>2, LongEnough, WithinLonger
    <3>4. Within(op, perfNoResponse)'
      <4>1. perfNoResponse \in Int
        BY DelaysTyped
      <4> QED
        BY <1>11, <3>3, <4>1 DEF WithinKept
    <3> QED
      BY <1>6, <3>1, <3>4 DEF KeptTimer
  <2> QED
    BY <2>1, <2>2 DEF Kept
<1>13. exec'[op] = 1 /\ \A o \in Op : o # op => exec'[o] = exec[o]
  BY <1>2, <1>3 DEF TypeInv, TypeOK
<1>14. KeptInv'
  <2>1. \A o \in Op : Within(o, Horizon)'
    <3>1. Horizon \in Int
      BY DelaysTyped, NumberAssumption DEF Horizon
    <3> QED
      BY <1>11, <3>1 DEF Served, KeptInv, WithinKept
  <2>2. ExecOnce'
    <3>1. ASSUME NEW o \in Op
          PROVE  /\ exec'[o] \in {0, 1} /\ (exec'[o] = 1 => o \in asked')
                 /\ exec'[o] = 1 =>
                      Within(o, 0)' \/ \E e \in Desc : Serves(e, o)'
      <4>1. CASE o = op
        BY <1>2, <1>3, <1>8, <1>13, <4>1
      <4>2. CASE o # op
        BY <1>3, <1>8, <1>11, <1>13, <4>2
        DEF Served, KeptInv, ExecOnce, WithinKept
      <4> QED
        BY <4>1, <4>2
    <3> QED
      BY <3>1 DEF ExecOnce
  <2>3. ASSUME NEW e \in Desc, inv'[e].state \in PerformerState
        PROVE  exec'[inv'[e].userRef] = 1 /\ Kept(inv[e])'
    <3>1. CASE e = d
      BY <1>6, <1>7, <1>12, <1>13, <3>1
    <3>2. CASE e # d
      <4>1. PICK v \in InvokeInfo : v = inv[e]
        BY DEF TypeInv, TypeOK
      <4>2. inv'[e] = v /\ v.state \in PerformerState /\ v.state # "free"
        BY <1>7, <2>3, <3>2, <4>1 DEF PerformerState
      <4>3. v.userRef \in Op /\ Kept(v) /\ exec[v.userRef] = 1
        BY <4>1, <4>2, RoleOf DEF Served, KeptInv
      <4>4. Kept(v)'
        BY <1>11, <4>3, SameKept DEF WithinKept
      <4>5. v.userRef # op
        BY <1>2, <4>3
      <4> QED
        BY <1>13, <4>2, <4>3, <4>4, <4>5
    <3> QED
      BY <3>1, <3>2
  <2>4. ServerDistinct'
    BY <1>2, <1>8 DEF Served, KeptInv, ServerDistinct
  <2> QED
    BY <1>3, <2>1, <2>2, <2>3, <2>4 DEF Served, KeptInv
<1>15. AnswersInv'
  <2>1. answer[op] = {} /\ cnf[op] = <<>>
    BY <1>2 DEF Served, AnswersInv
  <2>2. ASSUME NEW e \in Desc, inv'[e].state \in {"InvokePduReceived"} \cup AnswerState
        PROVE  cnf'[inv'[e].userRef] = <<>>
    BY <1>3, <1>6, <1>7, <2>1, <2>2 DEF Served, AnswersInv
  <2>3. ASSUME NEW e \in Desc, inv'[e].state \in AnswerState
        PROVE  answer'[inv'[e].userRef] = {inv'[e].isResult}
    <3>1. inv'[e] = inv[e]
      BY <1>6, <1>7, <2>3 DEF AnswerState
    <3> QED
      BY <1>3, <2>3, <3>1 DEF Served, AnswersInv
  <2>4. \A e \in Desc : \A o \in Op : Pending(e, o)' => answer'[o] = {}
    BY <1>3, <1>9, <2>1 DEF Served, AnswersInv
  <2>5. \A o \in Op : exec'[o] = 0 => answer'[o] = {} /\ cnf'[o] = <<>>
    BY <1>3, <1>13 DEF Served, AnswersInv
  <2>6. \A e \in Desc :
          /\ inv'[e].state = "InvokePduReceived" => inv'[e].refMap = "none"
          /\ inv'[e].state \in AnswerState => inv'[e].refMap # "none"
    BY <1>6, <1>7 DEF Served, AnswersInv, AnswerState
  <2> QED
    BY <2>2, <2>3, <2>4, <2>5, <2>6 DEF AnswersInv
<1> QED
  BY <1>10, <1>14, <1>15 DEF Served

\* SCH_run hands the user what was pending, or releases an InvokeInfo that no
\* INVOKE PDU asks for.
LEMMA RunTaskServed ==
    ASSUME TypeInv, LiveInv, NEW num, Served(num), NEW n \in Node, RunTask(n)
    PROVE  Served(num)'
<1>1. PICK t, d : t = Head(sch[n]) /\ d = <<n, t.slot>>
  OBVIOUS
<1>2. /\ sch[n] \in Seq(Task) /\ sch[n] # <<>> /\ Len(sch[n]) \in Nat
      /\ t = sch[n][1] /\ 1 \in 1 .. Len(sch[n]) /\ d \in Desc
      /\ d[1] = n /\ d[2] = t.slot
  BY <1>1, TaskTyped DEF RunTask
<1>3. /\ sch'[n] = Tail(sch[n])
      /\ \A e \in Node : e # n => sch'[e] = sch[e]
  BY DEF RunTask, TypeInv, TypeOK
<1>4. \A i \in 1 .. Len(sch'[n]) :
        i + 1 \in 1 .. Len(sch[n]) /\ sch'[n][i] = sch[n][i + 1]
  BY <1>2, <1>3
<1>5. /\ t.kind = "relInvoke" => inv' = [inv EXCEPT ![d] = FreeInfo]
      /\ t.kind # "relInvoke" => inv' = inv
      /\ t.kind = "invokeInd" => work' = [work EXCEPT ![d] = t.op]
      /\ t.kind = "failureInd" => work' = [work EXCEPT ![d] = NoOp]
      /\ t.kind \notin {"invokeInd", "failureInd"} => work' = work
      /\ UNCHANGED <<newRef, net, asked, ind, exec, answer, cnf>>
  BY <1>1 DEF RunTask, relInvoke
<1>6. \A e \in Desc : e # d => inv'[e] = inv[e] /\ work'[e] = work[e]
  BY <1>5 DEF TypeInv, TypeOK
<1>7. \/ inv'[d] = inv[d]
      \/ t.kind = "relInvoke" /\ inv'[d] = FreeInfo /\ inv[d].state \in StartState
  <2>1. TaskLive(n, 1)
    BY <1>2 DEF LiveInv, QueueLive
  <2>2. t.kind = "relInvoke" => inv[d].state \in StartState
    BY <1>1, <1>2, <2>1 DEF TaskLive
  <2> QED
    BY <1>2, <1>5, <2>2 DEF TypeInv, TypeOK
<1>8. NoNewPending
  <2> SUFFICES ASSUME NEW e \in Desc, NEW op \in Op, Pending(e, op)'
               PROVE  Pending(e, op)
    BY DEF NoNewPending
  <2>1. e[1] \in Node /\ e = <<e[1], e[2]>>
    BY DEF Desc
  <2>2. CASE work'[e] = op
    <3>1. CASE work[e] = op
      BY <3>1 DEF Pending
    <3>2. CASE work[e] # op
      <4>1. e = d
        BY <1>6, <2>2, <3>2
      <4>2. t.kind = "invokeInd" /\ t.op = op
        BY <1>2, <1>5, <2>2, <3>2, <4>1, NoValueAssumption DEF TypeInv, TypeOK
      <4> QED
        BY <1>2, <4>1, <4>2 DEF Pending
    <3> QED
      BY <3>1, <3>2
  <2>3. CASE work'[e] # op
    <3>1. PICK i \in 1 .. Len(sch'[e[1]]) :
            /\ sch'[e[1]][i].kind = "invokeInd"
            /\ sch'[e[1]][i].slot = e[2] /\ sch'[e[1]][i].op = op
      BY <2>3 DEF Pending
    <3>2. CASE e[1] = n
      BY <1>4, <3>1, <3>2 DEF Pending
    <3>3. CASE e[1] # n
      BY <1>3, <2>1, <3>1, <3>3 DEF Pending
    <3> QED
      BY <3>2, <3>3
  <2> QED
    BY <2>2, <2>3
<1>9. ASSUME NEW e \in Desc, NEW op \in Op, Pending(e, op)'
      PROVE  Pending(e, op) /\ inv'[e] = inv[e]
  <2>1. Pending(e, op)
    BY <1>8, <1>9 DEF NoNewPending
  <2>2. inv'[e].state # "free"
    <3>1. LiveInv'
      BY RunTaskLive
    <3>2. e[1] \in Node /\ e = <<e[1], e[2]>>
      BY DEF Desc
    <3>3. CASE work'[e] = op
      BY <3>1, <3>3, NoValueAssumption DEF LiveInv, HeldDescLive
    <3>4. CASE work'[e] # op
      <4>1. PICK i \in 1 .. Len(sch'[e[1]]) : sch'[e[1]][i].slot = e[2]
        BY <1>9, <3>4 DEF Pending
      <4>2. TaskLive(e[1], i)'
        BY <3>1, <3>2, <4>1 DEF LiveInv, QueueLive
      <4> QED
        BY <3>2, <4>1, <4>2 DEF TaskLive
    <3> QED
      BY <3>3, <3>4
  <2>3. FreeInfo.state = "free"
    BY DEF FreeInfo
  <2> QED
    BY <1>6, <1>7, <2>1, <2>2, <2>3
<1>10. OwnInv(num)'
  <2>1. Numbered(num)'
    BY <1>5 DEF Served, OwnInv, Numbered
  <2>2. ASSUME NEW e \in Desc PROVE OwnInfo(inv[e], e[1], num)'
    <3>1. OwnInfo(inv[e], e[1], num)
      BY DEF Served, OwnInv
    <3>2. CASE inv'[e] = inv[e]
      BY <1>5, <3>1, <3>2 DEF OwnInfo, OwnInvoker, OwnPerformer, Fulfilled
    <3>3. CASE inv'[e] = FreeInfo
      BY <3>3 DEF OwnInfo, FreeInfo, InvokerState, PerformerState
    <3> QED
      BY <1>6, <1>7, <3>2, <3>3
  <2>3. ASSUME NEW m \in net PROVE OwnPdu(m, num)'
    <3>1. OwnPdu(m, num)
      BY DEF Served, OwnInv
    <3> QED
      BY <1>5, <3>1 DEF OwnPdu, Fulfilled
  <2>4. \A e \in Desc : \A op \in Op : Pending(e, op)' => op = inv'[e].userRef
    BY <1>9 DEF Served, OwnInv
  <2> QED
    BY <1>5, <2>1, <2>2, <2>3, <2>4 DEF OwnInv
<1>11. ASSUME NEW e \in Desc, inv'[e].state # "free" PROVE inv'[e] = inv[e]
  BY <1>6, <1>7, <1>11 DEF FreeInfo
<1>12. WithinKept
  <2>1. \A e \in Desc : Open(e)' => Open(e) /\ inv'[e] = inv[e]
    BY <1>11 DEF Open
  <2> QED
    BY <1>5, <2>1, CalmWithin
<1>13. ASSUME NEW e \in Desc, inv'[e].state \in PerformerState
       PROVE  inv'[e] = inv[e] /\ inv[e].userRef \in Op
  <2>1. inv'[e].state # "free"
    BY <1>13 DEF PerformerState
  <2> QED
    BY <1>11, <2>1, RoleOf DEF Served
<1>14. KeptInv'
  <2>1. \A op \in Op : Within(op, Horizon)'
    <3>1. Horizon \in Int
      BY DelaysTyped, NumberAssumption DEF Horizon
    <3> QED
      BY <1>12, <3>1 DEF Served, KeptInv, WithinKept
  <2>2. ASSUME NEW op \in Op, exec[op] = 1
        PROVE  Within(op, 0)' \/ \E e \in Desc : Serves(e, op)'
    <3>1. CASE Within(op, 0)
      BY <1>12, <3>1 DEF WithinKept
    <3>2. CASE ~ Within(op, 0)
      <4>1. PICK e \in Desc : Serves(e, op)
        BY <2>2, <3>2 DEF Served, KeptInv, ExecOnce
      <4>2. inv[e].state # "CLPerformerStart"
        BY <3>2, <4>1 DEF Served, KeptInv, Kept, KeptState, Serves
      <4>3. inv[e].state \notin StartState
        BY <4>1, <4>2 DEF Serves, StartState, PerformerState
      <4>4. inv'[e] = inv[e]
        BY <1>6, <1>7, <4>3
      <4> QED
        BY <4>1, <4>4 DEF Serves
    <3> QED
      BY <3>1, <3>2
  <2>3. ExecOnce'
    BY <1>5, <2>2 DEF Served, KeptInv, ExecOnce
  <2>4. ASSUME NEW e \in Desc, inv'[e].state \in PerformerState
        PROVE  exec'[inv'[e].userRef] = 1 /\ Kept(inv[e])'
    <3>1. PICK v \in InvokeInfo : v = inv[e]
      BY DEF TypeInv, TypeOK
    <3>2. inv'[e] = v /\ v.userRef \in Op /\ v.state \in PerformerState
      BY <1>13, <2>4, <3>1
    <3>3. Kept(v) /\ exec[v.userRef] = 1
      BY <3>1, <3>2 DEF Served, KeptInv
    <3>4. Kept(v)'
      BY <1>12, <3>2, <3>3, SameKept DEF WithinKept
    <3> QED
      BY <1>5, <3>2, <3>3, <3>4
  <2>5. ServerDistinct'
    BY <1>13 DEF Served, KeptInv, ServerDistinct, Serves
  <2> QED
    BY <1>5, <2>1, <2>3, <2>4, <2>5 DEF Served, KeptInv
<1>15. AnswersInv'
  <2>1. \A e \in Desc : inv'[e].state \in {"InvokePduReceived"} \cup AnswerState =>
          cnf'[inv'[e].userRef] = <<>>
    BY <1>5, <1>13 DEF Served, AnswersInv, AnswerState, PerformerState
  <2>2. \A e \in Desc : inv'[e].state \in AnswerState =>
          answer'[inv'[e].userRef] = {inv'[e].isResult}
    BY <1>5, <1>13 DEF Served, AnswersInv, AnswerState, PerformerState
  <2>3. \A e \in Desc : \A op \in Op : Pending(e, op)' => answer'[op] = {}
    BY <1>5, <1>9 DEF Served, AnswersInv
  <2>4. \A e \in Desc :
          /\ inv'[e].state = "InvokePduReceived" => inv'[e].refMap = "none"
          /\ inv'[e].state \in AnswerState => inv'[e].refMap # "none"
    BY <1>5, <1>13 DEF Served, AnswersInv, AnswerState, PerformerState
  <2> QED
    BY <1>5, <2>1, <2>2, <2>3, <2>4 DEF Served, AnswersInv
<1> QED
  BY <1>10, <1>14, <1>15 DEF Served

\* A unit of time changes nothing of an InvokeInfo but its timers, and nothing
\* of a PDU but the time it may live.
LEMMA TickedInfo ==
    ASSUME TypeInv, Tick, NEW d \in Desc
    PROVE  /\ \A t \in inv'[d].tmrs : \E u \in inv[d].tmrs :
                /\ t.name = u.name /\ t.datum = u.datum /\ t.left = u.left - 1
                /\ u.left \in Int /\ u.datum \in Int
           /\ inv[d].tmrs = {} => inv'[d] = inv[d]
           /\ inv'[d].state = inv[d].state /\ inv'[d].sap = inv[d].sap
           /\ inv'[d].rem = inv[d].rem /\ inv'[d].ref = inv[d].ref
           /\ inv'[d].refMap = inv[d].refMap
           /\ inv'[d].resultPdu = inv[d].resultPdu
           /\ inv'[d].userRef = inv[d].userRef
           /\ inv'[d].isResult = inv[d].isResult
<1>1. PICK info \in InvokeInfo : info = inv[d]
  BY DEF TypeInv, TypeOK
<1>2. PICK ts : ts = {[t EXCEPT !.left = t.left - 1] : t \in info.tmrs}
  OBVIOUS
<1>3. inv'[d] = [info EXCEPT !.tmrs = ts]
  BY <1>1, <1>2 DEF Tick, TypeInv, TypeOK
<1>4. ASSUME NEW t \in ts
      PROVE  \E u \in info.tmrs :
               /\ t.name = u.name /\ t.datum = u.datum /\ t.left = u.left - 1
               /\ u.left \in Int /\ u.datum \in Int
  <2>1. PICK u \in info.tmrs : t = [u EXCEPT !.left = u.left - 1]
    BY <1>2
  <2>2. u \in [name : TimerName, datum : Nat, left : Nat]
    BY DEF InvokeInfo
  <2> QED
    BY <2>1, <2>2
<1>5. info.tmrs = {} => ts = info.tmrs
  BY <1>2
<1> QED
  BY <1>1, <1>3, <1>4, <1>5 DEF InvokeInfo

\* A PDU in transit is an older one, a unit closer to its end.
LEMMA TickedPdu ==
    ASSUME TypeInv, Tick, NEW m \in net'
    PROVE  \E p \in net :
             /\ m.type = p.type /\ m.src = p.src /\ m.dst = p.dst
             /\ m.sap = p.sap /\ m.ref = p.ref /\ m.op = p.op
             /\ m.ttl = p.ttl - 1 /\ p.ttl \in Int
<1>1. PICK p \in net : m = [p EXCEPT !.ttl = p.ttl - 1]
  BY DEF Tick
<1>2. p \in Pdu
  BY PduInNet
<1> QED
  BY <1>1, <1>2 DEF Pdu

\* It brings the last INVOKE PDU of every operation closer.
LEMMA TickWithin ==
    ASSUME TypeInv, Tick, NEW op \in Op, NEW time \in Int, Within(op, time)
    PROVE  Within(op, time - 1)' /\ Within(op, time)'
<1>1. ASSUME NEW m \in net', m.type = "INVOKE", m.op = op
      PROVE  m.ttl < time - 1 /\ m.ttl < time
  <2>1. PICK p \in net : /\ m.type = p.type /\ m.op = p.op
                         /\ m.ttl = p.ttl - 1 /\ p.ttl \in Int
    BY TickedPdu
  <2> QED
    BY <1>1, <2>1 DEF Within
<1>2. ASSUME NEW e \in Desc, Open(e)', inv'[e].userRef = op,
             NEW t \in inv'[e].tmrs,
             t.name = "invokePduRetran", t.datum < RetransmitCount
      PROVE  /\ t.left + (RetransmitCount - 1 - t.datum) * retransTimeout
                  + MaxNSDULifeTime < time - 1
             /\ t.left + (RetransmitCount - 1 - t.datum) * retransTimeout
                  + MaxNSDULifeTime < time
  <2>1. PICK u \in inv[e].tmrs :
          /\ t.name = u.name /\ t.datum = u.datum /\ t.left = u.left - 1
          /\ u.left \in Int /\ u.datum \in Int
    BY TickedInfo
  <2>2. Open(e) /\ inv[e].userRef = op
    BY <1>2, TickedInfo DEF Open
  <2>3. PICK x \in Int : x = (RetransmitCount - 1 - t.datum) * retransTimeout
    BY <2>1, DelaysTyped, NumberAssumption
  <2>4. u.left + x + MaxNSDULifeTime < time
    BY <1>2, <2>1, <2>2, <2>3 DEF Within
  <2> QED
    BY <2>1, <2>3, <2>4, NumberAssumption
<1> QED
  BY <1>1, <1>2 DEF Within

\* An InvokeInfo is kept for a unit less.
LEMMA TickKept ==
    ASSUME TypeInv, Tick, NEW d \in Desc, inv[d].userRef \in Op, Kept(inv[d])
    PROVE  Kept(inv[d])'
<1>1. PICK op, s : op \in Op /\ op = inv[d].userRef /\ s = inv[d].state
  OBVIOUS
<1>2. inv'[d].userRef = op /\ inv'[d].state = s
  BY <1>1, TickedInfo
<1>3. /\ refKeepTime \in Int /\ rwait \in Int /\ retransTimeout \in Int
      /\ RetransmitCount \in Int
  BY DelaysTyped, NumberAssumption
<1>4. KeptState(s, op)'
  BY <1>1, <1>3, TickWithin DEF Kept, KeptState
<1>5. ASSUME NEW t \in inv'[d].tmrs PROVE KeptTimer(s, op, t)'
  <2>1. PICK u \in inv[d].tmrs :
          /\ t.name = u.name /\ t.datum = u.datum /\ t.left = u.left - 1
          /\ u.left \in Int /\ u.datum \in Int
    BY TickedInfo
  <2>2. KeptTimer(s, op, u)
    BY <1>1 DEF Kept
  <2>3. PICK x \in Int :
          x = (RetransmitCount - u.datum) * retransTimeout
    BY <1>3, <2>1
  <2>4. /\ Within(op, u.left) => Within(op, t.left)'
        /\ Within(op, u.left + refKeepTime) => Within(op, t.left + refKeepTime)'
        /\ Within(op, u.left + x + rwait + refKeepTime) =>
             Within(op, t.left + x + rwait + refKeepTime)'
    <3>1. /\ u.left \in Int /\ u.left + refKeepTime \in Int
          /\ u.left + x + rwait + refKeepTime \in Int
      BY <1>3, <2>1, <2>3
    <3>2. /\ t.left = u.left - 1
          /\ t.left + refKeepTime = (u.left + refKeepTime) - 1
          /\ t.left + x + rwait + refKeepTime
               = (u.left + x + rwait + refKeepTime) - 1
      <4>1. PICK a \in Int, b \in Int, y \in Int, z \in Int :
              a = rwait /\ b = refKeepTime /\ y = u.left /\ z = t.left
        BY <1>3, <2>1
      <4>2. z = y - 1
        BY <2>1, <4>1
      <4>3. z + b = (y + b) - 1 /\ z + x + a + b = (y + x + a + b) - 1
        BY <4>1, <4>2
      <4> QED
        BY <4>1, <4>2, <4>3
    <3>3. \A y \in Int : Within(op, y) => Within(op, y - 1)'
      BY <1>1, TickWithin
    <3> QED
      BY <3>1, <3>2, <3>3
  <2> QED
    BY <2>1, <2>2, <2>3, <2>4 DEF KeptTimer
<1> QED
  BY <1>2, <1>4, <1>5 DEF Kept

\* The clock preserves the invariant.
LEMMA TickServed ==
    ASSUME TypeInv, NEW num, Served(num), Tick
    PROVE  Served(num)'
<1>1. UNCHANGED <<newRef, sch, asked, ind, exec, work, answer, cnf>>
  BY DEF Tick, userVars
<1>2. OwnInv(num)'
  <2>1. Numbered(num)'
    BY <1>1 DEF Served, OwnInv, Numbered
  <2>2. ASSUME NEW e \in Desc PROVE OwnInfo(inv[e], e[1], num)'
    <3>1. OwnInfo(inv[e], e[1], num)
      BY DEF Served, OwnInv
    <3>2. inv[e].state = "free" => inv'[e] = inv[e]
      BY <3>1, TickedInfo DEF OwnInfo, FreeInfo
    <3>3. /\ inv'[e].state = inv[e].state /\ inv'[e].sap = inv[e].sap
          /\ inv'[e].rem = inv[e].rem /\ inv'[e].ref = inv[e].ref
          /\ inv'[e].refMap = inv[e].refMap
          /\ inv'[e].resultPdu = inv[e].resultPdu
          /\ inv'[e].userRef = inv[e].userRef
      BY TickedInfo
    <3> QED
      BY <1>1, <3>1, <3>2, <3>3 DEF OwnInfo, OwnInvoker, OwnPerformer, Fulfilled
  <2>3. ASSUME NEW m \in net' PROVE OwnPdu(m, num)'
    <3>1. PICK p \in net :
            /\ m.type = p.type /\ m.src = p.src /\ m.dst = p.dst
            /\ m.sap = p.sap /\ m.ref = p.ref /\ m.op = p.op
      BY TickedPdu
    <3>2. OwnPdu(p, num)
      BY DEF Served, OwnInv
    <3> QED
      BY <1>1, <3>1, <3>2 DEF OwnPdu, Fulfilled
  <2>4. \A e \in Desc : \A op \in Op : Pending(e, op)' => op = inv'[e].userRef
    BY <1>1, TickedInfo DEF Served, OwnInv, Pending
  <2> QED
    BY <2>1, <2>2, <2>3, <2>4 DEF OwnInv
<1>3. \A e \in Desc : \A op \in Op : Serves(e, op)' <=> Serves(e, op)
  BY TickedInfo DEF Serves
<1>4. KeptInv'
  <2>1. ASSUME NEW m \in net' PROVE m.ttl <= MaxNSDULifeTime
    <3>1. PICK p \in net : m.ttl = p.ttl - 1 /\ p.ttl \in Int
      BY TickedPdu
    <3>2. p.ttl <= MaxNSDULifeTime
      BY DEF Served, KeptInv
    <3> QED
      BY <3>1, <3>2, NumberAssumption
  <2>2. \A op \in Op : Within(op, Horizon)'
    <3>1. Horizon \in Int
      BY DelaysTyped, NumberAssumption DEF Horizon
    <3> QED
      BY <3>1, TickWithin DEF Served, KeptInv
  <2>3. ExecOnce'
    <3>1. \A op \in Op : Within(op, 0) => Within(op, 0)'
      BY TickWithin
    <3> QED
      BY <1>1, <1>3, <3>1 DEF Served, KeptInv, ExecOnce
  <2>4. ASSUME NEW e \in Desc, inv'[e].state \in PerformerState
        PROVE  exec'[inv'[e].userRef] = 1 /\ Kept(inv[e])'
    <3>1. /\ inv[e].state \in PerformerState /\ inv[e].state # "free"
          /\ inv'[e].userRef = inv[e].userRef
      BY <2>4, TickedInfo DEF PerformerState
    <3>2. inv[e].userRef \in Op /\ Kept(inv[e]) /\ exec[inv[e].userRef] = 1
      BY <3>1, RoleOf DEF Served, KeptInv
    <3> QED
      BY <1>1, <3>1, <3>2, TickKept
  <2>5. ServerDistinct'
    BY <1>3 DEF Served, KeptInv, ServerDistinct
  <2> QED
    BY <2>1, <2>2, <2>3, <2>4, <2>5 DEF KeptInv
<1>5. AnswersInv'
  <2>1. \A e \in Desc : /\ inv'[e].state = inv[e].state
                        /\ inv'[e].userRef = inv[e].userRef
                        /\ inv'[e].isResult = inv[e].isResult
                        /\ inv'[e].refMap = inv[e].refMap
    BY TickedInfo
  <2> QED
    BY <1>1, <2>1 DEF Served, AnswersInv, Pending
<1> QED
  BY <1>2, <1>4, <1>5 DEF Served

-----------------------------------------------------------------------------
(* A new number for every request.                                         *)

\* Where engine n has given out its numbers up to newRef[n], it has been asked
\* for that many operations, and the next number is free.
LEMMA NextNumber ==
    ASSUME TypeInv, NoReuse, NEW num, Numbered(num), NEW op \in Op,
           op \notin asked, NEW n \in Node, n = From[op]
    PROVE  /\ newRef[n] = NREFS => Candidate(n, 1) = 0
           /\ newRef[n] < NREFS => /\ Candidate(n, 1) = newRef[n] + 1
                                   /\ newRef[n] + 1 < NREFS
<1>1. PICK k \in 0 .. NREFS : k = newRef[n]
  BY DEF TypeInv, TypeOK
<1>2. NREFS \in Nat \ {0}
  BY NumberAssumption
<1>3. CASE k = NREFS
  <2>1. Candidate(n, 1) = 0 % NREFS
    BY <1>1, <1>2, <1>3 DEF Candidate
  <2>2. 0 % NREFS = 0
    BY <1>2
  <2> QED
    BY <1>1, <1>2, <1>3, <2>1, <2>2
<1>4. CASE k < NREFS
  <2> DEFINE ops == {o \in Op : From[o] = n}
             given == [i \in 0 .. k |-> CHOOSE o \in ops : num[o] = i]
  <2>1. IsFiniteSet(ops) /\ Cardinality(ops) <= NREFS /\ op \in ops
    BY DEF NoReuse
  <2>2. ASSUME NEW i \in 0 .. k
        PROVE  given[i] \in ops \ {op} /\ num[given[i]] = i
    <3>1. \E o \in ops : num[o] = i
      BY <1>1, <1>4 DEF Numbered
    <3>2. given[i] \in ops /\ num[given[i]] = i
      BY <3>1
    <3>3. num[op] = NoRef
      BY DEF Numbered
    <3> QED
      BY <3>2, <3>3 DEF NoRef
  <2>3. given \in [0 .. k -> ops \ {op}]
    BY <2>2
  <2> HIDE DEF given, ops
  <2>4. IsFiniteSet(ops \ {op}) /\ Cardinality(ops \ {op}) = Cardinality(ops) - 1
    BY <2>1, FS_RemoveElement
  <2>5. IsFiniteSet(0 .. k) /\ Cardinality(0 .. k) = k + 1
    BY FS_Interval
  <2>6. Cardinality(ops) \in Nat
    BY <2>1, FS_CardinalityType
  <2>7. ~ (Cardinality(ops \ {op}) < Cardinality(0 .. k))
    <3> SUFFICES ASSUME Cardinality(ops \ {op}) < Cardinality(0 .. k)
                 PROVE  FALSE
      OBVIOUS
    <3>1. \E i, j \in 0 .. k : i # j /\ given[i] = given[j]
      BY <2>3, <2>4, <2>5, FS_PigeonHole
    <3> QED
      BY <2>2, <3>1
  <2>8. k + 1 < NREFS
    BY <1>2, <2>1, <2>4, <2>5, <2>6, <2>7
  <2>9. (k + 1) % NREFS = k + 1
    BY <1>2, <2>8
  <2> QED
    BY <1>1, <1>2, <1>4, <2>8, <2>9 DEF Candidate
<1> QED
  BY <1>1, <1>2, <1>3, <1>4

\* erop_refNew takes it.
LEMMA FreshNumber ==
    ASSUME TypeInv, NoReuse, NEW num, OwnInv(num), NEW op \in Op,
           op \notin asked
    PROVE  \E c \in 0 .. NREFS - 1 :
             /\ refNew(From[op], To[op]) = c
             /\ newRefAfter(From[op], To[op]) = c
             /\ \/ newRef[From[op]] = NREFS /\ c = 0
                \/ newRef[From[op]] < NREFS /\ c = newRef[From[op]] + 1
             /\ \A o \in Op : From[o] = From[op] => num[o] # c
<1>1. PICK n \in Node, rem \in Node : n = From[op] /\ rem = To[op]
  BY ShapeAssumption
<1>2. PICK k \in 0 .. NREFS : k = newRef[n]
  BY DEF TypeInv, TypeOK
<1>3. NREFS \in Nat \ {0}
  BY NumberAssumption
<1>4. PICK c : c = Candidate(n, 1)
  OBVIOUS
<1>5. /\ c \in 0 .. NREFS - 1
      /\ (k = NREFS /\ c = 0) \/ (k < NREFS /\ c = k + 1)
  <2>1. /\ k = NREFS => c = 0
        /\ k < NREFS => c = k + 1 /\ k + 1 < NREFS
    BY <1>1, <1>2, <1>4, NextNumber DEF OwnInv
  <2> QED
    BY <1>2, <1>3, <2>1
<1>6. ASSUME NEW o \in Op, From[o] = n PROVE num[o] # c
  <2>1. num[o] # NoRef => k < NREFS /\ num[o] <= k
    BY <1>2, <1>6 DEF OwnInv, Numbered
  <2> QED
    BY <1>2, <1>5, <2>1 DEF NoRef
<1>7. refToInvoker(n, c, rem) = {}
  <2> SUFFICES ASSUME NEW d \in refToInvoker(n, c, rem) PROVE FALSE
    OBVIOUS
  <2>1. d \in Desc /\ d[1] = n /\ inv[d].refMap = "invoker" /\ inv[d].ref = c
    BY DEF refToInvoker, Mapped, Desc
  <2>2. /\ inv[d].state \in InvokerState /\ inv[d].state # "free"
        /\ inv[d].userRef \in Op
    BY <2>1, RoleOf DEF InvokerState
  <2>3. OwnInfo(inv[d], d[1], num)
    BY <2>1 DEF OwnInv
  <2>4. n = From[inv[d].userRef] /\ num[inv[d].userRef] = c
    BY <2>1, <2>2, <2>3 DEF OwnInfo, OwnInvoker
  <2> QED
    BY <1>6, <2>2, <2>4
<1>8. 1 \in FreeTries(n, rem) /\ FreeTries(n, rem) \subseteq Nat
  BY <1>3, <1>4, <1>7 DEF FreeTries
<1>9. refNew(n, rem) = c
  <2> DEFINE First(i) == \A j \in FreeTries(n, rem) : i <= j
  <2>1. First(1)
    BY <1>3 DEF FreeTries
  <2>2. (CHOOSE i \in FreeTries(n, rem) : First(i)) \in FreeTries(n, rem)
        /\ First(CHOOSE i \in FreeTries(n, rem) : First(i))
    BY <1>8, <2>1
  <2>3. (CHOOSE i \in FreeTries(n, rem) : First(i)) = 1
    BY <1>3, <1>8, <2>2 DEF FreeTries
  <2> QED
    BY <1>4, <1>8, <2>3 DEF refNew
<1>10. newRefAfter(n, rem) = c
  BY <1>8, <1>9 DEF newRefAfter
<1> QED
  BY <1>1, <1>2, <1>5, <1>6, <1>9, <1>10

\* EROP_invokeReq and tr_clInvoker01: the operation gets a number of its own,
\* and the time its INVOKE PDUs may take starts to run.
LEMMA InvokeReqServed ==
    ASSUME TypeInv, LiveInv, NoReuse, NEW num, Served(num), NEW op \in Op,
           InvokeReq(op)
    PROVE  \E new : Served(new)'
<1>1. op \notin asked /\ asked' = asked \cup {op}
  BY DEF InvokeReq
<1>2. PICK n \in Node, rem \in Node : n = From[op] /\ rem = To[op]
  BY ShapeAssumption
<1>3. PICK c \in 0 .. NREFS - 1 :
        /\ refNew(n, rem) = c /\ newRefAfter(n, rem) = c
        /\ \/ newRef[n] = NREFS /\ c = 0
           \/ newRef[n] < NREFS /\ c = newRef[n] + 1
        /\ \A o \in Op : From[o] = n => num[o] # c
  BY <1>1, <1>2, FreshNumber DEF Served
<1>4. PICK new : new = [num EXCEPT ![op] = c]
  OBVIOUS
<1>5. /\ num \in [Op -> RefNu] /\ new \in [Op -> RefNu] /\ num[op] = NoRef
      /\ new[op] = c /\ c # NoRef /\ \A o \in Op : o # op => new[o] = num[o]
  <2>1. num \in [Op -> RefNu] /\ num[op] = NoRef
    BY <1>1 DEF Served, OwnInv, Numbered
  <2>2. c \in RefNu /\ c # NoRef
    BY NumberAssumption DEF RefNu, NoRef
  <2> QED
    BY <1>4, <2>1, <2>2
<1>6. /\ newRef' = [newRef EXCEPT ![n] = c]
      /\ UNCHANGED <<sch, ind, exec, work, answer, cnf>>
  BY <1>2, <1>3 DEF InvokeReq
<1>7. PICK u : u = SentInvocation(op)
  OBVIOUS
<1>8. /\ u.state = "InvokePduSent" /\ u.sap = FromSap[op] /\ u.rem = rem
      /\ u.ref = c /\ u.userRef = op /\ u.refMap = "invoker"
      /\ u.tmrs = tmrCreate({}, "invokePduRetran", retransTimeout, 0)
  BY <1>2, <1>3, <1>7 DEF SentInvocation, NewInvocation, FreeInfo
<1>9. PICK p : p = PduOf(n, NewInvocation(op), "INVOKE", op)
  OBVIOUS
<1>10. /\ p.type = "INVOKE" /\ p.src = n /\ p.dst = rem /\ p.sap = ToSap[op]
       /\ p.ref = c /\ p.op = op /\ p.ttl = MaxNSDULifeTime
  BY <1>2, <1>3, <1>9 DEF PduOf, NewInvocation, FreeInfo
<1>11. PICK d \in Avail(n) :
         /\ inv' = [inv EXCEPT ![d] = u]
         /\ \A m \in net' : m \in net \/ m = p
  <2>1. NewInvocation(op).ref # NoRef
    BY <1>2, <1>3, <1>5 DEF NewInvocation, FreeInfo
  <2> QED
    BY <1>2, <1>7, <1>9, <2>1 DEF InvokeReq, Send
<1>12. d \in Desc /\ d[1] = n /\ inv[d].state = "free"
  BY <1>11 DEF Avail, Desc
<1>13. inv'[d] = u /\ \A e \in Desc : e # d => inv'[e] = inv[e]
  BY <1>11, <1>12, Updated
<1>14. \A o : Fulfilled(o) <=> Fulfilled(o)'
  BY <1>6 DEF Fulfilled
<1>15. \A e \in Desc : inv[e].state # "free" => inv[e].userRef \in Op \ {op}
  <2> SUFFICES ASSUME NEW e \in Desc, inv[e].state # "free"
               PROVE  inv[e].userRef \in Op \ {op}
    OBVIOUS
  <2>1. OwnInfo(inv[e], e[1], num)
    BY DEF Served, OwnInv
  <2> QED
    BY <1>5, <2>1, RoleOf DEF Served, OwnInfo
<1>16. \A m \in net : m.type \in OpPdu => m.op \in Op \ {op}
  <2> SUFFICES ASSUME NEW m \in net, m.type \in OpPdu PROVE m.op \in Op \ {op}
    OBVIOUS
  <2>1. m.op \in Op /\ OwnPdu(m, num)
    BY DEF TypeInv, PduTyped, Served, OwnInv
  <2>2. num[m.op] # NoRef
    <3>1. m.type = "INVOKE" \/ m.type = "RESULT" \/ m.type = "ERROR"
      BY DEF OpPdu
    <3>2. ResultType("result") = "RESULT" /\ ResultType("error") = "ERROR"
      BY DEF ResultType
    <3> QED
      BY <2>1, <3>1, <3>2 DEF OwnPdu
  <2> QED
    BY <1>5, <2>1, <2>2
<1>17. Numbered(new)'
  <2>1. PICK k : k = newRef[n] /\ newRef'[n] = c
    BY <1>6 DEF TypeInv, TypeOK
  <2>2. \A e \in Node : e # n => newRef'[e] = newRef[e]
    BY <1>6 DEF TypeInv, TypeOK
  <2>3. k \in 0 .. NREFS /\ NREFS \in Nat \ {0} /\ c < NREFS
    BY <2>1, NumberAssumption DEF TypeInv, TypeOK
  <2>4. ASSUME NEW o \in Op, new[o] # NoRef
        PROVE  /\ o \in asked' /\ newRef'[From[o]] < NREFS
               /\ new[o] <= newRef'[From[o]]
    <3>1. CASE o = op
      BY <1>1, <1>2, <1>5, <2>1, <2>3, <3>1
    <3>2. CASE o # op
      <4>1. num[o] # NoRef /\ new[o] = num[o] /\ From[o] \in Node
        BY <1>5, <2>4, <3>2, ShapeAssumption
      <4>2. o \in asked /\ newRef[From[o]] < NREFS /\ num[o] <= newRef[From[o]]
        BY <4>1 DEF Served, OwnInv, Numbered
      <4>3. CASE From[o] = n
        <5>1. num[o] \in Int
          BY <1>5, <2>3, <4>1 DEF RefNu, NoRef
        <5> QED
          BY <1>1, <1>3, <2>1, <2>3, <4>1, <4>2, <4>3, <5>1
      <4>4. CASE From[o] # n
        BY <1>1, <2>2, <4>1, <4>2, <4>4
      <4> QED
        BY <4>3, <4>4
    <3> QED
      BY <3>1, <3>2
  <2>5. ASSUME NEW o1 \in Op, NEW o2 \in Op, From[o1] = From[o2],
               new[o1] # NoRef, new[o1] = new[o2]
        PROVE  o1 = o2
    <3>1. CASE o1 # op /\ o2 # op
      BY <1>5, <2>5, <3>1 DEF Served, OwnInv, Numbered
    <3>2. CASE o1 = op \/ o2 = op
      BY <1>2, <1>3, <1>5, <2>5, <3>2
    <3> QED
      BY <3>1, <3>2
  <2>6. ASSUME NEW e \in Node, newRef'[e] < NREFS, NEW k1 \in 0 .. newRef'[e]
        PROVE  \E o \in Op : From[o] = e /\ new[o] = k1
    <3>1. CASE e = n /\ k1 = c
      BY <1>2, <1>5, <3>1
    <3>2. CASE ~ (e = n /\ k1 = c)
      <4>1. newRef[e] < NREFS /\ k1 \in 0 .. newRef[e]
        <5>1. CASE e = n
          BY <1>3, <2>1, <2>3, <2>6, <3>2, <5>1
        <5>2. CASE e # n
          BY <2>2, <2>6, <5>2
        <5> QED
          BY <5>1, <5>2
      <4>2. PICK o \in Op : From[o] = e /\ num[o] = k1
        BY <4>1 DEF Served, OwnInv, Numbered
      <4>3. o # op
        <5>1. k1 # NoRef
          BY <4>1 DEF NoRef
        <5> QED
          BY <1>5, <4>2, <5>1
      <4> QED
        BY <1>5, <4>2, <4>3
    <3> QED
      BY <3>1, <3>2
  <2> QED
    BY <1>5, <2>4, <2>5, <2>6 DEF Numbered
<1>18. OwnInv(new)'
  <2>1. OwnInfo(inv[d], d[1], new)'
    BY <1>2, <1>5, <1>8, <1>12, <1>13
    DEF OwnInfo, OwnInvoker, InvokerState, PerformerState
  <2>2. ASSUME NEW e \in Desc, e # d PROVE OwnInfo(inv[e], e[1], new)'
    <3>1. OwnInfo(inv[e], e[1], num) /\ inv'[e] = inv[e]
      BY <1>13, <2>2 DEF Served, OwnInv
    <3>2. inv[e].state # "free" => new[inv[e].userRef] = num[inv[e].userRef]
      BY <1>5, <1>15
    <3> QED
      BY <1>6, <1>14, <3>1, <3>2 DEF OwnInfo, OwnInvoker, OwnPerformer
  <2>3. ASSUME NEW m \in net PROVE OwnPdu(m, new)'
    <3>1. OwnPdu(m, num)
      BY DEF Served, OwnInv
    <3>2. m.type \in OpPdu => new[m.op] = num[m.op]
      BY <1>5, <1>16
    <3>3. m.type = "ACK" =>
            \E o \in Op : /\ m.src = From[o] /\ m.ref = new[o] /\ m.ref # NoRef
                          /\ Fulfilled(o)'
      BY <1>5, <1>14, <3>1 DEF OwnPdu
    <3> QED
      BY <1>6, <3>1, <3>2, <3>3 DEF OwnPdu, OpPdu, ResultType
  <2>4. OwnPdu(p, new)'
    BY <1>2, <1>5, <1>10 DEF OwnPdu, ResultType
  <2>5. ASSUME NEW e \in Desc, NEW o \in Op, Pending(e, o)'
        PROVE  o = inv'[e].userRef
    <3>1. Pending(e, o)
      BY <1>6, <2>5 DEF Pending
    <3>2. e # d
      BY <1>12, <3>1, FreePending
    <3> QED
      BY <1>13, <3>1, <3>2 DEF Served, OwnInv
  <2> QED
    BY <1>11, <1>17, <2>1, <2>2, <2>3, <2>4, <2>5 DEF OwnInv
<1>19. ASSUME NEW o \in Op, o # op, NEW time \in Int, Within(o, time)
       PROVE  Within(o, time)'
  <2>1. \A m \in net' : m.type = "INVOKE" /\ m.op = o => m.ttl < time
    BY <1>10, <1>11, <1>19 DEF Within
  <2>2. \A e \in Desc : Open(e)' /\ inv'[e].userRef = o =>
          /\ inv'[e] = inv[e] /\ Open(e)
    BY <1>8, <1>13, <1>19 DEF Open
  <2> QED
    BY <1>19, <2>1, <2>2 DEF Within
<1>20. Within(op, Horizon)'
  <2>1. PICK x \in Nat, life \in Nat, count \in Nat :
          /\ x = RetransmitCount * retransTimeout /\ life = MaxNSDULifeTime
          /\ count = RetransmitCount
    BY DelaysTyped, NumberAssumption
  <2>2. Horizon = x + life + 1
    BY <2>1 DEF Horizon
  <2>3. ASSUME NEW m \in net', m.type = "INVOKE", m.op = op
        PROVE  m.ttl < Horizon
    <3>1. m = p
      BY <1>11, <1>16, <2>3 DEF OpPdu
    <3> QED
      BY <1>10, <2>1, <2>2, <3>1
  <2>4. ASSUME NEW e \in Desc, Open(e)', inv'[e].userRef = op,
               NEW t \in inv'[e].tmrs,
               t.name = "invokePduRetran", t.datum < RetransmitCount
        PROVE  t.left + (RetransmitCount - 1 - t.datum) * retransTimeout
                 + MaxNSDULifeTime < Horizon
    <3>1. e = d
      BY <1>13, <1>15, <2>4 DEF Open
    <3>2. t.left = retransTimeout /\ t.datum = 0
      BY <1>8, <1>13, <2>4, <3>1, CreatedOnly
    <3>3. PICK y \in Nat : y = retransTimeout
      BY DelaysTyped
    <3>4. y + (count - 1) * y = count * y
      OBVIOUS
    <3>5. y + (RetransmitCount - 1 - t.datum) * y = x
      BY <2>1, <3>2, <3>3, <3>4
    <3>6. (RetransmitCount - 1 - t.datum) * y \in Int
      BY <2>1, <3>2
    <3> QED
      BY <2>1, <2>2, <3>2, <3>3, <3>5, <3>6
  <2> QED
    BY <2>3, <2>4 DEF Within
<1>21. KeptInv'
  <2>1. \A m \in net' : m.ttl <= MaxNSDULifeTime
    BY <1>10, <1>11, NumberAssumption DEF Served, KeptInv
  <2>2. \A o \in Op : Within(o, Horizon)'
    <3>1. Horizon \in Int
      BY DelaysTyped, NumberAssumption DEF Horizon
    <3> QED
      BY <1>19, <1>20, <3>1 DEF Served, KeptInv
  <2>3. \A e \in Desc : \A o \in Op : Serves(e, o)' <=> Serves(e, o)
    BY <1>8, <1>12, <1>13 DEF Serves, PerformerState
  <2>4. exec[op] # 1
    BY <1>1 DEF Served, KeptInv, ExecOnce
  <2>5. ExecOnce'
    <3>1. ASSUME NEW o \in Op
          PROVE  /\ exec[o] \in {0, 1} /\ (exec[o] = 1 => o \in asked')
                 /\ exec[o] = 1 =>
                      Within(o, 0)' \/ \E e \in Desc : Serves(e, o)'
      <4>1. /\ exec[o] \in {0, 1} /\ (exec[o] = 1 => o \in asked)
            /\ exec[o] = 1 => Within(o, 0) \/ \E e \in Desc : Serves(e, o)
        BY DEF Served, KeptInv, ExecOnce
      <4>2. exec[o] = 1 /\ Within(o, 0) => Within(o, 0)'
        BY <1>19, <2>4
      <4> QED
        BY <1>1, <2>3, <4>1, <4>2
    <3> QED
      BY <1>6, <3>1 DEF ExecOnce
  <2>6. ASSUME NEW e \in Desc, inv'[e].state \in PerformerState
        PROVE  exec'[inv'[e].userRef] = 1 /\ Kept(inv[e])'
    <3>1. PICK v \in InvokeInfo : v = inv[e]
      BY DEF TypeInv, TypeOK
    <3>2. inv'[e] = v /\ v.state \in PerformerState /\ v.state # "free"
      BY <1>8, <1>13, <2>6, <3>1 DEF PerformerState
    <3>3. v.userRef \in Op /\ Kept(v) /\ exec[v.userRef] = 1 /\ v.userRef # op
      BY <2>4, <3>1, <3>2, RoleOf DEF Served, KeptInv
    <3>4. Kept(v)'
      BY <1>19, <3>3, SameKept
    <3> QED
      BY <1>6, <3>2, <3>3, <3>4
  <2>7. ServerDistinct'
    BY <2>3 DEF Served, KeptInv, ServerDistinct
  <2> QED
    BY <2>1, <2>2, <2>5, <2>6, <2>7 DEF KeptInv
<1>22. AnswersInv'
  <2>1. \A e \in Desc : inv'[e].state \in {"InvokePduReceived"} \cup AnswerState =>
          inv'[e] = inv[e]
    BY <1>8, <1>13 DEF AnswerState
  <2>2. \A e \in Desc : \A o \in Op : Pending(e, o)' => Pending(e, o)
    BY <1>6 DEF Pending
  <2> QED
    BY <1>6, <2>1, <2>2 DEF Served, AnswersInv
<1> QED
  BY <1>18, <1>21, <1>22 DEF Served

\* At the start no number has been given out.
LEMMA InitServed ==
    ASSUME Init
    PROVE  \E num : Served(num)
<1>1. PICK num : num = [op \in Op |-> NoRef]
  OBVIOUS
<1>2. \A d \in Desc : inv[d] = FreeInfo /\ work[d] = NoOp /\ d[1] \in Node
  BY DEF Init, Desc
<1>3. FreeInfo.state = "free" /\ "free" \notin InvokerState /\ "free" \notin PerformerState
  BY DEF FreeInfo, InvokerState, PerformerState
<1>4. \A d \in Desc : \A op \in Op : ~ Pending(d, op)
  BY <1>2, NoValueAssumption DEF Init, Pending
<1>5. Numbered(num)
  BY <1>1, ShapeAssumption, NumberAssumption DEF Numbered, Init, RefNu
<1>6. OwnInv(num)
  BY <1>2, <1>3, <1>4, <1>5 DEF OwnInv, OwnInfo, Init
<1>7. \A op \in Op : \A time : Within(op, time)
  BY <1>2, <1>3 DEF Within, Open, Init
<1>8. KeptInv
  BY <1>2, <1>3, <1>7 DEF KeptInv, ExecOnce, ServerDistinct, Serves, Init
<1>9. AnswersInv
  <2>1. "free" \notin AnswerState
    BY DEF AnswerState
  <2> QED
    BY <1>2, <1>3, <1>4, <2>1 DEF AnswersInv, Init
<1> QED
  BY <1>6, <1>8, <1>9 DEF Served

-----------------------------------------------------------------------------
(* What the users see of a step.                                           *)

\* A RESULT or ERROR PDU brings its invoker the performing user's answer.
LEMMA AnswerFound ==
    ASSUME TypeInv, NEW num, Served(num), NEW m \in net,
           NEW kind \in {"result", "error"}, m.type = ResultType(kind),
           NEW d \in refToInvoker(m.dst, m.ref, m.src)
    PROVE  /\ d \in Desc /\ m.op \in Op /\ inv[d].userRef = m.op
           /\ inv[d].state \in InvokerState /\ kind \in answer[m.op]
<1>1. m.type \in {"RESULT", "ERROR"}
  BY DEF ResultType
<1>2. OwnPdu(m, num)
  BY DEF Served, OwnInv
<1>3. m.op \in Op
  BY <1>1 DEF TypeInv, PduTyped, OpPdu
<1>4. kind \in answer[m.op]
  BY <1>2 DEF OwnPdu
<1> QED
  BY <1>1, <1>3, <1>4, FindInvoker DEF Served

\* An open invocation was asked for and hears its first outcome.
LEMMA OutcomeIndicated ==
    ASSUME OnceInv, NEW d \in Desc, Open(d), NEW kind,
           invokerInd(d, kind, inv[d].userRef)
    PROVE  \E op \in asked :
             /\ op = inv[d].userRef /\ ind[op] = <<>>
             /\ ind' = [ind EXCEPT ![op] = <<[kind |-> kind, op |-> op]>>]
<1>1. PICK op : op = inv[d].userRef
  OBVIOUS
<1>2. op \in asked /\ ind[op] = <<>>
  BY <1>1 DEF OnceInv, OpenUntold
<1>3. ind' = [ind EXCEPT ![op] = Append(ind[op], [kind |-> kind, op |-> op])]
  BY <1>1 DEF invokerInd
<1>4. Append(<<>>, [kind |-> kind, op |-> op]) = <<[kind |-> kind, op |-> op]>>
  OBVIOUS
<1> QED
  BY <1>1, <1>2, <1>3, <1>4

\* tr_clInvoker04 and tr_2clInvoker04: the invoking user gets the answer, and
\* an ACK PDU says so.
LEMMA ResultServed ==
    ASSUME TypeInv, OnceInv, NEW num, Served(num), NEW m \in net,
           NEW kind \in {"result", "error"}, m.type = ResultType(kind),
           NEW d \in refToInvoker(m.dst, m.ref, m.src),
           inv[d].state = "InvokePduSent",
           NEW s \in {"AckPduSent", "InvokerRefWait"}, NEW ts,
           Moved(d, s, inv[d].resultPdu, ts), invokerInd(d, kind, m.op),
           \A p \in net' : p \in net \/ p = PduOf(d[1], inv[d], "ACK", NoOp),
           UNCHANGED <<newRef, asked, exec, work, answer, cnf>>
    PROVE  Served(num)'
<1>1. PICK op \in Op :
        op = m.op /\ op = inv[d].userRef /\ kind \in answer[op] /\ d \in Desc
  BY AnswerFound
<1>2. Open(d)
  BY DEF Open
<1>3. NoNewPending
  BY <1>1, IndPending
<1>4. \A o \in Op : Fulfilled(o) => Fulfilled(o)'
  BY <1>1, <1>2, IndFulfilled
<1>5. Fulfilled(op)'
  <2>1. ind' = [ind EXCEPT ![inv[d].userRef] =
                  <<[kind |-> kind, op |-> m.op]>>]
    BY <1>1, <1>2, IndFulfilled, Zenon
  <2>2. ind'[op] = <<[kind |-> kind, op |-> op]>>
    BY <1>1, <2>1 DEF TypeInv, TypeOK
  <2> QED
    BY <1>1, <2>2 DEF Fulfilled
<1>6. PICK p : p = PduOf(d[1], inv[d], "ACK", NoOp)
  OBVIOUS
<1>7. OwnPdu(p, num)' /\ p.ttl = MaxNSDULifeTime
  BY <1>1, <1>5, <1>6, PduOfOwn DEF Served, InvokerState
<1>8. WithinKept
  <2>1. \A q \in net' : q.type = "INVOKE" => q \in net
    BY DEF PduOf
  <2> QED
    BY <1>1, <2>1, MovedWithin
<1>9. \A q \in net' : q \in net \/ (OwnPdu(q, num)' /\ q.ttl <= MaxNSDULifeTime)
  BY <1>6, <1>7, NumberAssumption
<1>10. /\ s \in State \ {"free"} /\ s \in InvokerState
       /\ inv[d].state \in InvokerState /\ inv[d].state # "free"
       /\ s \notin PerformerState /\ s \notin {"InvokePduReceived"} \cup AnswerState
  BY DEF State, InvokerState, PerformerState, AnswerState
<1>11. Fulfilled(inv[d].userRef)'
  <2>1. inv'[d].userRef = op
    BY <1>1 DEF Moved
  <2> QED
    BY <1>5, <2>1
<1>12. inv[d].userRef \in Op /\ d \in Desc
  BY <1>1
<1> QED
  BY <1>3, <1>4, <1>8, <1>9, <1>10, <1>11, <1>12, MoveServed

\* tr_clPerformer01: the operation is performed, for the first time.
LEMMA PerformedFirst ==
    ASSUME TypeInv, LiveInv, NEW num, Served(num), NEW m \in net,
           PerformerInvoke(m)
    PROVE  /\ m.op \in Op /\ m.op \in asked /\ exec[m.op] = 0
           /\ exec' = [exec EXCEPT ![m.op] = 1]
<1>1. m.op \in Op /\ m.op \in asked /\ exec[m.op] = 0
  BY FirstPerformed
<1>2. exec' = [exec EXCEPT ![m.op] = exec[m.op] + 1]
  BY DEF PerformerInvoke
<1> QED
  BY <1>1, <1>2

\* EROP_resultReq and EROP_errorReq: the first answer.
LEMMA AnsweredFirst ==
    ASSUME TypeInv, LiveInv, NEW num, Served(num), NEW d \in Desc, NEW kind,
           work[d] # NoOp,
           answer' = [answer EXCEPT ![work[d]] = @ \cup {kind}]
    PROVE  /\ work[d] \in Op /\ exec[work[d]] = 1 /\ answer[work[d]] = {}
           /\ answer' = [answer EXCEPT ![work[d]] = {kind}]
<1>1. PICK op \in Op : op = work[d]
  BY DEF TypeInv, TypeOK
<1>2. Pending(d, op)
  BY <1>1 DEF Pending
<1>3. answer[op] = {} /\ Serves(d, op)
  BY <1>2, PendingServes DEF Served, AnswersInv
<1>4. exec[op] = 1
  BY <1>3 DEF Serves, Served, KeptInv
<1>5. answer[op] \cup {kind} = {kind}
  BY <1>3
<1> QED
  BY <1>1, <1>3, <1>4, <1>5

\* The performing user is told for the first time.
LEMMA ToldFirst ==
    ASSUME TypeInv, NEW num, Served(num), NEW d \in Desc, NEW kind,
           inv[d].state \in {"InvokePduReceived"} \cup AnswerState,
           cnf' = [cnf EXCEPT ![inv[d].userRef] = Append(@, kind)]
    PROVE  /\ inv[d].userRef \in Op /\ exec[inv[d].userRef] = 1
           /\ cnf[inv[d].userRef] = <<>>
           /\ cnf' = [cnf EXCEPT ![inv[d].userRef] = <<kind>>]
           /\ inv[d].state \in AnswerState =>
                answer[inv[d].userRef] = {inv[d].isResult}
<1>1. inv[d].state \in PerformerState /\ inv[d].state # "free"
  BY DEF PerformerState, AnswerState
<1>2. inv[d].userRef \in Op
  BY <1>1, RoleOf DEF Served
<1>3. exec[inv[d].userRef] = 1 /\ cnf[inv[d].userRef] = <<>>
  BY <1>1 DEF Served, KeptInv, AnswersInv
<1>4. Append(<<>>, kind) = <<kind>>
  OBVIOUS
<1>5. cnf' = [cnf EXCEPT ![inv[d].userRef] = Append(<<>>, kind)]
  BY <1>3
<1>6. inv[d].state \in AnswerState => answer[inv[d].userRef] = {inv[d].isResult}
  BY DEF Served, AnswersInv
<1> QED
  BY <1>2, <1>3, <1>4, <1>5, <1>6
=============================================================================
