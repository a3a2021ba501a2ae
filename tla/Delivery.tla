------------------------------ MODULE Delivery ------------------------------
(***************************************************************************)
(* The message transfer system delivers messages to the user agent of one  *)
(* subscriber: deliver.c of the MTS on one side, uperform.c and upreproc.c *)
(* of the UA core on the other.  A long message goes out in segments, one  *)
(* remote operation each; the UA puts them together and hands the message  *)
(* to its shell before it answers the last one.                            *)
(*                                                                         *)
(* The queue of the subscriber is that of MsgStore: one message at a time, *)
(* in order, and one that was not delivered is tried again.  Remote        *)
(* operations are those of RemoteOp.  A transition at the MTS has at most  *)
(* one event waiting for it; events at the UA are kept as a queue, since   *)
(* a segment, a confirmation and the segmentation timer may come together. *)
(* The UA submits nothing meanwhile.                                       *)
(***************************************************************************)
EXTENDS Naturals, Sequences, FiniteSets, TLC

CONSTANTS
    Messages,     \* how many messages there are, 1 .. Messages in the queue
    Segments,     \* Segments[m]: the number of segments message m needs, at
                  \* most MTSUA_MAX_SEGMENTS
    Inbound,      \* concurrentOperationsInbound: the UA's pool
    MaxRetries,   \* MTS_MAX_FAILURE_RETRIES
    MaxTries,     \* bound: how often the delivery of a message is begun
    MaxFaults     \* bound: how often memory, the shell or a request fails

Msg == 1 .. Messages

ASSUME DeliveryAssumption ==
    /\ Messages \in Nat /\ Segments \in [Msg -> Nat \ {0}]
    /\ {Inbound, MaxFaults} \subseteq Nat
    /\ {MaxRetries, MaxTries} \subseteq Nat \ {0}

Last(m) == Segments[m] - 1

\* One invocation for each message, try, segment and failure before it.  The
\* number of the segment may be one too high: see NextSegment.
Call == {c \in Msg \X (1 .. MaxTries)
                    \X (0 .. Cardinality(UNION {0 .. Last(n) : n \in Msg}))
                    \X (1 .. MaxRetries) : c[3] <= Last(c[1]) + 1}

\* Operations of the UA, in the order they are allocated: one for each first
\* segment.
OpId == 1 .. Cardinality({c \in Call : c[3] = 0})

VARIABLES
    asked, runs, answer, outcome, told,   \* the remote operations
    status,     \* status[m]: queued, delivered, or a non-delivery report is sent
    tries,      \* tries[m]: how often the delivery of m was begun
    mts,        \* the MTS's operation, or an idle or blocked queue
    seqNo,      \* the MTS's static sequenceId
    seqOf,      \* seqOf[m][t]: the sequence id of try t, 0 if not segmented
    spoilt,     \* calls whose PDU is one that was only half formatted
    skipped,    \* <<m, k>>: hCurrentBuf kept the segment before segment k of m
    active,     \* ua_globals.activeOperations
    op,         \* op[o]: an operation of the UA
    tasks,      \* events the UA has generated: <<operation, event>>
    shown,      \* what the shell was given: <<operation, contents>>
    acked,      \* messages the user was told the MTS knows are delivered
    wild,       \* memory that was freed, or never set, has been used
    faults

esroVars == <<asked, runs, answer, outcome, told>>
pduVars == <<spoilt, skipped>>
mtsVars == <<status, tries, mts, seqNo, seqOf, pduVars>>
uaVars == <<active, op, tasks, shown, acked, wild>>
vars == <<esroVars, mtsVars, uaVars, faults>>

D == INSTANCE RemoteOp WITH Op <- Call, Handshake <- 3

\* seg is the segment that hCurrentBuf is for, next is nextSegmentNumber, and
\* buf says whether the PDU is whole, or spoilt, or there is no such buffer.
Idle == [st |-> "idle", msg |-> 0, try |-> 0, seg |-> 0, next |-> 0,
         buf |-> "none", complete |-> FALSE, retryCount |-> 0, ev |-> "none"]

\* An operation before ua_allocOperation.
NoOp == [st |-> "none", call |-> <<>>, pending |-> <<>>, seq |-> 0, last |-> 0,
         segs |-> <<>>, complete |-> FALSE, timer |-> FALSE]

Init ==
    /\ D!AbsInit
    /\ status = [m \in Msg |-> "queued"]
    /\ tries = [m \in Msg |-> 0]
    /\ mts = Idle
    /\ seqNo = 0 /\ seqOf = [m \in Msg |-> [t \in 1 .. MaxTries |-> 0]]
    /\ spoilt = {} /\ skipped = {}
    /\ active = <<>> /\ op = [o \in OpId |-> NoOp] /\ tasks = <<>>
    /\ shown = {} /\ acked = {} /\ wild = FALSE
    /\ faults = 0

Fault == faults < MaxFaults /\ faults' = faults + 1
NoFault == faults' = faults

-----------------------------------------------------------------------------
(* The message transfer system.                                            *)

\* The invocation of segment k for operation r.
Invocation(r, k) == <<r.msg, r.try, k, r.retryCount + 1>>

\* mts_issueInvoke succeeds, and the operation is r; or ESRO_CB_invokeReq
\* declines, a FAILURE.ind is generated, and the operation is s.
mts_issueInvoke(c, r, s) ==
    \/ /\ D!Request(c)
       /\ mts' = [r EXCEPT !.ev = "none"]
       /\ NoFault
    \/ /\ Fault
       /\ D!Decline(c)
       /\ mts' = [s EXCEPT !.ev = "failure"]

\* formatAndInvoke, for the segment of call c.  The PDU is built and issued;
\* or its buffer cannot be put on the list of what is to be freed, and is
\* freed; or it is left half formatted; or no buffer can be allocated, and
\* hCurrentBuf is what it was.  Each failure generates a FAILURE.ind.
formatAndInvoke(c, r, s) ==
    \/ /\ mts_issueInvoke(c, [r EXCEPT !.seg = c[3], !.buf = "whole"],
                             [s EXCEPT !.seg = c[3], !.buf = "whole"])
       /\ UNCHANGED pduVars
    \/ /\ Fault
       /\ \E buf \in {"none", "spoilt"} :
             mts' = [s EXCEPT !.seg = c[3], !.buf = buf, !.ev = "failure"]
       /\ UNCHANGED <<esroVars, pduVars>>
    \/ /\ Fault /\ s.buf = "whole"
       /\ mts' = [s EXCEPT !.ev = "failure"]
       /\ skipped' = skipped \cup {<<c[1], c[3]>>}
       /\ UNCHANGED <<esroVars, spoilt>>

\* mts_tryDelivery takes the first message that waits; aS1S2a sends all of it,
\* or its first segment under a new sequence id.  The operation is marked
\* complete after a whole message has gone out, not when that failed.
mts_tryDelivery(m) ==
    LET r == [Idle EXCEPT !.st = "wait", !.msg = m, !.try = tries[m] + 1,
                          !.next = 1]
    IN  /\ mts.st = "idle"
        /\ status[m] = "queued" /\ tries[m] < MaxTries
        /\ \A n \in Msg : n < m => status[n] # "queued"
        /\ tries' = [tries EXCEPT ![m] = @ + 1]
        /\ seqNo' = IF Last(m) > 0 THEN seqNo + 1 ELSE seqNo
        /\ seqOf' = [seqOf EXCEPT ![m][r.try] = IF Last(m) > 0 THEN seqNo' ELSE 0]
        /\ formatAndInvoke(Invocation(r, 0), [r EXCEPT !.complete = Last(m) = 0], r)
        /\ UNCHANGED <<status, uaVars>>

\* mts_resultIndication, mts_errorIndication, mts_failureIndication.
mts_indication ==
    /\ mts.st = "wait" /\ mts.ev = "none"
    /\ \E kind \in {"result", "error", "failure"} :
          /\ D!Indicate(Invocation(mts, mts.seg), kind)
          /\ mts' = [mts EXCEPT !.ev = kind]
    /\ UNCHANGED <<status, tries, seqNo, seqOf, pduVars, uaVars, faults>>

\* aS2S1a: RESULT.ind, last segment.  The files of the message are deleted.
DeliverySucceeded ==
    /\ mts.ev = "result" /\ mts.complete
    /\ status' = [status EXCEPT ![mts.msg] = "delivered"]
    /\ mts' = Idle
    /\ UNCHANGED <<esroVars, tries, seqNo, seqOf, pduVars, uaVars, faults>>

\* Mutant: complete one segment early.
NextSegmentEarly ==
    LET k == mts.next
        r == [mts EXCEPT !.next = k + 1, !.complete = k + 1 >= Last(mts.msg)]
    IN  /\ mts.ev = "result" /\ ~mts.complete
        /\ \/ formatAndInvoke(Invocation(mts, k), r, r) /\ UNCHANGED wild
           \/ /\ Fault
              /\ wild' = TRUE
              /\ UNCHANGED <<esroVars, mts, pduVars>>
        /\ UNCHANGED <<status, tries, seqNo, seqOf, active, op, tasks, shown, acked>>

\* aS2S2a: RESULT.ind, and the operation is not complete.  The next segment is
\* sent, if there is one or not: a message that is not segmented has sequence
\* id zero and an empty second segment.  The segment counts as sent even if it
\* could not be; if it cannot be cloned, what is formatted is a handle that was
\* never set.
NextSegment ==
    LET k == mts.next
        r == [mts EXCEPT !.next = k + 1, !.complete = k >= Last(mts.msg)]
    IN  /\ mts.ev = "result" /\ ~mts.complete
        /\ \/ formatAndInvoke(Invocation(mts, k), r, r) /\ UNCHANGED wild
           \/ /\ Fault
              /\ wild' = TRUE
              /\ UNCHANGED <<esroVars, mts, pduVars>>
        /\ UNCHANGED <<status, tries, seqNo, seqOf, active, op, tasks, shown, acked>>

\* aS2S1c: ERROR.ind.  A non-delivery report is sent, and the queue of the
\* subscriber stays in RQ_DELIVERING.  (pS2S1b never finds a transient error.)
Reject ==
    /\ mts.ev = "error"
    /\ status' = [status EXCEPT ![mts.msg] = "ndr"]
    /\ mts' = [Idle EXCEPT !.st = "blocked"]
    /\ UNCHANGED <<esroVars, tries, seqNo, seqOf, pduVars, uaVars, faults>>

\* Mutant: the segment is not invoked again.
RetryIdle ==
    LET r == [mts EXCEPT !.retryCount = @ + 1, !.ev = "none"]
    IN  /\ mts.ev = "failure" /\ r.retryCount < MaxRetries
        /\ mts' = r
        /\ UNCHANGED <<esroVars, status, tries, seqNo, seqOf, pduVars, uaVars,
                       faults>>

\* aS2S2b: FAILURE.ind (pS2S1d counts it); what is in hCurrentBuf is invoked
\* again, or for the first time, whether it is still there or not.
Retry ==
    LET r == [mts EXCEPT !.retryCount = @ + 1]
        c == Invocation(r, r.seg)
    IN  /\ mts.ev = "failure" /\ r.retryCount < MaxRetries
        /\ IF mts.buf = "none"
             THEN wild' = TRUE /\ UNCHANGED <<esroVars, mts, spoilt, faults>>
             ELSE /\ mts_issueInvoke(c, r, r)
                  /\ spoilt' = IF mts.buf = "spoilt" THEN spoilt \cup {c} ELSE spoilt
                  /\ UNCHANGED wild
        /\ UNCHANGED <<status, tries, seqNo, seqOf, skipped, active, op, tasks,
                       shown, acked>>

\* aS2S1d: FAILURE.ind once too often.  The message stays in the queue.
Respool ==
    /\ mts.ev = "failure" /\ mts.retryCount + 1 >= MaxRetries
    /\ mts' = Idle
    /\ UNCHANGED <<esroVars, status, tries, seqNo, seqOf, pduVars, uaVars,
                   faults>>

-----------------------------------------------------------------------------
(* The user agent: indications of the service.                             *)

Occupied(P(_)) == {i \in 1 .. Len(active) : P(op[active[i]])}

First(I) == active[CHOOSE i \in I : \A j \in I : i <= j]

findOperationByInvokeId(c) ==
    LET P(r) == r.call = c
    IN  IF Occupied(P) = {} THEN 0 ELSE First(Occupied(P))

\* findOperationBySequenceId: the oldest operation with the sequence id.
findOperationBySequenceId(seq) ==
    LET P(r) == r.seq = seq
    IN  IF Occupied(P) = {} THEN 0 ELSE First(Occupied(P))

FSM_generateEvent(o, ev) ==
    tasks' = IF o = 0 THEN tasks ELSE Append(tasks, <<o, ev>>)

\* The operation for an invocation: a new one for a first segment or a whole
\* message, while the pool is not empty; 0 if there is none.
OperationFor(c) ==
    IF c[3] > 0 THEN findOperationBySequenceId(seqOf[c[1]][c[2]])
    ELSE IF Len(active) = Inbound THEN 0
    ELSE CHOOSE o \in OpId : /\ op[o].st = "none"
                             /\ \A p \in OpId : p < o => op[p].st # "none"

\* Operation o was left by ua_invokeRefused, and is not in use.
Leaked(o) == op[o].st = "leaked"

\* ua_invokeIndication and ua_preprocessInvokeIndication: the invocation waits
\* in the operation's own queue.
ua_invokeIndication(c) ==
    LET o == OperationFor(c)
    IN  /\ D!Perform(c)
        /\ c \notin spoilt /\ o # 0 /\ ~Leaked(o)
        /\ op' = [op EXCEPT ![o].pending = Append(@, c),
                            ![o].st = IF @ = "none" THEN "s1" ELSE @]
        /\ active' = IF c[3] = 0 THEN Append(active, o) ELSE active
        /\ FSM_generateEvent(o, "invoke")
        /\ UNCHANGED <<mtsVars, shown, acked, wild, faults>>

\* Mutant: the operation is not given back.
FreeLinked(o) == UNCHANGED active

\* ua_freeOperation.
Free(o) ==
    \E i \in 1 .. Len(active) :
        /\ active[i] = o
        /\ active' = SubSeq(active, 1, i - 1) \o SubSeq(active, i + 1, Len(active))

Release(o, r) ==
    /\ Free(o)
    /\ op' = [op EXCEPT ![o] = [r EXCEPT !.st = "free", !.pending = <<>>]]

\* ... or the invocation is answered with an error: a PDU that cannot be parsed,
\* no operation, or a failure to allocate.  That may free the operation that was
\* found; or, the last one, leave a new operation to the pool's loss.
ua_invokeRefused(c) ==
    LET o == OperationFor(c)
    IN  /\ D!PerformAndAnswer(c, "error")
        /\ \/ /\ IF c \in spoilt \/ o = 0 THEN NoFault ELSE Fault
              /\ UNCHANGED <<active, op>>
           \/ /\ c \notin spoilt /\ o # 0 /\ Fault
              /\ op[o].st \notin {"none", "leaked"}
              /\ Release(o, op[o])
           \/ /\ c \notin spoilt /\ o # 0 /\ Fault
              /\ op[o].st = "none"
              /\ op' = [op EXCEPT ![o].st = "leaked"]
              /\ active' = Append(active, o)
        /\ UNCHANGED <<mtsVars, tasks, shown, acked, wild>>

\* The same last failure for an operation that was found: what waits there last
\* is freed, and will be used or freed again.  A leaked operation has that.
ua_invokeStale(c) ==
    LET o == OperationFor(c)
    IN  /\ c \in asked \ spoilt /\ runs[c] = 0
        /\ o # 0 /\ op[o].st # "none"
        /\ IF Leaked(o) THEN NoFault ELSE Fault
        /\ wild' = TRUE
        /\ UNCHANGED <<esroVars, mtsVars, active, op, tasks, shown, acked>>

\* An operation that has taken c up, or that will.
Waits(c) ==
    \E o \in OpId : \/ op[o].call = c /\ op[o].st # "free"
                    \/ \E i \in 1 .. Len(op[o].pending) : op[o].pending[i] = c

\* ua_resultConfirm, ua_errorConfirm, ua_failureIndication.  One that no
\* operation has a use for is ignored ("unknown invoke id") and left out.
ua_confirm(c) ==
    /\ Waits(c)
    /\ \E kind \in {"result", "error", "failure"} :
          /\ D!Tell(c, kind)
          /\ FSM_generateEvent(findOperationByInvokeId(c),
                               CASE kind = "result" -> "resultCon"
                                 [] kind = "error" -> "errorCon"
                                 [] OTHER -> "failure")
    /\ UNCHANGED <<mtsVars, active, op, shown, acked, wild, faults>>

-----------------------------------------------------------------------------
(* The user agent: transitions of the state machine of an operation.       *)

\* pS1S2a takes the first invocation that waits.
Dequeued(r) ==
    IF r.pending = <<>> THEN r
    ELSE [r EXCEPT !.call = Head(r.pending), !.pending = Tail(r.pending)]

\* Mutant: the mask of expected segments is one bit short.
JoinedShort(r) ==
    LET m == r.call[1]
        k == r.call[3]
        first == [r EXCEPT !.seq = seqOf[m][r.call[2]], !.last = Last(m),
                           !.segs = [i \in {0} |-> m], !.complete = Last(m) = 0,
                           !.timer = Last(m) > 0]
        segs == [i \in DOMAIN r.segs \cup {k} |-> IF i = k THEN m ELSE r.segs[i]]
        all == DOMAIN segs = 0 .. r.last - 1
        other == [r EXCEPT !.segs = segs, !.complete = all,
                           !.timer = @ /\ ~all]
    IN  IF k = 0 THEN first ELSE other

\* Mutant: the segmentation timer is not started.
JoinedUntimed(r) ==
    LET m == r.call[1]
        k == r.call[3]
        first == [r EXCEPT !.seq = seqOf[m][r.call[2]], !.last = Last(m),
                           !.segs = [i \in {0} |-> m], !.complete = Last(m) = 0]
        segs == [i \in DOMAIN r.segs \cup {k} |-> IF i = k THEN m ELSE r.segs[i]]
        other == [r EXCEPT !.segs = segs,
                           !.complete = DOMAIN segs = 0 .. r.last]
    IN  IF k = 0 THEN first ELSE other

\* ... and takes up its segment.
Joined(r) ==
    LET m == r.call[1]
        k == r.call[3]
        first == [r EXCEPT !.seq = seqOf[m][r.call[2]], !.last = Last(m),
                           !.segs = [i \in {0} |-> m], !.complete = Last(m) = 0,
                           !.timer = Last(m) > 0]
        segs == [i \in DOMAIN r.segs \cup {k} |-> IF i = k THEN m ELSE r.segs[i]]
        all == DOMAIN segs = 0 .. r.last
        other == [r EXCEPT !.segs = segs, !.complete = all,
                           !.timer = @ /\ ~all]
    IN  IF k = 0 THEN first ELSE other

\* A segment that is not too high and not there yet.
Acceptable(r) ==
    LET k == r.call[3] IN k > 0 => k <= r.last /\ k \notin DOMAIN r.segs

\* The first task is event ev for operation o, which has not been freed.
Task(o, st, ev) ==
    /\ tasks # <<>> /\ Head(tasks) = <<o, ev>>
    /\ op[o].st = st
    /\ UNCHANGED <<mtsVars, wild>>

Moved(o, r, st) ==
    /\ op' = [op EXCEPT ![o] = [r EXCEPT !.st = st]]
    /\ UNCHANGED active

\* pS1S2a, aS1S2a: take up the segment, hand the message to the shell with the
\* last one, and answer with a result.  If the result cannot be sent a failure
\* is generated.
aS1S2a(o) ==
    LET r == Dequeued(op[o])
        j == Joined(r)
    IN  /\ Task(o, "s1", "invoke")
        /\ op[o].pending # <<>> /\ Acceptable(r)
        /\ \/ /\ told[r.call] = <<>> /\ NoFault
              /\ D!Answer(r.call, "result")
              /\ tasks' = Tail(tasks)
           \/ /\ IF told[r.call] = <<>> THEN Fault ELSE NoFault
              /\ tasks' = Append(Tail(tasks), <<o, "failure">>)
              /\ UNCHANGED esroVars
        /\ shown' = IF j.complete THEN shown \cup {<<o, j.segs>>} ELSE shown
        /\ Moved(o, j, "s2")
        /\ UNCHANGED acked

\* aS1S4a: nothing waits, or the segment is not acceptable, or cannot be copied,
\* or the message cannot be parsed or handed over; answer with an error.
aS1S4a(o) ==
    LET r == Dequeued(op[o])
        c == r.call
        j == Joined(r)
        uncopied == IF c[3] = 0 THEN [r EXCEPT !.seq = seqOf[c[1]][c[2]]] ELSE r
    IN  /\ Task(o, "s1", "invoke")
        /\ \/ op[o].pending = <<>> /\ NoFault /\ Moved(o, r, "s4")
           \/ /\ op[o].pending # <<>>
              /\ \/ ~Acceptable(r) /\ NoFault /\ Moved(o, r, "s4")
                 \/ Acceptable(r) /\ Fault /\ Moved(o, uncopied, "s4")
                 \/ Acceptable(r) /\ Fault /\ j.complete /\ Moved(o, j, "s4")
        /\ IF told[c] = <<>> /\ answer[c] = {}
             THEN D!Answer(c, "error") ELSE UNCHANGED esroVars
        /\ tasks' = Tail(tasks)
        /\ UNCHANGED <<shown, acked>>

\* Mutant: the user is told on a failure too.
aS2S1dAcked(o) ==
    /\ Task(o, "s2", "failure") /\ op[o].complete
    /\ acked' = acked \cup {op[o].segs[0]}
    /\ Release(o, op[o])
    /\ tasks' = Tail(tasks)
    /\ UNCHANGED <<esroVars, shown, faults>>

\* aS2S1a: RESULT.con for the last segment.
aS2S1a(o) ==
    /\ Task(o, "s2", "resultCon") /\ op[o].complete
    /\ acked' = acked \cup {op[o].segs[0]}
    /\ Release(o, op[o])
    /\ tasks' = Tail(tasks)
    /\ UNCHANGED <<esroVars, shown, faults>>

\* aS2S1b: RESULT.con for any other; a segment may wait already.
aS2S1b(o) ==
    /\ Task(o, "s2", "resultCon") /\ ~op[o].complete
    /\ Moved(o, op[o], "s1")
    /\ tasks' = IF op[o].pending = <<>> THEN Tail(tasks)
                ELSE Append(Tail(tasks), <<o, "invoke">>)
    /\ UNCHANGED <<esroVars, shown, acked, faults>>

\* pS2S1e, aS2S1e: FAILURE.ind while segments are missing frees the operation.
aS2S1e(o) ==
    /\ Task(o, "s2", "failure") /\ ~op[o].complete
    /\ Release(o, op[o])
    /\ tasks' = Tail(tasks)
    /\ UNCHANGED <<esroVars, shown, acked, faults>>

\* aS2S1d: FAILURE.ind otherwise (delivery verification is never supported).
aS2S1d(o) ==
    /\ Task(o, "s2", "failure") /\ op[o].complete
    /\ IF op[o].timer THEN Moved(o, op[o], "s1") ELSE Release(o, op[o])
    /\ tasks' = Tail(tasks)
    /\ UNCHANGED <<esroVars, shown, acked, faults>>

\* aS2S2a: a segment that comes before the confirmation of the one before it
\* stays in the queue.
aS2S2a(o) ==
    /\ Task(o, "s2", "invoke")
    /\ tasks' = Tail(tasks)
    /\ UNCHANGED <<esroVars, op, active, shown, acked, faults>>

\* aS4S1a, aS4S1b.
aS4S1a(o) ==
    /\ Task(o, "s4", "errorCon") \/ Task(o, "s4", "failure")
    /\ Release(o, op[o])
    /\ tasks' = Tail(tasks)
    /\ UNCHANGED <<esroVars, shown, acked, faults>>

Expected ==
    {<<"s1", "invoke">>, <<"s2", "resultCon">>, <<"s2", "failure">>,
     <<"s2", "invoke">>, <<"s4", "errorCon">>, <<"s4", "failure">>}

aUnexpectedEvent(o) ==
    /\ \E st \in {"s1", "s2", "s4"} :
          \E ev \in {"invoke", "resultCon", "errorCon", "failure"} :
              <<st, ev>> \notin Expected /\ Task(o, st, ev)
    /\ Release(o, op[o])
    /\ tasks' = Tail(tasks)
    /\ UNCHANGED <<esroVars, shown, acked, faults>>

\* FSM_runMachine with an operation that was freed after the event was
\* generated.
RunFreed(o) ==
    /\ tasks # <<>> /\ Head(tasks)[1] = o /\ op[o].st = "free"
    /\ wild' = TRUE
    /\ UNCHANGED <<esroVars, mtsVars, active, op, tasks, shown, acked, faults>>

\* segmentationTimerExpired frees the operation, whatever it is doing; nothing
\* else that frees it stops the timer.
segmentationTimerExpired(o) ==
    /\ op[o].timer
    /\ IF op[o].st = "free"
         THEN wild' = TRUE /\ UNCHANGED <<op, active>>
         ELSE Release(o, [op[o] EXCEPT !.timer = FALSE]) /\ UNCHANGED wild
    /\ UNCHANGED <<esroVars, mtsVars, tasks, shown, acked, faults>>

-----------------------------------------------------------------------------

MtsTransition ==
    \/ DeliverySucceeded \/ NextSegment \/ Reject \/ Retry \/ Respool

Transition(o) ==
    \/ aS1S2a(o) \/ aS1S4a(o) \/ aS2S1a(o) \/ aS2S1b(o) \/ aS2S1d(o)
    \/ aS2S1e(o) \/ aS2S2a(o) \/ aS4S1a(o) \/ aUnexpectedEvent(o)
    \/ RunFreed(o)

\* What happens after memory that was freed was used is not modelled.
Next ==
    /\ ~wild
    /\ \/ \E m \in Msg : mts_tryDelivery(m)
       \/ mts_indication \/ MtsTransition
       \/ \E c \in Call : \/ ua_invokeIndication(c) \/ ua_invokeRefused(c)
                          \/ ua_invokeStale(c) \/ ua_confirm(c)
       \/ \E o \in OpId : Transition(o) \/ segmentationTimerExpired(o)

Spec == Init /\ [][Next]_vars

\* ESROS answers the MTS, and tells the UA what became of its answer.  Tasks
\* run, and a timer that is not stopped expires.
Fairness ==
    /\ WF_vars(~wild /\ mts_indication)
    /\ WF_vars(~wild /\ MtsTransition)
    /\ \A c \in Call : WF_vars(~wild /\ answer[c] # {} /\ ua_confirm(c))
    /\ \A o \in OpId :
          /\ WF_vars(~wild /\ Transition(o))
          /\ WF_vars(~wild /\ segmentationTimerExpired(o))

FairSpec == Spec /\ Fairness

-----------------------------------------------------------------------------

\* Type correctness.
DeliveryTypeOK ==
    /\ asked \subseteq Call
    /\ status \in [Msg -> {"queued", "delivered", "ndr"}]
    /\ tries \in [Msg -> 0 .. MaxTries]
    /\ mts.st \in {"idle", "wait", "blocked"} /\ mts.retryCount < MaxRetries
    /\ seqNo \in Nat /\ acked \subseteq Msg
    /\ Len(active) <= Inbound
    /\ \A o \in OpId : op[o].st \in {"none", "free"} <=>
                          \A i \in 1 .. Len(active) : active[i] # o
    /\ \A i \in 1 .. Len(tasks) : tasks[i][1] \in OpId
    /\ wild \in BOOLEAN /\ faults \in 0 .. MaxFaults

\* The contents of message m, put together.
Whole(m) == [k \in 0 .. Last(m) |-> m]

\* A segment too many has got among the segments f, see NextSegment.
Mixed(f) == \E k \in DOMAIN f : k > Last(f[k])

\* What the shell is given is one message with all of its segments in place,
\* unless it was put together with a segment too many.
ShownWhole == \A s \in shown : Mixed(s[2]) \/ \E m \in Msg : s[2] = Whole(m)

\* When the MTS takes a message off its queue as delivered, and deletes its
\* files, the user has it, unless a segment was skipped for want of a buffer.
DeliveredShown ==
    \A m \in Msg : status[m] = "delivered" =>
        \/ \E s \in shown : s[2] = Whole(m)
        \/ \E k \in 1 .. Last(m) : <<m, k>> \in skipped

\* When the user is told that the MTS knows of the delivery, the MTS does: it
\* sends no non-delivery report, and does not send the message again.  (For a
\* message in segments.  One in one piece has a segment too many sent after it
\* if ESRO declined its first invocation.)
AckedFinal ==
    \A m \in acked : Last(m) > 0 =>
        \/ status[m] = "delivered"
        \/ /\ mts.st = "wait" /\ mts.msg = m /\ mts.complete
           /\ mts.ev = "result"

\* A delivery that was begun comes to an end.
DeliveryEnds == (mts.st = "wait") ~> (mts.st # "wait" \/ wild)

\* The error could not be sent, as the failure of its invocation was indicated
\* before the operation took the invocation up.
Stranded(o) == op[o].st = "s4" /\ answer[op[o].call] = {}

\* An operation of the UA goes back to the pool, but for one that waits for the
\* confirmation of an error that was never sent, and one that leaked as memory
\* ran out when it was new.
InboundReturned ==
    \A o \in OpId : (op[o].st # "none") ~>
        (op[o].st = "free" \/ Stranded(o) \/ Leaked(o) \/ wild)

\* The segmentation timer, "which will expire and free the operation", does not
\* run for an operation that was freed.
TimerOfLive == \A o \in OpId : op[o].timer => op[o].st # "free"
=============================================================================
