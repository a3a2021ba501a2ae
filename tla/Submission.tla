----------------------------- MODULE Submission -----------------------------
(***************************************************************************)
(* A user agent submits messages to its message transfer system: submit.c  *)
(* of the UA core on one side, mperform.c, mpreproc.c and segment.c of the *)
(* MTS on the other.  A long message goes out in segments, one remote      *)
(* operation each; the MTS puts them together and passes the message on    *)
(* when it knows that the UA knows that it has it.                         *)
(*                                                                         *)
(* The two talk through the ESRO service, taken from RemoteOp: submissions *)
(* by three-way operations (S), the MTS's question whether a message was   *)
(* really meant to be sent by two-way ones (V).                            *)
(*                                                                         *)
(* An indication of the service only finds the operation and queues an     *)
(* event for its state machine (FSM_generateEvent); the transition runs as *)
(* a task of its own.  At the UA one event at most is pending for a        *)
(* message.  At the MTS a second indication, or the segmentation timer,    *)
(* may come in between, so the pending events are kept as a queue.         *)
(***************************************************************************)
EXTENDS Naturals, Sequences, FiniteSets

CONSTANTS
    Msg,           \* messages the user submits, each once
    Segments,      \* Segments[m]: the number of segments message m needs
    Outbound,      \* concurrentOperationsOutbound: submissions at a time
    VerifySlots,   \* elements of the UA's submission verify queue (five)
    MaxRestarts,   \* bound: how often the UA is stopped and started again
    MaxFaults      \* bound: how often memory, a file or a request fails

ASSUME SubmissionAssumption ==
    /\ IsFiniteSet(Msg)
    /\ Segments \in [Msg -> Nat \ {0}]
    /\ Outbound \in Nat /\ VerifySlots \in Nat \ {0}
    /\ MaxRestarts \in Nat /\ MaxFaults \in Nat

Last(m) == Segments[m] - 1

\* One invocation for each segment of each message.
Call == UNION {{m} \X (0 .. Last(m)) : m \in Msg}

\* Operations of the MTS, in the order they are allocated.
OpId == 1 .. Cardinality(Call)

VARIABLES
    sAsked, sRuns, sAnswer, sOutcome, sTold,   \* the calls that submit
    vAsked, vRuns, vAnswer, vOutcome, vTold,   \* the calls that verify
    resultId,   \* resultId[c]: the message id in the RESULT for call c
    ua,         \* ua[m]: the UA's operation for message m
    seqNo,      \* the UA's static sequenceId
    seqOf,      \* seqOf[m]: the sequence id message m was given
    ring,       \* the submission verify queue, in non-volatile memory
    asking,     \* questions of the MTS the UA has been handed
    user,       \* user[m]: what the user was told about m
    active,     \* globals.activeOperations of the MTS
    op,         \* op[o]: an operation of the MTS
    tasks,      \* events the MTS has generated: <<operation, event>>
    wild,       \* the MTS has used an operation that was freed
    restarts, faults

sVars == <<sAsked, sRuns, sAnswer, sOutcome, sTold>>
vVars == <<vAsked, vRuns, vAnswer, vOutcome, vTold>>
uaVars == <<ua, seqNo, seqOf, ring, asking, user>>
mtsVars == <<active, op, tasks, wild, resultId>>
vars == <<sVars, vVars, uaVars, mtsVars, restarts, faults>>

S == INSTANCE RemoteOp WITH Op <- Call, Handshake <- 3, asked <- sAsked,
       runs <- sRuns, answer <- sAnswer, outcome <- sOutcome, told <- sTold
V == INSTANCE RemoteOp WITH Op <- OpId, Handshake <- 2, asked <- vAsked,
       runs <- vRuns, answer <- vAnswer, outcome <- vOutcome, told <- vTold

\* An operation before mts_allocOperation.
NoOp == [st |-> "none", call |-> <<>>, seq |-> 0, last |-> 0, segs |-> <<>>,
         complete |-> FALSE, timer |-> FALSE, verdict |-> "none",
         fate |-> "none"]

\* The heads of the queues of active and of inactive elements; the elements
\* are 1 .. VerifySlots.
Active == 0
Inactive == VerifySlots + 1
Node == Active .. Inactive

\* NVM_quInit and five times NVM_quInsert: all elements are inactive.
ringInit ==
    [next |-> [n \in Node |-> IF n = Active THEN Active
                              ELSE IF n = Inactive THEN 1 ELSE n + 1],
     prev |-> [n \in Node |-> IF n = Active THEN Active
                              ELSE IF n = 1 THEN Inactive ELSE n - 1],
     id |-> [n \in Node |-> 0]]

Init ==
    /\ S!AbsInit /\ V!AbsInit
    /\ resultId = [c \in Call |-> 0]
    /\ ua = [m \in Msg |-> [st |-> "new", seg |-> 0, ev |-> "none"]]
    /\ seqNo = 0 /\ seqOf = [m \in Msg |-> 0]
    /\ ring = ringInit /\ asking = {}
    /\ user = [m \in Msg |-> {}]
    /\ active = <<>> /\ op = [o \in OpId |-> NoOp]
    /\ tasks = <<>> /\ wild = FALSE
    /\ restarts = 0 /\ faults = 0

\* Memory, a file or a request fails.
Fault == faults < MaxFaults /\ faults' = faults + 1
NoFault == faults' = faults

-----------------------------------------------------------------------------
(* The user agent.                                                         *)

Current(m) == <<m, ua[m].seg>>

\* SBM_quInsert: element n goes in front of b, and whatever n is linked to
\* comes along.
NVM_quInsert(q, n, b) ==
    [q EXCEPT !.next = [@ EXCEPT ![q.prev[b]] = n, ![q.prev[n]] = b],
              !.prev = [@ EXCEPT ![n] = q.prev[b], ![b] = q.prev[n]]]

NVM_quRemove(q, n) ==
    [q EXCEPT !.prev = [@ EXCEPT ![q.next[n]] = q.prev[n], ![n] = n],
              !.next = [@ EXCEPT ![q.prev[n]] = q.next[n], ![n] = n]]

\* Remember the id of a submitted message: take the first inactive element,
\* or else the oldest active one, and make it the last active one.
Remember(q, id) ==
    LET spare == q.next[Inactive] # Inactive
        n == IF spare THEN q.next[Inactive] ELSE q.next[Active]
        r == IF spare THEN q ELSE NVM_quRemove(q, n)
    IN  NVM_quInsert([r EXCEPT !.id[n] = id], n, Active)

\* The nodes NVM_quNext leads to from the head of the active queue: those in
\* every set that has the first one and what follows each but the head.
walk(q) ==
    {n \in Node : \A X \in SUBSET Node :
        /\ q.next[Active] \in X
        /\ \A x \in X \ {Active} : q.next[x] \in X
        => n \in X}

\* The message id is found before the walk is back at the head.
Remembered(q, id) == \E n \in walk(q) \ {Active} : q.id[n] = id

\* ua_issueInvoke succeeds, or ESRO_CB_invokeReq declines and a FAILURE.ind is
\* generated.
ua_issueInvoke(m, c) ==
    \/ /\ S!Request(c)
       /\ ua' = [ua EXCEPT ![m] = [st |-> "wait", seg |-> c[2], ev |-> "none"]]
       /\ NoFault
    \/ /\ Fault
       /\ S!Decline(c)
       /\ ua' = [ua EXCEPT ![m] = [st |-> "wait", seg |-> c[2],
                                   ev |-> "failure"]]

\* UA_submitMessage and aS1S2a: the first segment, or all of the message.  A
\* message in segments gets the next sequence id.  While the pool of outbound
\* operations is empty the user cannot submit.
UA_submitMessage(m) ==
    /\ ua[m].st = "new"
    /\ Cardinality({n \in Msg : ua[n].st = "wait"}) < Outbound
    /\ seqNo' = IF Last(m) > 0 THEN seqNo + 1 ELSE seqNo
    /\ seqOf' = [seqOf EXCEPT ![m] = IF Last(m) > 0 THEN seqNo' ELSE 0]
    /\ ua_issueInvoke(m, <<m, 0>>)
    /\ UNCHANGED <<vVars, ring, asking, user, mtsVars, restarts>>

\* ua_resultIndication, ua_errorIndication, ua_failureIndication.  A result or
\* an error that cannot be copied or parsed "never happened".
ua_indication(m) ==
    /\ ua[m].st = "wait" /\ ua[m].ev = "none"
    /\ \E kind \in {"result", "error", "failure"} :
          /\ S!Indicate(Current(m), kind)
          /\ \/ ua' = [ua EXCEPT ![m].ev = kind] /\ NoFault
             \/ kind # "failure" /\ Fault /\ UNCHANGED ua
    /\ UNCHANGED <<vVars, seqNo, seqOf, ring, asking, user, mtsVars, restarts>>

Finish(m, what) ==
    /\ user' = [user EXCEPT ![m] = @ \cup {what}]
    /\ ua' = [ua EXCEPT ![m] = [@ EXCEPT !.st = "done", !.ev = "none"]]

\* aS2S1a: the last segment was accepted.
SubmitSuccess(m) ==
    /\ ua[m].ev = "result" /\ ua[m].seg = Last(m)
    /\ ring' = Remember(ring, resultId[Current(m)])
    /\ Finish(m, "success")
    /\ UNCHANGED <<sVars, vVars, seqNo, seqOf, asking, mtsVars, restarts,
                   faults>>

\* Mutant: the next segment is not sent.
NextSegmentIdle(m) ==
    /\ ua[m].ev = "result" /\ ua[m].seg < Last(m)
    /\ ua' = [ua EXCEPT ![m].ev = "none", ![m].seg = @ + 1]
    /\ UNCHANGED <<sVars, vVars, seqNo, seqOf, ring, asking, user, mtsVars,
                   restarts, faults>>

\* aS2S2a: a segment was accepted, here comes the next.
NextSegment(m) ==
    /\ ua[m].ev = "result" /\ ua[m].seg < Last(m)
    /\ ua_issueInvoke(m, <<m, ua[m].seg + 1>>)
    /\ UNCHANGED <<vVars, seqNo, seqOf, ring, asking, user, mtsVars,
                   restarts>>

\* aS2S1b, aS2S1c, aS2S1d: an error or a failure ends the submission, as
\* UA_MAX_FAILURE_RETRIES is zero.
SubmitFail(m) ==
    /\ ua[m].ev \in {"error", "failure"}
    /\ Finish(m, "fail")
    /\ UNCHANGED <<sVars, vVars, seqNo, seqOf, ring, asking, mtsVars,
                   restarts, faults>>

\* The UA is handed a question of the MTS.
ua_invokeIndication(o) ==
    /\ V!Perform(o)
    /\ asking' = asking \cup {o}
    /\ UNCHANGED <<sVars, ua, seqNo, seqOf, ring, user, mtsVars, restarts,
                   faults>>

\* ... and cannot take it.
ua_invokeRefused(o) ==
    /\ Fault
    /\ V!PerformAndAnswer(o, "error")
    /\ UNCHANGED <<sVars, uaVars, mtsVars, restarts>>

\* aS1S5a: is the message among those submitted?  The buffer with the answer
\* is passed where a DU view is expected: what goes out may be no answer the
\* MTS can parse, or nothing.
aS1S5a(o) ==
    /\ o \in asking /\ asking' = asking \ {o}
    /\ \/ V!Answer(o, IF Remembered(ring, o) THEN "send" ELSE "drop")
       \/ V!Answer(o, "garbled")
       \/ UNCHANGED vVars
    /\ UNCHANGED <<sVars, ua, seqNo, seqOf, ring, user, mtsVars, restarts,
                   faults>>

\* The UA stops and is started again.  Only the verify queue survives.
UaRestart ==
    /\ restarts < MaxRestarts
    /\ restarts' = restarts + 1
    /\ ua' = [m \in Msg |-> IF ua[m].st = "wait"
                              THEN [ua[m] EXCEPT !.st = "gone", !.ev = "none"]
                              ELSE ua[m]]
    /\ seqNo' = 0 /\ asking' = {}
    /\ UNCHANGED <<sVars, vVars, seqOf, ring, user, mtsVars, faults>>

-----------------------------------------------------------------------------
(* The MTS: indications of the service.                                    *)

Occupied(P(_)) == {i \in 1 .. Len(active) : P(op[active[i]])}

First(I) == active[CHOOSE i \in I : \A j \in I : i <= j]

\* findOperationByInvokeId.  The call is <<m, k>>, or <<o>> for a question.
findOperationByInvokeId(c) ==
    LET P(r) == r.call = c
    IN  IF Occupied(P) = {} THEN 0 ELSE First(Occupied(P))

\* Mutant: any operation that still waits for segments will do.
findAnyOperation(seq) ==
    LET P(r) == r.seq > 0
    IN  IF Occupied(P) = {} THEN 0 ELSE First(Occupied(P))

\* findOperationBySequenceId: the oldest operation of this device that has the
\* sequence id.
findOperationBySequenceId(seq) ==
    LET P(r) == r.seq = seq
    IN  IF Occupied(P) = {} THEN 0 ELSE First(Occupied(P))

FSM_generateEvent(o, ev) ==
    tasks' = IF o = 0 THEN tasks ELSE Append(tasks, <<o, ev>>)

\* mts_allocOperation.
FreshOp == CHOOSE o \in OpId : /\ op[o].st = "none"
                               /\ \A p \in OpId : p < o => op[p].st # "none"

\* mts_invokeIndication: a first segment, or a whole message, gets a new
\* operation; any other segment goes to the one with its sequence id, whatever
\* that one is doing.
mts_invokeIndication(c) ==
    LET m == c[1]
        o == IF c[2] = 0 THEN FreshOp ELSE findOperationBySequenceId(seqOf[m])
    IN  /\ S!Perform(c)
        /\ o # 0
        /\ op' = [op EXCEPT ![o].call = c,
                            ![o].st = IF @ = "none" THEN "s1" ELSE @]
        /\ active' = IF c[2] = 0 THEN Append(active, o) ELSE active
        /\ FSM_generateEvent(o, "invoke")
        /\ UNCHANGED <<vVars, uaVars, wild, resultId, restarts, faults>>

\* Mutant: a freed operation stays among the active ones.
FreeLinked(o) == UNCHANGED active

\* mts_freeOperation.
Free(o) ==
    \E i \in 1 .. Len(active) :
        /\ active[i] = o
        /\ active' = SubSeq(active, 1, i - 1)
                       \o SubSeq(active, i + 1, Len(active))

\* Leave the operation, with what became of the message.
Release(o, r, fate) ==
    /\ Free(o)
    /\ op' = [op EXCEPT ![o] = [r EXCEPT !.st = "free", !.fate = fate]]

\* A segment nobody waits for, or a failure while it is taken apart, is
\* answered with an error.  When the contents cannot be put on the operation's
\* list of what to free, the operation the segment was for is freed as well.
mts_invokeRefused(c) ==
    LET o == IF c[2] = 0 THEN 0 ELSE findOperationBySequenceId(seqOf[c[1]])
    IN  /\ IF c[2] > 0 /\ o = 0 THEN NoFault ELSE Fault
        /\ S!PerformAndAnswer(c, "error")
        /\ \/ UNCHANGED <<op, active>>
           \/ /\ o # 0
              /\ Release(o, op[o], IF op[o].complete THEN "lost" ELSE "none")
        /\ UNCHANGED <<vVars, uaVars, tasks, wild, resultId, restarts>>

\* mts_resultConfirm, mts_errorConfirm, mts_failureIndication for a call that
\* submits.
mts_confirm(c) ==
    /\ \E kind \in {"result", "error", "failure"} :
          /\ S!Tell(c, kind)
          /\ FSM_generateEvent(findOperationByInvokeId(c),
                               CASE kind = "result" -> "resultCon"
                                 [] kind = "error" -> "errorCon"
                                 [] OTHER -> "failure")
    /\ UNCHANGED <<vVars, uaVars, active, op, wild, resultId, restarts, faults>>

\* mts_resultIndication, mts_errorIndication, mts_failureIndication for a
\* question.  A result that cannot be parsed never happened, nor did one there
\* is no memory for.
mts_indication(o) ==
    LET f == findOperationByInvokeId(<<o>>)
    IN  /\ \E kind \in {"send", "drop", "garbled", "error", "failure"} :
              /\ V!Indicate(o, kind)
              /\ \/ /\ kind # "garbled" /\ NoFault
                    /\ op' = IF f # 0 /\ kind \in {"send", "drop"}
                               THEN [op EXCEPT ![f].verdict = kind] ELSE op
                    /\ FSM_generateEvent(f,
                         CASE kind \in {"send", "drop"} -> "resultInd"
                           [] kind = "error" -> "errorInd"
                           [] OTHER -> "failure")
                 \/ /\ IF kind = "garbled" THEN NoFault
                       ELSE kind \in {"send", "drop"} /\ Fault
                    /\ UNCHANGED <<op, tasks>>
        /\ UNCHANGED <<sVars, uaVars, active, wild, resultId, restarts>>

-----------------------------------------------------------------------------
(* The MTS: transitions of the state machine of an operation.              *)

\* spoolNow and the timer for mts_tryRfc822Submit.  mts_submissionNonDel, for
\* when that fails, is not implemented.
spoolNow(o, r) ==
    \/ Release(o, r, "spooled") /\ NoFault
    \/ Release(o, r, "lost") /\ Fault

\* The operation once the segment in r.call has been taken up (segment.c).
Joined(r) ==
    LET m == r.call[1]
        k == r.call[2]
        first == [r EXCEPT !.seq = seqOf[m], !.last = Last(m),
                           !.segs = [i \in {0} |-> m],
                           !.complete = Last(m) = 0, !.timer = Last(m) > 0]
        segs == [i \in DOMAIN r.segs \cup {k} |->
                    IF i = k THEN m ELSE r.segs[i]]
        all == DOMAIN segs = 0 .. r.last
        other == [r EXCEPT !.segs = segs, !.complete = all,
                           !.timer = @ /\ ~all]
    IN  IF k = 0 THEN first ELSE other

\* A segment that is not too high and not there yet.
Acceptable(r) ==
    LET k == r.call[2] IN k > 0 => k <= r.last /\ k \notin DOMAIN r.segs

\* The first task is event ev for operation o, which has not been freed.
Task(o, st, ev) ==
    /\ tasks # <<>> /\ Head(tasks) = <<o, ev>>
    /\ op[o].st = st
    /\ UNCHANGED <<uaVars, wild, restarts>>

Moved(o, r, st) ==
    /\ op' = [op EXCEPT ![o] = [r EXCEPT !.st = st]]
    /\ UNCHANGED active

\* pS1S2a, aS1S2a: take up the segment and answer with a result; the message
\* is written to disk with the last one.  If the result cannot be sent a
\* failure is generated.
aS1S2a(o) ==
    LET c == op[o].call
        j == Joined(op[o])
    IN  /\ Task(o, "s1", "invoke")
        /\ Acceptable(op[o])
        /\ \/ /\ sTold[c] = <<>> /\ NoFault
              /\ S!Answer(c, "result")
              /\ resultId' = [resultId EXCEPT ![c] = IF j.complete THEN o ELSE 0]
              /\ tasks' = Tail(tasks)
           \/ /\ IF sTold[c] = <<>> THEN Fault ELSE NoFault
              /\ tasks' = Append(Tail(tasks), <<o, "failure">>)
              /\ UNCHANGED <<sVars, resultId>>
        /\ Moved(o, j, "s2")
        /\ UNCHANGED vVars

\* aS1S4a: the segment is not acceptable, or cannot be copied, or the message
\* cannot be parsed or written; answer with an error.
aS1S4a(o) ==
    LET r == op[o]
        c == r.call
        j == Joined(r)
        uncopied == IF c[2] = 0 THEN [r EXCEPT !.seq = seqOf[c[1]]] ELSE r
    IN  /\ Task(o, "s1", "invoke")
        /\ \/ ~Acceptable(r) /\ NoFault /\ Moved(o, r, "s4")
           \/ Acceptable(r) /\ Fault /\ Moved(o, uncopied, "s4")
           \/ Acceptable(r) /\ Fault /\ j.complete /\ Moved(o, j, "s4")
        /\ IF sTold[c] = <<>> THEN S!Answer(c, "error") ELSE UNCHANGED sVars
        /\ tasks' = Tail(tasks)
        /\ UNCHANGED <<vVars, resultId>>

\* Mutant: the message is dropped.
aS2S1aDropped(o) ==
    /\ Task(o, "s2", "resultCon")
    /\ IF op[o].complete THEN Release(o, op[o], "none") /\ NoFault
       ELSE Moved(o, op[o], "s1") /\ NoFault
    /\ tasks' = Tail(tasks)
    /\ UNCHANGED <<sVars, vVars, resultId>>

\* aS2S1a: the UA has the result for the last segment; pass the message on.
\* After any other segment, wait for the next (s2s1b).
aS2S1a(o) ==
    /\ Task(o, "s2", "resultCon")
    /\ IF op[o].complete THEN spoolNow(o, op[o])
       ELSE Moved(o, op[o], "s1") /\ NoFault
    /\ tasks' = Tail(tasks)
    /\ UNCHANGED <<sVars, vVars, resultId>>

\* aS2S3a: it is not known whether the UA has the result for the last segment;
\* ask it.  If the question cannot be sent nothing more is done.  After any
\* other segment, wait for the next (pS2S1d).
aS2S3a(o) ==
    LET r == op[o]
    IN  /\ Task(o, "s2", "failure")
        /\ \/ ~r.complete /\ Moved(o, r, "s1") /\ NoFault /\ UNCHANGED vVars
           \/ /\ r.complete /\ NoFault
              /\ V!Request(o)
              /\ Moved(o, [r EXCEPT !.call = <<o>>], "s3")
           \/ r.complete /\ Fault /\ Moved(o, r, "s3") /\ UNCHANGED vVars
        /\ tasks' = Tail(tasks)
        /\ UNCHANGED <<sVars, resultId>>

\* aS2S2a: a segment that comes before the confirmation of the one before it.
aS2S2a(o) ==
    /\ Task(o, "s2", "invoke")
    /\ tasks' = Tail(tasks)
    /\ UNCHANGED <<sVars, vVars, op, active, resultId, faults>>

\* aS3S1a, aS3S1b: the UA says to send the message, or to drop it.
aS3S1a(o) ==
    /\ Task(o, "s3", "resultInd")
    /\ IF op[o].verdict = "send" THEN spoolNow(o, op[o])
       ELSE Release(o, op[o], "dropped") /\ NoFault
    /\ tasks' = Tail(tasks)
    /\ UNCHANGED <<sVars, vVars, resultId>>

\* Mutant: what cannot be verified is sent.
aS3S1cSent(o) ==
    /\ Task(o, "s3", "failure")
    /\ Release(o, op[o], "spooled")
    /\ tasks' = Tail(tasks)
    /\ UNCHANGED <<sVars, vVars, resultId, faults>>

\* aS3S1c: the UA does not answer; drop the message.
aS3S1c(o) ==
    /\ Task(o, "s3", "failure")
    /\ Release(o, op[o], "dropped")
    /\ tasks' = Tail(tasks)
    /\ UNCHANGED <<sVars, vVars, resultId, faults>>

\* Mutant: the operation is not freed on a failure.
aS4S1aOnly(o) ==
    /\ \/ Task(o, "s4", "errorCon") /\ Release(o, op[o], "refused")
       \/ Task(o, "s4", "failure") /\ UNCHANGED <<op, active>>
    /\ tasks' = Tail(tasks)
    /\ UNCHANGED <<sVars, vVars, resultId, faults>>

\* aS4S1a, aS4S1b.
aS4S1a(o) ==
    /\ Task(o, "s4", "errorCon") \/ Task(o, "s4", "failure")
    /\ Release(o, op[o], "refused")
    /\ tasks' = Tail(tasks)
    /\ UNCHANGED <<sVars, vVars, resultId, faults>>

Expected ==
    {<<"s1", "invoke">>, <<"s2", "resultCon">>, <<"s2", "failure">>,
     <<"s2", "invoke">>, <<"s3", "resultInd">>, <<"s3", "failure">>,
     <<"s4", "errorCon">>, <<"s4", "failure">>}

\* aUnexpectedEvent: the operation is freed; the files, if any, stay.
aUnexpectedEvent(o) ==
    /\ \E st \in {"s1", "s2", "s3", "s4"} :
          \E ev \in {"invoke", "resultCon", "errorCon", "failure",
                     "resultInd", "errorInd"} :
              <<st, ev>> \notin Expected /\ Task(o, st, ev)
    /\ Release(o, op[o], IF op[o].complete THEN "lost" ELSE "none")
    /\ tasks' = Tail(tasks)
    /\ UNCHANGED <<sVars, vVars, resultId, faults>>

\* FSM_runMachine with an operation that was freed after the event was
\* generated.
RunFreed(o) ==
    /\ tasks # <<>> /\ Head(tasks)[1] = o /\ op[o].st = "free"
    /\ wild' = TRUE
    /\ UNCHANGED <<sVars, vVars, uaVars, active, op, tasks, resultId, restarts,
                   faults>>

\* segmentationTimerExpired frees the operation, whatever it is doing; the
\* timer is not stopped when the operation is freed otherwise.
segmentationTimerExpired(o) ==
    /\ op[o].timer
    /\ IF op[o].st = "free"
         THEN wild' = TRUE /\ UNCHANGED <<op, active>>
         ELSE /\ Release(o, [op[o] EXCEPT !.timer = FALSE], "expired")
              /\ UNCHANGED wild
    /\ UNCHANGED <<sVars, vVars, uaVars, tasks, resultId, restarts, faults>>

-----------------------------------------------------------------------------

UaNext(m) ==
    \/ UA_submitMessage(m) \/ ua_indication(m) \/ SubmitSuccess(m)
    \/ NextSegment(m) \/ SubmitFail(m)

Transition(o) ==
    \/ aS1S2a(o) \/ aS1S4a(o) \/ aS2S1a(o) \/ aS2S2a(o) \/ aS2S3a(o)
    \/ aS3S1a(o) \/ aS3S1c(o) \/ aS4S1a(o) \/ aUnexpectedEvent(o)
    \/ RunFreed(o)

Verification(o) ==
    ua_invokeIndication(o) \/ ua_invokeRefused(o) \/ aS1S5a(o)

\* What happens after a freed operation was used is not modelled.
Next ==
    /\ ~wild
    /\ \/ \E m \in Msg : UaNext(m)
       \/ \E c \in Call : \/ mts_invokeIndication(c) \/ mts_invokeRefused(c)
                          \/ mts_confirm(c)
       \/ \E o \in OpId : \/ mts_indication(o) \/ Transition(o)
                          \/ segmentationTimerExpired(o)
                          \/ Verification(o)
       \/ UaRestart

Spec == Init /\ [][Next]_vars

\* The indications and confirmations that ESROS owes its users: it answers an
\* invoking user always, a performing user that has answered too.  Tasks run,
\* and a timer that is not stopped expires.
Fairness ==
    /\ \A m \in Msg :
          /\ WF_vars(~wild /\ ua_indication(m))
          /\ WF_vars(~wild /\ (\/ SubmitSuccess(m) \/ NextSegment(m)
                               \/ SubmitFail(m)))
    /\ \A c \in Call : WF_vars(~wild /\ sAnswer[c] # {} /\ mts_confirm(c))
    /\ \A o \in OpId :
          /\ WF_vars(~wild /\ mts_indication(o))
          /\ WF_vars(~wild /\ Transition(o))
          /\ WF_vars(~wild /\ segmentationTimerExpired(o))

FairSpec == Spec /\ Fairness

-----------------------------------------------------------------------------

\* Type correctness.
SubmissionTypeOK ==
    /\ sAsked \subseteq Call /\ vAsked \subseteq OpId /\ asking \subseteq vAsked
    /\ resultId \in [Call -> {0} \cup OpId]
    /\ ua \in [Msg -> [st : {"new", "wait", "done", "gone"}, seg : Nat,
                       ev : {"none", "result", "error", "failure"}]]
    /\ seqNo \in Nat /\ seqOf \in [Msg -> Nat]
    /\ ring \in [next : [Node -> Node], prev : [Node -> Node],
                 id : [Node -> {0} \cup OpId]]
    /\ user \in [Msg -> SUBSET {"success", "fail"}]
    /\ \A o \in OpId : op[o].st \in {"none", "free"} <=>
                          \A i \in 1 .. Len(active) : active[i] # o
    /\ \A i \in 1 .. Len(tasks) : tasks[i][1] \in OpId
    /\ wild \in BOOLEAN
    /\ restarts \in 0 .. MaxRestarts /\ faults \in 0 .. MaxFaults

\* The contents of message m, put together.
Whole(m) == [k \in 0 .. Last(m) |-> m]

Spooled(m) == {o \in OpId : op[o].fate = "spooled" /\ op[o].segs = Whole(m)}

\* No other message was given the sequence id of m, as one may be that is
\* submitted after a restart of the UA.
Alone(m) == \A n \in Msg \ {m} : seqOf[n] = seqOf[m] => seqOf[m] = 0

\* When the UA has told its user that a submission failed, the MTS has not
\* passed the message on, and never does ("the user may assume that the message
\* has not been further submitted by the MTS").
FailNotSent ==
    \A m \in Msg : "fail" \in user[m] /\ Alone(m) => Spooled(m) = {}

\* A message the user was told is submitted is passed on by the MTS, or waits
\* there in one piece.  It is lost only when the UA was asked about it, or when
\* a file or a request fails.
SuccessAccounted ==
    restarts = 0 =>
      \A m \in Msg : "success" \in user[m] =>
        \E o \in OpId :
            /\ op[o].segs = Whole(m)
            /\ \/ op[o].st \in {"s2", "s3"}
               \/ op[o].fate = "spooled"
               \/ op[o].fate = "dropped" /\ o \in vAsked
               \/ op[o].fate = "lost" /\ faults > 0

\* What the MTS passes on is one message, with all of its segments in place,
\* and it does so once.  The UA must not have been restarted: its sequence ids
\* start again at one.
SpooledWhole ==
    restarts = 0 =>
      /\ \A o \in OpId : op[o].fate = "spooled" =>
            \E m \in Msg : op[o].segs = Whole(m)
      /\ \A m \in Msg : Cardinality(Spooled(m)) <= 1

\* ESROS has given the UA the outcome of the call it waits for, and the UA had
\* no memory to take it.
Discarded(m) ==
    /\ ua[m].st = "wait" /\ ua[m].ev = "none"
    /\ sOutcome[Current(m)] # <<>> /\ faults > 0

\* The user hears what became of each message, unless the UA is restarted or
\* discards the outcome.
UserTold ==
    \A m \in Msg : (ua[m].st = "wait") ~>
        (user[m] # {} \/ Discarded(m) \/ ua[m].st = "gone" \/ wild)

\* The verification is not under way, or was answered with what the MTS cannot
\* parse or has no memory for.
Stuck(o) ==
    /\ op[o].st = "s3"
    /\ \/ op[o].call # <<o>>
       \/ vOutcome[o] = <<[kind |-> "garbled", op |-> o]>>
       \/ /\ vOutcome[o] # <<>> /\ faults > 0
          /\ \A i \in 1 .. Len(tasks) : tasks[i][1] # o

\* An operation of the MTS ends, but for one whose verification could not be
\* sent or whose answer could not be taken.
OpsEnd ==
    \A o \in OpId : (op[o].st \in {"s1", "s2", "s3", "s4"}) ~>
        (op[o].st = "free" \/ Stuck(o) \/ wild)

\* The UA keeps the ids of "recently submitted messages" to tell the MTS that
\* they are to be sent: as many as its queue has elements.
SuccessRemembered ==
    LET done == {m \in Msg : "success" \in user[m]}
    IN  restarts = 0 /\ Cardinality(done) <= VerifySlots =>
          \A m \in done : Remembered(ring, resultId[<<m, Last(m)>>])
=============================================================================
