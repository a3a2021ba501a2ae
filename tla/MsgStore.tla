------------------------------ MODULE MsgStore ------------------------------
(***************************************************************************)
(* The delivery queues of the EMSD message transfer system (msgstore.c),   *)
(* the two timer handlers that fill and serve them (mts_spoolToDevice,     *)
(* mts_tryDelivery) and what the outcome of a delivery does to them (the   *)
(* actions of deliver.c that end an operation).                            *)
(*                                                                         *)
(* The MTS is one thread; each action is one timer handler, one FSM        *)
(* transition or one indication.  A queue is the sequence of the cells     *)
(* (struct DQ_ControlData) reached by "next" from pRecip->pMsg.  The field *)
(* "prev" is never set to anything but NULL, so it is not kept.  Cells are *)
(* memory: a freed one may be allocated again, and an operation goes on    *)
(* using the address it was started with.                                  *)
(*                                                                         *)
(* Time is counted in ticks of a quarter of an hour.  What happens more    *)
(* often (the five seconds between two runs of mts_spoolToDevice, the      *)
(* minute between two cleanings, the two seconds of                        *)
(* deliveryQueue.nextAttempt) is below a tick: both handlers run at least  *)
(* once in each, and cleaning twice in a tick is cleaning once.            *)
(***************************************************************************)
EXTENDS Naturals, Sequences, FiniteSets, FiniteSetsExt, SequencesExt

CONSTANTS
    Msg,          \* messages for devices of this MTS
    Recip,        \* addresses of subscribers
    Subscriber,   \* the addresses that have a profile (SUB_getEntry)
    To,           \* To[m]: the recipients of message m, in their order
    MaxRecips,    \* recipients after which msg_addMessage stops (33)
    Expiry,       \* ticks a message may stay in the queue (one hour)
    Keep,         \* ticks a completed message stays in the queue
    RetryDelay,   \* ticks between two attempts (globals.retryTimes)
    MaxRetries,   \* MTS_MAX_FAILURE_RETRIES
    LastArrival,  \* bound: no message arrives later
    MaxDown       \* bound: how often the MTS stops and is started again

ASSUME StoreAssumption ==
    /\ IsFiniteSet(Msg) /\ IsFiniteSet(Recip)
    /\ To \in [Msg -> Seq(Recip)] /\ \A m \in Msg : IsInjective(To[m])
    /\ Subscriber \subseteq Recip
    /\ {Expiry, Keep, RetryDelay, LastArrival, MaxDown} \subseteq Nat
    /\ Keep < Expiry /\ 0 < RetryDelay
    /\ MaxRetries \in Nat \ {0} /\ MaxRecips \in Nat \ {0}

\* Enough addresses that calloc never fails.
Cell == 1 .. Cardinality(Msg) * Cardinality(Recip)

VARIABLES
    now,      \* time(NULL), in ticks, from 1 on: 0 stands for "never"
    polled,   \* mts_tryDelivery has run in this tick
    spool,    \* messages whose control file is in the new message directory
    recips,   \* the recipient queues, in the order of deliveryQueue
    rq,       \* rq[r]: status, count and nextAttempt of r's queue
    list,     \* list[r]: the cells linked into r's queue
    cell,     \* cell[c]: the contents of a cell
    used,     \* cells that are allocated
    ops,      \* delivery operations in progress
    down,     \* how often the MTS was stopped
    told      \* what became of a message: <<event, message, recipient>>

memory == <<recips, rq, list, cell, used, ops>>
vars == <<now, polled, spool, memory, down, told>>

\* The addresses in the recipient list of m.
Addressed(m) == {To[m][i] : i \in 1 .. Len(To[m])}

NoCell == [msg |-> CHOOSE m \in Msg : TRUE, rcp |-> CHOOSE r \in Recip : TRUE,
           status |-> "MQ_UNDEFINED", completed |-> 0, expiry |-> 0]

NoQueue == [status |-> "RQ_UNDEFINED", count |-> 0, nextAttempt |-> 0]

\* msg_init: the queues start out empty; the files of undelivered messages
\* are not read back ("not yet").
msg_init ==
    /\ recips = <<>>
    /\ rq = [r \in Recip |-> NoQueue]
    /\ list = [r \in Recip |-> <<>>]
    /\ cell = [c \in Cell |-> NoCell]
    /\ used = {}
    /\ ops = {}

Init ==
    /\ now = 1 /\ polled = FALSE
    /\ spool = {}
    /\ msg_init
    /\ down = 0
    /\ told = {}

-----------------------------------------------------------------------------
(* Filling the queues.                                                     *)

\* A message is put into the new message directory (by the mailer).
Arrive(m) ==
    /\ now <= LastArrival
    /\ m \notin spool /\ \A t \in told : t[2] # m
    /\ spool' = spool \cup {m}
    /\ told' = told \cup {<<"arrived", m, r>> : r \in Addressed(m)}
    /\ UNCHANGED <<now, polled, memory, down>>

\* Addresses calloc may return for a new cell.  Of the addresses nobody holds
\* one stands for all; one that an operation still holds is a case of its own.
Fresh == Cell \ (used \cup {o.cell : o \in ops})
Stale == {o.cell : o \in ops} \ used

Allocations(R) ==
    {f \in [R -> Cell] :
        /\ IsInjective(f)
        /\ \A r \in R : f[r] \in Stale \cup Fresh
        /\ {f[r] : r \in R} \cap Fresh =
             {c \in Fresh : Cardinality({d \in Fresh : d <= c}) <=
                              Cardinality({r \in R : f[r] \in Fresh})}}

\* DQ_getRecipQueue puts a new recipient in front.
DQ_getRecipQueue(R) ==
    LET new == R \ {recips[i] : i \in 1 .. Len(recips)}
    IN  SetToSeq(new) \o recips

\* Mutant: the message is not counted.
DQ_addMessageUncounted(q) ==
    [status |-> IF q.status = "RQ_UNDEFINED" THEN "RQ_READY" ELSE q.status,
     count |-> q.count,
     nextAttempt |-> now]

\* The state of a queue after DQ_addMessage: an attempt that is far off (more
\* than 30 seconds) is moved up to now.
DQ_addMessage(q) ==
    [status |-> IF q.status = "RQ_UNDEFINED" THEN "RQ_READY" ELSE q.status,
     count |-> q.count + 1,
     nextAttempt |-> IF q.nextAttempt = 0 \/ q.nextAttempt > now
                       THEN now ELSE q.nextAttempt]

\* The recipients of m that get a cell: the first MaxRecips subscribers of its
\* list, at which the loop is left ("Too many recipients").  An address without
\* a profile is skipped and does not count.
Queued(m) ==
    {To[m][i] : i \in {j \in 1 .. Len(To[m]) :
        /\ To[m][j] \in Subscriber
        /\ Cardinality({k \in 1 .. j - 1 : To[m][k] \in Subscriber}) < MaxRecips}}

\* msg_addMessage: one cell per queued recipient, at the tail of its queue.
msg_addMessage(m) ==
    LET R == Queued(m)
    IN  \E at \in Allocations(R) :
          /\ recips' = DQ_getRecipQueue(R)
          /\ rq' = [r \in Recip |->
                      IF r \in R THEN DQ_addMessage(rq[r]) ELSE rq[r]]
          /\ list' = [r \in Recip |->
                        IF r \in R THEN Append(list[r], at[r]) ELSE list[r]]
          /\ cell' = [c \in Cell |->
                        IF \E r \in R : at[r] = c
                          THEN [msg |-> m, rcp |-> CHOOSE r \in R : at[r] = c,
                                status |-> "MQ_READY", completed |-> 0,
                                expiry |-> now + Expiry]
                          ELSE cell[c]]
          /\ used' = used \cup {at[r] : r \in R}

\* mts_spoolToDevice queues a message and deletes its control file, whether or
\* not msg_addMessage found a queue for it.  Of the recipients that got no cell,
\* "dropped" marks the subscribers that msg_addMessage did not come to: no code
\* remembers them.
mts_spoolToDevice(m) ==
    /\ m \in spool
    /\ spool' = spool \ {m}
    /\ msg_addMessage(m)
    /\ told' = told \cup
         {<<IF r \in Subscriber THEN "dropped" ELSE "unknown", m, r>> :
            r \in Addressed(m) \ Queued(m)}
    /\ UNCHANGED <<now, polled, ops, down>>

-----------------------------------------------------------------------------
(* Serving the queues.                                                     *)

\* Mutants: a message that failed is removed whether or not it is completed; a
\* message in delivery does not expire.
SettledFailed(c) ==
    /\ cell[c].status \in {"MQ_SUCCEDED", "MQ_FAILED"}
    /\ now - cell[c].completed > Keep
ExpiredIdle(c) ==
    /\ now > cell[c].expiry /\ cell[c].status # "MQ_DELIVERING"
    /\ ~(cell[c].completed # 0 /\ now - cell[c].completed > Keep)

\* The two conditions under which msg_cleanQueue removes a cell; only under
\* the second a non-delivery report is sent.
Settled(c) == cell[c].completed # 0 /\ now - cell[c].completed > Keep
Expired(c) == ~Settled(c) /\ now > cell[c].expiry
Deletable(c) == Settled(c) \/ Expired(c)

Linked(r) == {list[r][i] : i \in 1 .. Len(list[r])}

\* Without "prev" only the first element of a queue can be unlinked; another
\* one is freed all the same ("Queue error").
Cleaned(r) ==
    LET kept == {i \in 1 .. Len(list[r]) : ~Deletable(list[r][i])}
    IN  IF kept = {} THEN <<>> ELSE SubSeq(list[r], Min(kept), Len(list[r]))

msg_cleanQueue ==
    /\ list' = [r \in Recip |-> Cleaned(r)]
    /\ used' = used \ {c \in UNION {Linked(r) : r \in Recip} : Deletable(c)}

\* msg_getMessage: the first message of r that is not being delivered.
Waiting(r) ==
    {i \in 1 .. Len(Cleaned(r)) :
        cell[Cleaned(r)[i]].status \in {"MQ_READY", "MQ_FAILED"}}

Due(r) ==
    rq[r].status = "RQ_READY" /\ rq[r].nextAttempt <= now /\ Waiting(r) # {}

\* Mutant: the last message that waits.
msg_getMessageLast(r) == Cleaned(r)[Max(Waiting(r))]

msg_getMessage(r) == Cleaned(r)[Min(Waiting(r))]

\* msg_deleteMessage on cell x and on the count of its queue.
msg_deleteMessage(x) ==
    IF x.completed = 0 THEN [x EXCEPT !.status = "MQ_FAILED", !.completed = now]
                       ELSE x
Uncount(q, x) == IF x.completed = 0 THEN [q EXCEPT !.count = @ - 1] ELSE q

\* A run of mts_tryDelivery that begins an operation for the recipients begun
\* and cannot convert the message of the ones in bad (at most one), which is
\* deleted.
TryDelivery(begun, bad) ==
    /\ msg_cleanQueue
    /\ cell' = [c \in Cell |->
         IF \E r \in begun : c = msg_getMessage(r)
           THEN [cell[c] EXCEPT !.status = "MQ_DELIVERING"]
         ELSE IF \E r \in bad : c = msg_getMessage(r)
           THEN msg_deleteMessage(cell[c])
         ELSE cell[c]]
    /\ rq' = [r \in Recip |->
         IF r \in begun THEN [rq[r] EXCEPT !.status = "RQ_DELIVERING"]
         ELSE IF r \in bad
           THEN [Uncount(rq[r], cell[msg_getMessage(r)])
                   EXCEPT !.status = "RQ_DELIVERING"]
         ELSE rq[r]]
    /\ ops' = ops \cup
         {[cell |-> msg_getMessage(r), rcp |-> r,
           msg |-> cell[msg_getMessage(r)].msg,
           retryCount |-> 0, since |-> now] : r \in begun}
    /\ told' = told
         \cup {<<"ndr", cell[c].msg, cell[c].rcp>> :
                 c \in {d \in UNION {Linked(r) : r \in Recip} : Expired(d)}}
         \cup {<<"refused", cell[msg_getMessage(r)].msg, r>> : r \in bad}
    /\ polled' = TRUE
    /\ UNCHANGED <<now, spool, recips, down>>

\* mts_tryDelivery goes through the queues in their order and serves every one
\* that is due, up to the first whose message cannot be converted
\* (mts_preprocessDeliverRequest fails), the one after the first n: there the
\* handler returns.
mts_tryDelivery ==
    \E n \in 0 .. Len(recips) :
      /\ n < Len(recips) => Due(recips[n + 1])
      /\ TryDelivery({r \in {recips[i] : i \in 1 .. n} : Due(r)},
                     {recips[i] : i \in {n + 1} \cap 1 .. Len(recips)})

\* msg_deliverNow: the device of r was heard of.
msg_deliverNow(r) ==
    /\ rq[r].count > 0
    /\ rq' = [rq EXCEPT ![r].nextAttempt = now]
    /\ UNCHANGED <<now, polled, spool, recips, list, cell, used, ops, down, told>>

-----------------------------------------------------------------------------
(* The end of a delivery (the transitions of t2InvokeResponseWait).  The   *)
(* operation works on the cell it was started with, whatever has become of *)
(* that cell meanwhile.                                                    *)

\* The message the cell of operation o holds, which need not be the one it sent.
Held(o) == <<cell[o.cell].msg, cell[o.cell].rcp>>

\* What is known after an outcome of o, and that it was entered in the cell of
\* another message.
Learn(o, what) ==
    told' = told \cup what \cup
              (IF Held(o) = <<o.msg, o.rcp>> THEN {}
                                            ELSE {<<"misapplied", o.msg, o.rcp>>})

\* aS2S1a, RESULT.indication of the last segment: msg_updateMessageStatus to
\* MQ_SUCCEDED, which a completed message refuses.
DeliverySucceeded(o) ==
    LET x == cell[o.cell]
    IN  /\ cell' = [cell EXCEPT ![o.cell] =
                      IF x.completed = 0
                        THEN [x EXCEPT !.status = "MQ_SUCCEDED", !.completed = now]
                        ELSE x]
        /\ rq' = [rq EXCEPT ![x.rcp] =
                    IF x.completed = 0
                      THEN [status |-> "RQ_READY", count |-> @.count - 1,
                            nextAttempt |-> now]
                      ELSE @]
        /\ ops' = ops \ {o}
        /\ Learn(o, {<<"delivered", o.msg, o.rcp>>})
        /\ UNCHANGED <<now, polled, spool, recips, list, used, down>>

\* pS2S1b: the transition for a transient error (EMSD_Error_ResourceError) is
\* taken when hOperationData holds the parsed error.
\* mts_preprocessErrorIndication parses it and never stores it there.
TransientError(error) == FALSE

\* Mutant: the message is taken off the count although it stays in the queue.
RespoolUncounted(o) ==
    /\ cell' = [cell EXCEPT ![o.cell].status = "MQ_FAILED"]
    /\ rq' = [rq EXCEPT ![cell[o.cell].rcp] =
                [status |-> "RQ_READY", count |-> @.count - 1,
                 nextAttempt |-> now + RetryDelay]]
    /\ ops' = ops \ {o}
    /\ UNCHANGED <<now, polled, spool, recips, list, used, down>>

\* deliveryRespool, and the operation is freed (aS2S1b, aS2S1d).
Respool(o) ==
    /\ cell' = [cell EXCEPT ![o.cell].status = "MQ_FAILED"]
    /\ rq' = [rq EXCEPT ![cell[o.cell].rcp].status = "RQ_READY",
                        ![cell[o.cell].rcp].nextAttempt = now + RetryDelay]
    /\ ops' = ops \ {o}
    /\ UNCHANGED <<now, polled, spool, recips, list, used, down>>

\* Mutant: the queue is made ready for its next message.
RejectReady(o) ==
    /\ cell' = [cell EXCEPT ![o.cell] = msg_deleteMessage(@)]
    /\ rq' = [rq EXCEPT ![cell[o.cell].rcp] =
                [Uncount(@, cell[o.cell]) EXCEPT !.status = "RQ_READY"]]
    /\ ops' = ops \ {o}
    /\ UNCHANGED <<now, polled, spool, recips, list, used, down>>

\* aS2S1c: msg_deleteMessage after the non-delivery report, and the operation
\* is freed.
Reject(o) ==
    /\ cell' = [cell EXCEPT ![o.cell] = msg_deleteMessage(@)]
    /\ rq' = [rq EXCEPT ![cell[o.cell].rcp] = Uncount(@, cell[o.cell])]
    /\ ops' = ops \ {o}
    /\ UNCHANGED <<now, polled, spool, recips, list, used, down>>

\* ERROR.indication.
DeliveryError(o, error) ==
    IF TransientError(error)
      THEN Respool(o) /\ Learn(o, {})
      ELSE /\ Reject(o)
           /\ Learn(o, {<<"ndr", cell[o.cell].msg, cell[o.cell].rcp>>})

\* FAILURE.indication (pS2S1d counts it): the segment is invoked again
\* (aS2S2b), or the message is respooled (aS2S1d).
DeliveryFailed(o) ==
    IF o.retryCount + 1 < MaxRetries
      THEN /\ ops' = (ops \ {o}) \cup {[o EXCEPT !.retryCount = @ + 1]}
           /\ UNCHANGED <<now, polled, spool, recips, rq, list, cell, used,
                          down, told>>
      ELSE Respool(o) /\ Learn(o, {})

-----------------------------------------------------------------------------
\* In a tick both handlers run, as they start themselves again, and an operation
\* that began earlier has ended: ESRO answers every invocation within minutes.
Tick ==
    /\ now <= LastArrival + Expiry
    /\ polled /\ spool = {}
    /\ \A o \in ops : o.since = now
    /\ now' = now + 1
    /\ polled' = FALSE
    /\ UNCHANGED <<spool, memory, down, told>>

\* The MTS stops and is started again (msg_init): the directory is still there,
\* the queues are not.
Restart ==
    /\ down < MaxDown /\ used # {}
    /\ down' = down + 1
    /\ recips' = <<>>
    /\ rq' = [r \in Recip |-> NoQueue]
    /\ list' = [r \in Recip |-> <<>>]
    /\ cell' = [c \in Cell |-> NoCell]
    /\ used' = {}
    /\ ops' = {}
    /\ told' = told \cup {<<"lost", cell[c].msg, cell[c].rcp>> : c \in used}
    /\ UNCHANGED <<now, polled, spool>>

\* An outcome has been entered in a cell that had been freed under its
\* operation and allocated again for another message.  From then on the queues
\* are not what the code takes them for, and no further step is considered.
Misapplied == \E t \in told : t[1] = "misapplied"

Outcome(o) ==
    \/ DeliverySucceeded(o)
    \/ \E error \in {"ResourceError", "ProtocolViolation"} : DeliveryError(o, error)
    \/ DeliveryFailed(o)

Next ==
    /\ ~Misapplied
    /\ \/ \E m \in Msg : Arrive(m) \/ mts_spoolToDevice(m)
       \/ mts_tryDelivery
       \/ \E r \in Recip : msg_deliverNow(r)
       \/ \E o \in ops : Outcome(o)
       \/ Tick
       \/ Restart

Spec == Init /\ [][Next]_vars

-----------------------------------------------------------------------------
(* Properties.                                                             *)

Known(m, r) == {t[1] : t \in {u \in told : u[2] = m /\ u[3] = r}}

\* Every variable keeps its type: the statuses are those msgstore.h defines and
\* a count is never decremented below zero.
StoreTypeOK ==
    /\ now \in 1 .. LastArrival + Expiry + 1 /\ polled \in BOOLEAN
    /\ spool \subseteq Msg
    /\ recips \in Seq(Recip)
    /\ rq \in [Recip -> [status : {"RQ_UNDEFINED", "RQ_READY", "RQ_DELIVERING"},
                         count : Nat, nextAttempt : Nat]]
    /\ list \in [Recip -> Seq(Cell)]
    /\ cell \in [Cell -> [msg : Msg, rcp : Recip,
                          status : {"MQ_UNDEFINED", "MQ_READY", "MQ_DELIVERING",
                                    "MQ_FAILED", "MQ_SUCCEDED"},
                          completed : Nat, expiry : Nat]]
    /\ used \subseteq Cell
    /\ ops \subseteq [cell : Cell, rcp : Recip, msg : Msg,
                      retryCount : 0 .. MaxRetries - 1, since : Nat]
    /\ down \in 0 .. MaxDown

\* msg_cleanQueue can unlink the first cell only, and that is enough: messages
\* complete and expire in the order of the queue, so no freed cell stays linked
\* and no cell is lost.
ListIntact ==
    Misapplied \/
    /\ \A r \in Recip : Linked(r) \subseteq used /\ IsInjective(list[r])
    /\ used = UNION {Linked(r) : r \in Recip}

\* A device is sent one message at a time, in the order of arrival: whatever
\* is ahead of a message that was tried has been delivered or given up.
InOrder ==
    Misapplied \/
    /\ \A o, p \in ops : o.rcp = p.rcp => o = p
    /\ \A r \in Recip : \A i, j \in 1 .. Len(list[r]) :
           i < j /\ cell[list[r][j]].status # "MQ_READY" =>
               cell[list[r][i]].completed # 0

\* A message that was delivered or deleted is not tried again, although
\* msg_getMessage does not look at "completed" and msg_deleteMessage leaves
\* MQ_FAILED, which it takes for a message to retry.
CompletedNotRetried ==
    Misapplied \/
    \A r \in Recip : \A c \in Linked(r) :
        cell[c].status = "MQ_DELIVERING" => cell[c].completed = 0

\* msg_deliverNow asks only queues with a positive count: a queue that holds a
\* message still to be delivered has one.
CountCovers ==
    Misapplied \/
    \A r \in Recip :
        rq[r].count >= Cardinality({c \in Linked(r) : cell[c].completed = 0})

\* No message is forgotten.  Until it is delivered or its originator hears of
\* it (or it could not be converted, or the MTS was stopped), a message for a
\* subscriber is in the new message directory or in its queue, and there not
\* longer than an hour and the time between two runs of mts_tryDelivery.  Left
\* out are the subscribers behind the first MaxRecips of a recipient list, whom
\* msg_addMessage drops: there must be that many queued ahead of them.
NotForgotten ==
    Misapplied \/
    \A m \in Msg, r \in Subscriber :
        "arrived" \in Known(m, r) =>
            \/ Known(m, r) \cap {"delivered", "ndr", "refused", "lost"} # {}
            \/ "dropped" \in Known(m, r) /\ Cardinality(Queued(m)) = MaxRecips
            \/ m \in spool
            \/ \E c \in Linked(r) :
                  /\ cell[c].msg = m /\ cell[c].completed = 0
                  /\ now <= cell[c].expiry + (IF polled THEN 0 ELSE 1)
=============================================================================
