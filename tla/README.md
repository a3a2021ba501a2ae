# A TLA+ development of EMSD and the ESROS protocol engine

EMSD (Efficient Mail Submission and Delivery) sends mail over ESROS, the
Efficient Short Remote Operations Service: a small connectionless protocol on
top of UDP with which a user invokes an operation at a remote user and gets one
RESULT, ERROR or FAILURE back. This directory models the ESROS protocol engine,
the scheduler and timer modules it runs on, and above it the submission of mail
by a user agent (UA), its delivery by the message transfer system (MTS) and the
delivery queues of the MTS. The models are checked with TLC on small instances;
every safety invariant the runs check is also proved with TLAPS, for all
instances (those of delivery as long as one of the faults has not happened, see
Proofs), and so are the refinements: the engine implements the ESRO service, the
scheduler a queue.

All paths below are relative to the repository (`src/` here is the repository
root, so the engine is `src/src/esros/erop_eng`).

## Inventory

| Component | Source | State it keeps | Operations | Interacts with |
|---|---|---|---|---|
| ESRO engine, 3-way handshake | `esros/erop_eng`: `invokact.c`, `perfact.c`, `clinvktd.c`, `clperftd.c` | one state machine per invocation on either side (`InvokeInfo`) | the transitions `tr_clInvoker01..10`, `tr_clPerformer01..11` | users above, UDP below, `TMR_`, `SCH_`, `FSM_` |
| ESRO engine, 2-way handshake | `invact2.c`, `perfact2.c`, `clinvtd2.c`, `clpertd2.c` | the same | `tr_2clInvoker01..07`, `tr_2clPerformer01..08` | the same |
| Engine support | `invoke.c`, `keep.c`, `tmr_if.c`, `pduin.c`, `pduout.c`, `userin.c`, `userout.c`, `lowerind.c` | pool of InvokeInfos, the two reference-number maps, kept PDUs, per-invocation timers | allocate and release, `erop_refNew`, `erop_refKeep`, `erop_getInvoke`, timers, deferred indications | both diagrams |
| `FSM_` | `multiocp/base.ocp/fsm_` | current state of a machine | `FSM_runMachine` | every engine event goes through it |
| `TMR_` | `multiocp/sysif.ocp/tmr_/unix.djl` | queue of timers ordered by a 32-bit expiry time | `TMR_start`, `TMR_stop`, `TMR_processQueue` | clock; run by `SCH_` as the task `TMR_poll` |
| `SCH_` | `multiocp/sysif.ocp/sch_/unix/schsel.c` | pool of SchInfo elements, active queue, run queue | `SCH_submit`, `SCH_block`, `SCH_run` | SIGALRM handler submits `TMR_poll`; UDP submits `udp_receive`; the engine submits indications |
| UDP interface | `multiocp/net.ocp/udp_pco` | sockets | `UDP_dataReq`, `udp_receive` | `SCH_`, the engine |
| SAP management | `erop_eng/erop_sap.c` | bound SAPs | `EROP_sapBind`, `EROP_sapUnbind` | the engine |
| Shells | `esros/erop_sh`, `prvdr_sh`, `user_sh*` | message queues between user and provider process | the same primitives, carried over | users, the engine |
| MTS delivery queues | `emsd/mts`: `msgstore.c`, `todevice.c`, `mtssubr.c` | one queue of messages per recipient, in memory; control files of new messages on disk | `msg_addMessage`, `msg_getMessage`, `msg_cleanQueue`, `msg_deleteMessage`, `msg_updateMessageStatus`, the timer handlers `mts_spoolToDevice`, `mts_tryDelivery` | filled by the mailer, drained by delivery operations |
| MTS operations | `emsd/mts`: `mperform.c`, `mpreproc.c`, `segment.c`, `deliver.c`, `esrosevt.c`, `oper.c` | an operation with a state machine, its segments and a segmentation timer | submit performer (s1 to s4) with reassembly and verification; deliver invoker with segmentation and retry | ESROS below, the UA, the queues, `FSM_`, `TMR_` |
| UA core | `emsd/ua/uacore`: `submit.c`, `uperform.c`, `upreproc.c`, `esroevt.c`, `oper.c`; `sbm.c` for its queue | operations from two pools; the ids of submitted messages in non-volatile memory | submit invoker with segmentation; deliver performer with reassembly; answering the MTS's verification | ESROS below, the MTS, the user's shell |
| Duplicate detection | `emsd/dup`, `uacore/uadup.c` | a window of recent instance ids | never finds a duplicate as compiled (NOTYET) | UA |
| EMSD PDU formats, ASN.1 | `emsd/emsd`, `multiocp/net.ocp/asn` | none | encode, decode | EMSD |
| Other OCP modules, user interfaces, tools | `multiocp/*`, `emsd/ua/uash*`, `esros/tester` ... | | | |

What is hard in this code:

* **Unreliable delivery.** Every PDU may be lost, repeated, delayed and
  overtaken, and reaches a machine that may be in any of its states.
* **Timeouts against late answers.** Six kinds of timer per invocation; the
  last-retransmission timer races the answer, `perfNoResponse` races the user.
* **Deferred work.** Every indication and every release is a task of the
  scheduler that dereferences its InvokeInfo later.
* **Reuse.** Reference numbers and InvokeInfos are reused; a number names an
  operation only as long as both sides agree on how long it is kept.
* **Partial failure.** `FSM_runMachine` enters the next state whatever the
  action function returned, so an early `return FAIL` leaves half a transition.
* **Signals.** The alarm interrupts the main loop anywhere.
* **Two layers of acknowledgement.** A RESULT that is lost below leaves the two
  EMSD programs with different opinions on a message, which they settle by
  verification (submission) or by sending it again (delivery).
* **Freed operations.** Events of a state machine wait in the scheduler's queue;
  the segmentation timer, a failure or a refused segment frees the operation they
  are for. Delivery operations hold a queue cell that may expire under them.
* **Restarts.** Sequence ids and delivery queues are in memory only.
* **Limits.** Empty pools, all reference numbers in use, a clock that wraps,
  the sanity counter of `SCH_run`.

The list of hazards, each at its line and with the properties that would catch
it, is in `PROJECT.json`.

What makes each part correct: an invocation has at most one and, in the end,
exactly one outcome, which is its own performer's answer or a failure; an
operation is performed at most once; the performing user is told what became of
its answer; no task or user descriptor outlives its InvokeInfo; a reference
number finds one InvokeInfo; everything goes back to its pool. For `TMR_`: no
timer fires early, out of order or not at all. For `SCH_`: tasks run once, in
order, and all of them. For the delivery queues: no message is forgotten, sent
out of order or sent again once it is done with, and the lists survive the way
they are cleaned. For submission: what the user is told agrees with what the MTS
does with the message, and segments of different messages are not mixed. For
delivery: a message counts as delivered only when the user has all of it. For
both: operations end and return to their pools.

## Modules

| Module | What it is |
|---|---|
| `EropEngine` | the state of the engines, the network and the users; the helpers of the engine; the steps both diagrams share; the properties common to both |
| `Erop3Way` | the 3-way handshake: its own transitions, its diagrams as tables, `Spec`, `FairSpec` |
| `Erop2Way` | the 2-way handshake, likewise |
| `RemoteOp` | abstract: what the ESRO service promises its two users |
| `Tmr` | the timer queue |
| `Sch` | the scheduler, the main loop and the alarm |
| `TaskQueue` | abstract: a queue of deferred tasks |
| `MsgStore` | the delivery queues of the MTS, their timer handlers and the outcomes of deliveries |
| `Submission` | UA and MTS submitting messages, composed through two instances of `RemoteOp` |
| `Delivery` | MTS and UA delivering messages, composed through an instance of `RemoteOp` |
| `MCEngine`, `MCErop3Way`, `MCErop2Way`, `MCTmr`, `MCMsgStore`, `MCSubmission`, `MCDelivery` | values of the constants for TLC |
| `EropEngine_proofs` | lemmas about the operators and steps the handshakes share: types and outcomes, reference numbers, tasks and timers |
| `Erop3Way_proofs`, `Erop2Way_proofs` | the theorems about the engine |
| `Tmr_proofs`, `Sch_proofs`, `MsgStore_proofs`, `Submission_proofs`, `Delivery_proofs` | the theorems about these components |

### The engine

`inv[n, s]` is element `s` of engine `n`'s InvokeInfo pool: the current state of
its machine (`curState`, `"free"` when it is in the pool), the local SAP, the
peer, the reference number, the map it is linked into (`refMap`), its timers,
the kept INVOKE and RESULT PDUs, the operation it serves and whether the answer
is a result or an error. `newRef` is the static counter of `erop_refNew`, `sch`
the tasks each engine's scheduler has not run yet, `net` the datagrams in
transit. The rest (`asked`, `ind`, `exec`, `work`, `answer`, `cnf`) is what the
users did and were told; `RemoteOp` sees only that part.

An action is one event handled to the end: a user's request, a PDU, a timer or
a task. `FSM_runMachine` and the action function it calls are one step, the next
state is entered whatever the function returned, and every early return in the
code is an alternative of the action (`SendOutcome` says whether `UDP_dataReq`
may fail; a reference number may not be available or not be kept). Events a
state has no transition for are the explicit steps `PduIgnored` and
`TimerIgnored`, driven by the tables `Expects` and `Expects2`.

An indication is appended to `ind` or `cnf` when the engine submits it; the task
itself stays in `sch` until `RunTask` runs it and changes `work`, the descriptors
the performing user may use. `relInvoke` is such a task too: the InvokeInfo stays
allocated, in a start state, until it runs.

The network keeps a datagram for `MaxNSDULifeTime` units and may deliver it any
number of times in any order meanwhile, or never.

Time is discrete. `Tick` lets a unit pass when no task waits and no timer is due:
the machine is taken to be fast against its timers, whose unit is a second or
more. The clock, queue and loop behind this are the subject of `Tmr` and `Sch`.

### The timer queue

`queue` is `timerQHead`. Every timer holds its 32-bit expiry time and, for the
properties only, the true instant it is due. `TMR_processQueue` is a sequence of
steps (read the clock, fire the head, stop), so that handlers starting and
stopping timers in between are other actions interleaved with it; a handler may
also fail, which ends the call.

### The scheduler

`active` and `run` are the two queues, `avail` the number of free elements, `pc`
the position in the loop `SCH_block(); SCH_run();`. `Signal` may come at every
step. A task is `TMR_poll`, an indication, or the `udp_receive` of a socket.
`Burst` and `MaxPolls` bound how much one task submits and how many alarms may
wait at a time.

### The delivery queues

Time is in ticks of a quarter of an hour; a message expires after an hour. A
queue `list[r]` is what is reached by `next`; `cell` is the memory behind it,
`used` the cells that are allocated, and `ops` the delivery operations, which go
on using the cell they were started with. A freed cell may be allocated again.
`To[m]` is the recipient list of a message; the ones that `msg_addMessage` makes
cells for are `Queued(m)`, the first `MaxRecips` subscribers (33 in the code). The
subscribers behind them are marked `"dropped"`: nobody remembers them.
The outcome of an operation is one of the actions of `deliver.c` that end it
(`DeliverySucceeded`, `DeliveryError`, `DeliveryFailed`). `told` records, for the
properties, what became of each message. When an outcome is entered in a cell
that belongs to another message by then (`Misapplied`) the model stops: nothing
the code relies on holds any more.

### Submission and delivery

Both modules have the invoking program on one side and the performing one on the
other, and the steps of `RemoteOp` between them: an action that calls
`ESRO_CB_invokeReq` takes a `Request` step (or `Decline`, when that call fails),
an indication handler a `Perform`, `Indicate` or `Tell` step, and so on. So the
EMSD programs are checked against everything the service allows, and `Erop3Way`
and `Erop2Way` are shown to allow no more. Submissions and deliveries are 3-way
operations, verifications 2-way ones.

An indication finds the operation and queues an event (`tasks`); the transition
is a step of its own, so that another indication or the segmentation timer may
come in between. A message is a value; what is kept of its contents is which
segments of which message an operation has put together (`segs`), where the code
has the bit masks `expectedSegmentMask` and `receivedSegmentMask`. Memory, files,
the shell and requests may fail `MaxFaults` times. What the code then does is part
of the actions:

* an invocation that cannot be taken up is answered with an error; the operation it
  was for may be freed on the way (`mts_invokeRefused`, `ua_invokeRefused`), or a new
  one be lost to its pool (`Leaked`), after which its pending invocation is stale
  (`ua_invokeStale`);
* a result or error that cannot be copied or parsed is discarded, and no event is
  generated (`ua_indication`, `mts_indication` of `Submission`);
* `formatAndInvoke` of the MTS fails before `hCurrentBuf` is allocated, so that the
  retry sends the segment before again (`skipped`); or frees the buffer that the
  retry then uses (`wild`); or leaves it half formatted, and the retry sends that
  (`spoilt`), which the UA cannot parse; or the request itself is declined. Since
  `nextSegmentNumber` and `bComplete` go on regardless, the record `mts` has the
  segment the buffer is for (`seg`) apart from the next one (`next`).

The segmentation timer may expire whenever it runs.

An event for an operation that was freed, a segmentation timer that frees one a
second time, and a buffer that was freed or never set use memory that may have any
contents; `wild` marks the step, and the model ends there.

The verify queue of the UA is modelled at the level of its links (`ring`), as
`NVM_quInsert` and `NVM_quRemove` change them, because that is where it goes
wrong.

## Abstract specifications

* `RemoteOp` has, per operation, the steps Request, Decline, Perform, Answer,
  Indicate and Tell (and Perform and Answer in one, for an operation that the
  performing user or the engine refuses at once). `Erop3Way` and `Erop2Way` implement it with `exec`, `ind`
  and `cnf` for its `runs`, `outcome` and `told`. With three PDUs a confirmation
  also says that the invoking user has the answer; with two it says nothing of
  the invoker (`Handshake`).
* `TaskQueue` is a queue; `Sch` implements it with the run queue followed by the
  active queue, internal tasks only.

## Runs

| Run | Question | Distinct states |
|---|---|---|
| `erop3_one` | two operations one after the other over three PDUs, one for a SAP nobody bound; a retransmission, failing sends, slow user: safety, refinement of `RemoteOp`, both users told in the end, elements released | 64 922 |
| `erop3_two` | two operations at a time between the same engines, three reference numbers: no mix-up | 759 488 |
| `erop3_reuse` | a single reference number for two operations, which go to two SAPs: numbers unique; a timer armed, but for the invocation without a number and the answer not kept, which both occur | 63 077 |
| `erop2_one` | two operations over two PDUs, as `erop3_one`; a timer always armed, released in the end although sends fail | 54 015 |
| `tmr_queue` | three timers, delays 0, 1 and 3, no wrap-around | 89 426 |
| `sch_loop` | two sockets, the alarm at any point | 30 252 |
| `store` | messages for three subscribers and an unknown address, two recipients queued at most, over more than an hour, with a restart | 1 173 622 |
| `submit_one` | one message in segments, failures and a restart of the UA: verdict and fate agree, user told, operation ends | 23 372 |
| `submit_two` | two messages in segments at a time: segments not mixed, each passed on once | 667 057 |
| `deliver` | a message in three segments, retries, a failure: shown whole, delivered means shown, operations end | 160 678 |
| `submit_verify`, `deliver_timer` | the findings below | |

What each of the properties of the EMSD layer says:

* `ListIntact`: no freed cell is linked and no cell is lost, although
  `msg_cleanQueue` can unlink only the first cell of a queue. It holds because
  messages complete and expire in the order of the queue.
* `InOrder`, `CompletedNotRetried`, `CountCovers`, `NotForgotten`: a device gets
  its messages one at a time and in order; one that is done with is not tried
  again; a queue with work has a positive count; a message is in the directory or
  in its queue until it is delivered or reported. `NotForgotten` leaves out the
  recipients that `msg_addMessage` drops, with as many queued as it allows, and no
  other.
* `FailNotSent`: after a submission that the user was told failed, the MTS does
  not pass the message on, restart of the UA or not, unless another message was
  given the same sequence id (`Alone`; see `submit.c:469` below). `SuccessAccounted`: one that
  succeeded is passed on or waits in one piece, and is lost only after the UA was
  asked about it or a file or request failed. `SpooledWhole`: what is passed on is
  one whole message, once. The last two are for a UA that is not restarted.
* `ShownWhole`, `DeliveredShown`: the shell gets whole messages, and the MTS
  counts only those as delivered that the shell has. `ShownWhole` leaves out what
  was put together with a segment that no message has (`Mixed`; see
  `deliver.c:643` below). `DeliveredShown` leaves out a message of which a segment
  was skipped (`skipped`; see `deliver.c:911` below). `AckedFinal`: when the user
  is told that the MTS knows, it does.
* `UserTold`, `OpsEnd`, `DeliveryEnds`, `InboundReturned`: the user hears of each
  submission, and operations on both sides end. Each names what is left out, and
  each of these is listed under Observations: `UserTold` a submission whose outcome
  the UA had no memory to take (`Discarded`); `OpsEnd` an operation whose
  question could not be asked or whose answer could not be taken (`Stuck`);
  `InboundReturned` an operation that waits for the confirmation of an error that was
  never sent (`Stranded`), and one that leaked (`Leaked`).

Bounds, and why they are enough. Two engines are all an operation involves; a
third could only share reference numbers, which are kept per peer. The timer
values are small but keep the order the code's formulas give them
(`tmr_if.c`): `MaxNSDULifeTime` is longer than a retransmission interval, so
that several copies of a PDU are in transit at once and arrive after the machine
has moved on, and `RetransmitCount` is at least one so that a retransmission and
the last timer both happen. `NREFS` is 1, 2 or 3 where the code has 256: 1
forces reuse and exhaustion, 2 and 3 the wrap-around. The pool has one or two
elements: one exhausts it, two let operations overlap. In `erop3_two`
`MaxNSDULifeTime` is 1 to keep the product of two operations small.
Symmetry is used for InvokeInfos and timers only, and only in runs without
liveness. In `sch_loop` the pool (12) is the smallest that this load does not use
up: with 11 TLC finds `PoolConserved` violated. For other loads `PoolNeverEmpty`
(see Proofs) names a size that is enough; no size is enough for every load.

In `store` a message for one subscriber and one for three subscribers and an
unknown address, of whom two are queued (`MaxRecips`), each arriving at any time, give a queue with two cells, one of
them ahead of a message in delivery; `LastArrival` and `Expiry` leave room for
a message to be tried, respooled and to expire, and one restart (`MaxDown`) falls
between any two steps. In `submit_one` a message has a first, a middle and a
last segment, with a restart and two faults at any point; `submit_two` has two
messages of two segments, so that an operation can be taken for the other's, and
no faults. `deliver`
has three segments (a first, a middle and a last one), two attempts per segment
(`MaxRetries`), one fault at any point and room for two operations at the UA.
`MaxTries` is 1: a respooled message is a new delivery, which `MsgStore` covers.

Fairness. `FairSpec` assumes that the scheduler runs what was submitted
(`WF(RunTask)`: `sch_loop` checks this of the loop, as `Drained`), that due
timers are served (`WF(TimerStep)`: `PollComplete` of `tmr_queue`, `TMR_poll`
being such a task) and that time passes. Nothing is assumed of the users or of
the network: an operation is answered although every datagram may be lost and
the performing user may never answer. `FairSchSpec` assumes that the process is
scheduled and that the alarm, which `tmr_clock` re-arms each time, comes again.
In `Submission` and `Delivery` ESROS owes an invoking user an answer (`Answered`)
and a performing user that has answered a confirmation or a failure (`Told`);
tasks run (`Drained`) and a timer that is not stopped expires. Nothing is assumed
of the user, of the indication of a verification to the UA, or of faults.

## Proofs

TLAPS checks the following for every value of the constants that satisfies the
assumptions of the modules. The assumptions give the constants their types; the
ones with content are that there is at least one reference number, that messages
and recipients are finitely many, that a delay is within the range of the clock,
and that a message is kept for less than it takes to expire. The proofs are laid out as one lemma per step for each invariant. TLC checked
every invariant named here on the runs of its module before it was proved.

### The engine (`Erop3Way_proofs`, `Erop2Way_proofs`)

Each theorem is there for both handshakes; the names of the second end in `2`.

* `TypeCorrect`: `Spec => []TypeOK`. `TypeOK` is not inductive:
  a step may send a PDU to `inv[d].rem` or append to `ind[inv[d].userRef]`, which
  are only a node and an operation because the InvokeInfo is in use. `TypeInv`
  adds that (`LiveTyped`), and that a PDU that asks for or answers an operation
  names one (`PduTyped`).
* `AnsweredOnce`: `Spec => []OutcomeOnce`. The invariant
  `OnceInv` follows an *open* invocation, one whose InvokeInfo waits in
  `InvokePduSent`: an open invocation has been asked for and not been told
  anything (`OpenUntold`), no two are open for one operation (`OpenDistinct`), and
  nothing is told before it is asked for (`UnaskedUntold`). A step either is
  *quiet* (opens nothing, tells nothing), opens one invocation for an operation
  not asked for yet, or tells the outcome of an open one and closes it.
* `RefsUnique`: `Spec => []RefUnique`. `RefInv` adds that an
  element in the pool is in neither map. The argument rests on `RefNewFree` (the
  number `erop_refNew` returns has no entry for that peer: the smallest
  successful try exists, and it is successful) and on the check of
  `erop_refKeep`; no other step enters a number into a map.
* `TasksAlive`, `HeldDescsAlive`: `Spec => []TasksLive` and `[]HeldDescLive`. The
  invariant `LiveInv` has to say *why* an element that is freed has nothing behind
  it in the scheduler's queue: its release is the last task queued for it, there is
  one exactly while it is in a start state, and a machine in a start state takes no
  event that would queue another. A descriptor the performing user holds belongs to
  an element that waits for that user's answer, or is about to tell it of a failure.
* `TimersArmed`: `Spec => []TimerArmed`. `ArmedInv` adds why an answer goes on
  being retransmitted: an element that has answered is in the map of reference
  numbers only with the PDU kept, and in no map before it answers. The statement
  names three exceptions, elements that wait for ever in the code: the invocation
  that got no reference number (`Unnumbered`, `invokact.c:138`), the answer whose
  number could not be kept (`Unkept`, `perfact.c:212`) and the element whose ACK
  could not be sent (`Stranded`, `invokact.c:457`). The 2-way handshake has the
  first two (`TimersArmedUnless2`). Neither occurs where no engine gives a number
  out twice: `OnlyStranded` and `TimersArmed2` (`Spec => []TimerArmed2`) say so, from
  the invariant `Served` of the next item.
* `Implemented3Way`, `Implemented2Way`: `Spec => Implements3Way` and
  `Implements2Way`, the engines implement `RemoteOp`. Each step of a user, a PDU, a
  timer or a task is mapped to a step of one operation or to a stutter
  (`UserStepMapped`, `PduStepMapped`, `TimerStepMapped`, `FailureMapped`,
  `NextMapped`). The invariant `Served` has three parts, for some function `num` that
  says which number each operation got:
  - `OwnInv`: a number names one operation for good. An InvokeInfo, a PDU and a
    pending task that carry the number are all about that operation, on the side and
    with the peer they should be.
  - `KeptInv`: how long. `Within(op, time)` says that every INVOKE PDU of `op`, those
    its invoker is still going to send included, is gone within `time`: so many
    retransmissions, each after so long, and the life of the last datagram. An
    InvokeInfo that has performed `op` keeps it for longer than that, in each state and
    for each timer it can be waiting for (`Kept`). Hence an INVOKE that finds no
    InvokeInfo has not been performed (`ExecOnce`), and one performer serves an
    operation (`ServerDistinct`).
  - `AnswersInv`: what the performing user answered and was told in each state.

  The hypotheses are part of the result:
  - `NoReuse`: an engine invokes no more operations than it has numbers (256).
    When numbers are used again the refinement fails: a FAILURE PDU, sent for want of
    an element, ends an invocation whose retransmitted INVOKE is then performed, and
    the number may go to the next operation while the performer still holds it for the
    first. So `erop3_reuse` does not state it.
  - `MaxNSDULifeTime >= 1`: when all times are 0, a number is released in the
    instant in which its datagrams still arrive.
  - `LongInactivity`, for two PDUs only:
    `RetransmitCount * Roundtrip < inactivityDelay + MaxNSDULifeTime`. It is exact as
    far as TLC could tell: with 5 retransmissions and the times 1, 0 and 1 the two
    sides are equal, and an operation is performed twice. See the observation on
    `tmr_if.c:123`.

  `erop3_one`, `erop3_two` and `erop2_one` satisfy them.

### The timer queue (`Tmr_proofs`)

* `TmrTypeCorrect` holds for every width of the clock, wrap-around included.
* `QueueOrdered`, `PollsComplete`, `FiresInOrder`: the queue stays ordered by
  expiry, `TMR_processQueue` leaves nothing that is due, and timers fire in the
  order of their expiry. `OrderInv` says besides that the expiry the code
  compares is the instant the timer is due, and that what has fired was due no
  later than what is queued. The three are stated under `NoWrap`: the
  last instant and the longest delay together stay below `Modulus`, the range of the
  32-bit clock. This is needed: with a small `Modulus` TLC finds the order lost at
  the wrap-around.

### The delivery queues (`MsgStore_proofs`)

`NoneForgotten` speaks of all subscribers in a recipient list but those that
`msg_addMessage` drops; that these have `MaxRecips` queued ahead of them is part of
the statement. `StoreInv` is one invariant for the six properties, `StoreTypeCorrect`,
`ListsIntact`, `SentInOrder`, `DoneNotRetried`, `CountsCover` and `NoneForgotten`,
because they rest on one another. That `msg_cleanQueue`, which can unlink only
the first cell, never frees a linked one follows from the cells of a queue being
tried, completed and expiring in their order (`Ordered`, `Links`); that in turn from
there being one delivery operation at a time for a queue, which is in RQ_DELIVERING
as long as it lasts (`OpOK`); and that from what each status of a cell says of the
operation that sends it (`CellOK`). The count of a queue covers its cells that are
not done with and the freed one whose operation is still to end (`Covered`). Once an
outcome was entered in a cell that belongs to another message (`Misapplied`, where
the model stops) the invariant claims no more than types and counts.

### Submission (`Submission_proofs`)

`SubmissionTypeCorrect`, `FailsNotSent`, `SuccessesAccounted` and
`SpooledAreWhole` follow from one invariant, `SubmissionInv`, in which each part
says what one layer knows of the other:

* `Served`, `Verified`: what the ESRO service says of the calls. An invoking user
  that has a result has the performer's answer, a performer told "result" knows
  that the invoking user has it.
* `Agent`: the UA has asked for the segments one after the other, each when the
  one before had its result; what it told its user is what the service said.
* `Ops`: an operation of the MTS has segments that were handed to it and have one
  sequence id; it is complete when it has all of them; no call is handed to two
  operations (`OneHolder`); an answer "result" is for a segment that is held.
* `Order`: what events wait for an operation that has a message whose sequence id
  no other has, depending on its state, on whether the last segment it was handed
  is taken up and answered, and on what the MTS was told of the answer
  (`Shapes`). This is where the interleavings are: a segment that overtakes the
  confirmation of the one before gives the queues `<<R, I>>` and `<<F, I>>` in s2.
  It excludes that a result for an earlier segment is taken for one of the last
  segment, and that an unexpected event frees an operation whose last
  segment was answered with a result.
* `Accounted`, `Passed`: where a message is whose last segment was answered with a
  result, and what it takes to be passed on.
* `Truthful`: the ids in the verify queue, and the answers "send", are those of
  messages whose submission succeeded, even though the queue's links are
  corrupted (see Findings): a corrupted queue forgets ids and invents none.
* `Room`, `ActiveOK`: an operation can be allocated for each call; the active ones
  are linked, each once.

`FailsNotSent` is stated for a message with a sequence id of its own (`Alone`).
Without this hypothesis it is not true: after a restart of the UA a late segment of
an earlier message with the same number is joined to the new message's operation,
which takes its confirmation for that of its own segment, so that a message whose
user was told it failed is passed on. TLC finds this in 28 states with two messages
of three segments and one restart. `Fresh` says that every message is alone while
the UA is not restarted.

### The scheduler (`Sch_proofs`)

Nothing can be proved of the library's `SelectSeq` without induction over
sequences. `Those`, which `Sch` uses instead, is a recursive function over the
positions of one queue; the lemmas about it (`ThoseIs`, `ThoseConcat`, `ThoseThen`,
`ThoseOfThose`, `CountSplit`, `ThoseFirst` ...) say how it goes with appending,
with taking the first task off and with taking tasks out twice. They rest on
`AllQueues`: a set of queues that has the empty one and, with a queue, every queue
that is one task longer, has all. It takes a set where the library's induction
theorems take an operator, and follows from the least length of a queue it lacks.

* `SchInvariant`: whatever the load, an element of the pool is available or stands
  for one task (`Elements`), and a round runs what it started with (`Rounds`): the
  tasks it has run and those in its queue are no more than the pool.
* `RoundsComplete`, `RoundsShort`: hence a round does not reach the sanity limit if
  the pool has at most one element more than the limit, or if the load allows no
  round to have more tasks than that (`RoundLimit`). The second is for UNIX, where
  the pool has 500 elements and the limit is 200. What the code does beyond the
  limit is not modelled, so the other theorems speak of rounds below it.
* `PoolNeverEmpty`: `SchSpec => []PoolConserved`, if the pool suffices for the load
  (`PoolSuffices`): one element for each socket and for each alarm a round may take,
  `Burst` indications for each of these in the round before, `Burst` for each poll of
  this round, and one to spare. A hypothesis is needed, since
  `SCH_submit` aborts the process when the pool is empty. `LoadInv` counts the tasks
  of each kind in both queues: a socket has one task; indications in the active
  queue come from polls and sockets the round has run; and a round that runs sockets
  starts without indications, because `SCH_block` looks at the sockets only when it
  has no internal task.
* `SchedulerIsFifo`: `SchSpec => ImplementsFifo`, for any pool and load. A step that
  runs a task takes the first of `Internal(run \o active)` off, one that submits
  tasks adds to its end, and `Scan` and `Woken`, which move tasks from one queue to
  the other, leave it as it is. That `Woken` does is the point: it takes tasks of
  readable sockets along, between the internal ones.

### Delivery (`Delivery_proofs`)

`DeliveryTypes`, `WholeMessagesShown`, `DeliveredMessagesShown` and
`AckedMessagesFinal` follow from one invariant, `DeliveryInv`, and each has the form
`Spec => [](skipped = {} => ...)`: as long as no segment was skipped because
`BUF_alloc` failed (`deliver.c:911`). The hypothesis is needed for `DeliveredShown`,
whose statement has it message by message, and for the argument as a whole: with a
skipped segment the MTS sends an earlier segment again and takes its result for that of
a later one, so that neither `MtsOK` nor `AskedOK` below holds of what follows. TLC checks the four
properties in `deliver` with segments skipped as well. Every other fault of the
model is covered by the proof.


* `Served`: what the ESRO service says of each call, as in submission.
* `MtsOK`, `AskedOK`, `SeqOK`: the MTS has one invocation at a time under way and
  waits for that one; what it asked for are segments up to the current one, each
  in its turn and not more often than `MaxRetries` allows, and a segment was sent
  only when the one before had its result; two tries have the same sequence id only if
  that is 0, the id of messages in one piece.
* `Room`, `ActiveOK`: as in submission.
* `HeldOnce`: a call that was performed waits in one operation, or was taken up by
  one, and a call that waits is not answered. `PendingOK` says which calls may wait
  in an operation: the one that started it, segments of its sequence id, and, while
  it has none, any segment too many. When such a segment and a message in segments
  meet in one operation, the MTS has given up one of the two calls (`Dead`).
* `SegsOK`: the segments an operation holds are those of the call taken last and
  below it, in the place of their number. `Begins`, `OneAdvances`: of the operations
  a repeated first segment starts, only one gets further, because the MTS has a
  result for one invocation of a segment at most. So the segments that follow find
  the operation that has the beginning.
* `Confirmed`: a confirmation that waits is for the call taken last, and is alone.
* `Answers`: what the UA answered with a result it has, and it has shown the message
  if that was the last segment. Together with `AskedOK` this is `DeliveredShown`.

With more than one message or one try the state space is too large for a run, and
`ShownWhole` without its exception, which holds in `deliver`, is then false. That
the proof would not go through without it led to the observation on `deliver.c:643`
below.

### Only model-checked

Liveness, which rests on fairness and ENABLED and is out of the prover's reach:
`Answered`, `Told`, `Released`, `ReleasedOrStranded`, `Drained`, `UserTold`, `OpsEnd`,
`DeliveryEnds` and `InboundReturned`. Every other property of a passing run is
stated by a theorem; the four of delivery for the behaviours in which no segment is
skipped, the others (in `deliver`) being left to TLC.

Of what lies outside the hypotheses the theorems name, little is claimed: with
numbers used again, `OutcomeOnce`, `RefUnique` and the other invariants of the
engine hold (their theorems do not need `NoReuse`), at most one execution does not.

## Findings

* `submit_verify` (`ua/uacore/submit.c:651`): the UA keeps the ids of the last
  five messages whose submission succeeded, to answer the MTS when that asks
  whether a message is meant to be sent. An inactive element is put on the active
  queue without being taken off the inactive one; since `SBM_quInsert` splices
  rings, the heads of both queues end up in one ring, and from the second
  submission on ids are overwritten or out of reach. The UA then tells the MTS to
  drop messages that its user was told are submitted.
* `deliver_timer` (`ua/uacore/uperform.c:1189`): the predicate `pS2S1e` tests
  `bComplete` the wrong way round, against its comment and the label of the
  transition. A FAILURE.indication while segments are missing frees the operation
  under its segmentation timer, which frees it again when it expires.

### Observations

Behaviour that the properties above are stated around, or that was seen in
counterexamples while they were written:

* `invokact.c:457`: when the ACK cannot be sent, `tr_clInvoker04` returns before
  it starts the inactivity timer; unless the performer repeats its answer, the
  InvokeInfo and its number are never released (`Stranded` in `Erop3Way`).
* `pduin.c:240`: the performer may hold a reference number longer than the
  invoker, so that the first INVOKE of a new operation is taken for a duplicate
  of the old one.
* `tmr_if.c:123`: with two PDUs the performer keeps an operation for the inactivity
  time, four times `Roundtrip`, which a repeated INVOKE does not start again
  (`perfact2.c:256`), and then for the time a number is kept. If the invoker
  retransmits more than four times, and `(RetransmitCount - 4) * Roundtrip` is not
  below `MaxNSDULifeTime`, it may still be retransmitting when the performer has
  forgotten the operation, which is then performed a second time. The compiled values
  (4, 5000, 15000) are safe; the files `esros/prvdr/erop.ini`,
  `esros/ops_xmpl.cb/erop.ini` and `emsd/ua/uashdvem.one/erop.ini` (8, 1000, 3000)
  and those of `esros/stress.cb` are not. Writing the hypothesis of
  `Implemented2Way` led to this.
* `invokact.c:138`: an invoke request that finds every number in use succeeds and
  is never answered.
* `tmr.c:160`: the queue is not time-ordered across a wrap-around of the 32-bit
  millisecond clock.
* `schsel.c:546`: after more than 200 tasks `SCH_run` drops a task with its
  element and leaves the others for the next round.
* `schsel.c:436`: an alarm between the search for internal tasks and the select
  leaves its `TMR_poll` waiting; `Drained` shows that the next alarm repairs it.
* `msgstore.c:534`: a message that expires is reported as not delivered even if
  it was delivered less than a quarter of an hour ago, or is being delivered, and
  its cell is freed under the operation.
* `mpreproc.c:416`: a parsed error is never stored where `pS2S1b` looks for it, so
  a transient error is treated as a permanent one; `deliver.c:744`: after an error,
  and `todevice.c:97`: after a message that cannot be converted, the queue stays in
  RQ_DELIVERING, and the messages behind are reported when they expire.
* `mperform.c:1438`: a segment that arrives in s2 is not queued, although the
  transition says so; the operation waits for its timer.
* `esrosevt.c:221`, `mperform.c:1448`: an operation in s3 whose question could not
  be sent, or whose answer cannot be parsed, stays for ever (`Stuck`); the UA passes
  the answer to `ESRO_CB_resultReq` as a `BUF_` handle where a `DU_View` is expected
  (`uperform.c:1461`).
* `msgstore.c:165`: a message for more than 33 subscribers goes to the first 33; the
  others get nothing, and the originator is not told.
* `esroevt.c:219` (of `ua/uacore`): a RESULT or ERROR that cannot be copied or parsed
  is discarded, as is a RESULT without a parameter. No other indication follows, and
  the user never hears of that submission. The MTS does the same with the answer to a
  verification (`esrosevt.c:221`).
* `deliver.c:911`: when no buffer can be had for a segment, the retry sends the one
  before it again. If the failed segment was the last, `bComplete` is set already
  (`deliver.c:833`), and a RESULT for the repeated segment makes the MTS delete the
  files: for a message of two segments, the UA answers a repeated first segment with
  a RESULT.
* `deliver.c:846`: if the buffer cannot be put on the list of what is to be freed, or
  there is none because the first allocation failed, the retry uses a buffer that was
  freed or is NULL; a PDU that could only be formatted in part is sent. `deliver.c:811`:
  if a segment cannot be cloned, the handle that is formatted and freed was never set.
* `upreproc.c:297`: when the last allocation for a new invocation fails, its operation
  stays in the active list without event or timer, and the pending invocation in it
  points to contents that were freed. Segments with its sequence id find it.
* `submit.c:469`, `deliver.c:470`: sequence ids start again with the program, so
  segments of a message from before a restart may be joined with those of another.
  The MTS may even pass on a message whose user was told that it failed, when the
  result for another message's segment completes it.
* `deliver.c:643`: if the first invocation of an unsegmented message is declined,
  the retry is followed by a segment too many, and a message the user has read is
  reported as not delivered. That segment has the sequence id 0, as have the
  operations of all unsegmented messages: one of another message that waits for its
  confirmation may be given the segment, and the shell then gets the two together.
  TLC finds this in 26 states with two messages, two tries and one fault.
* `uadup.c:112`: duplicates are detected and let through, so a message whose
  RESULT was lost is shown again when it is sent again.

## Not modelled

In the engine and below it: running out of memory (`SF_memGet`, `DU_alloc`), which
the code mostly does not survive, and a failing `TMR_create`; the `dropResultConfirm`
test switch of `tr_clPerformer03`; the check of an oversize parameter; failure
reasons, encodings and PDU octets; `SCH_allTaskDelete` and the EBADF path of
`SCH_block`; the MSDOS and Windows CE variants; `tr_clInvoker06`, an ACK that
arrives in InvokePduSent, which cannot happen because `erop_getInvoke` looks an
ACK up among performers only. Each operation is requested once: a second request
is another operation. Rounds of more tasks than the sanity limit of `SCH_run`
are left out. Queue operations are atomic, although `OS_EnterAtomic` is empty on
Linux.

In the EMSD layer: what happens after a freed operation or cell was used; delivery
control and delivery verify (the UA does not support the latter, and the former
keeps no operation); 2-way submissions; operations of both directions in one
program at a time, so that the search by sequence id cannot meet an operation of
the other kind; the restart of the MTS with segments under way; the contents of
messages, their conversion and their files, which only fail or do not; a message that
needs more than `MTSUA_MAX_SEGMENTS` segments; memory for the
delivery queues running out (`DQ_addMessage` does not check); statistics and profiles.

Not modelled at all: SAP management (the bound SAPs are a constant), the shells,
PDU formats and ASN.1, the remaining OCP modules, user interfaces, tools and
testers. Most of the repository's lines are in these: variants of user interfaces
and of system interfaces for several platforms, management agents and ASN.1
tables, which keep no protocol state. `PROJECT.json` lists each with the reason.

## Plan

1. Done: the engine with both handshakes, `RemoteOp`, `Tmr`, `Sch`, `TaskQueue`;
   above `RemoteOp`, the delivery queues, submission and delivery. Proved: all
   safety invariants the runs check, and that the engine implements `RemoteOp` and
   `Sch` implements `TaskQueue`.
2. Worth modelling next: operations in both directions between two engines
   and the restart of an engine; SAP unbind with active invocations; the message
   queues of the provider and user shells.
3. Worth proving next: what of the refinement survives when numbers are used again,
   under a bound on how fast an engine invokes operations.
