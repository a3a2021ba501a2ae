-------------------------------- MODULE Tmr --------------------------------
(***************************************************************************)
(* The timer queue of TMR_ (sysif.ocp/tmr_/unix.djl/tmr.c).  The clock is  *)
(* an unsigned counter that wraps around; a timer remembers the value at   *)
(* which it expires.  Next to it the model keeps the instant at which the  *)
(* timer really is due, which the program does not have.                   *)
(***************************************************************************)
EXTENDS Integers, Sequences, FiniteSets, SequencesExt

CONSTANTS
    Handle,    \* timers
    Delay,     \* delays, in units of the clock
    Modulus,   \* OS_Uint32: the clock counts modulo 2^32
    Horizon    \* bound: the last instant considered

ASSUME TmrAssumption ==
    /\ Delay \subseteq Nat
    /\ Modulus \in Nat \ {0} /\ Horizon \in Nat
    /\ \A ms \in Delay : ms < Modulus

VARIABLES
    now,       \* the true time
    queue,     \* timerQHead: [handle, expiryTime, due]
    polling,   \* a call of TMR_processQueue is under way
    timeNow,   \* the true time at which it read the clock
    last       \* the last timer whose handler was called: [due, at], or none

tmrVars == <<now, queue, polling, timeNow, last>>

\* tmr_currentTime at a true time t.
currentTime(t) == t % Modulus

\* Queue positions of the timers a handle names (none, or one).
PositionOf(h) == {i \in 1 .. Len(queue) : queue[i].handle = h}

\* Where TMR_start's loop stops: before the first timer that expires later.
\* The mutant compares the wrong way round.
InsertPositionReversed(expiry) ==
    CHOOSE i \in 1 .. Len(queue) + 1 :
        /\ i <= Len(queue) => queue[i].expiryTime < expiry
        /\ \A j \in 1 .. i - 1 : queue[j].expiryTime >= expiry
InsertPosition(expiry) ==
    CHOOSE i \in 1 .. Len(queue) + 1 :
        /\ i <= Len(queue) => queue[i].expiryTime > expiry
        /\ \A j \in 1 .. i - 1 : queue[j].expiryTime <= expiry

\* tmr_obtain hands out a timer that is not in the queue.  The mutant hands
\* out one that still is.
ObtainedAgain(h) == TRUE
Obtained(h) == PositionOf(h) = {}

\* TMR_start, from the main program or from a timer's handler.
Start(h, ms) ==
    /\ Obtained(h)
    /\ LET expiry == (currentTime(now) + ms) % Modulus
           timer == [handle |-> h, expiryTime |-> expiry, due |-> now + ms]
       IN  queue' = InsertAt(queue, InsertPosition(expiry), timer)
    /\ UNCHANGED <<now, polling, timeNow, last>>

\* TMR_stop of a timer that has not expired.
Stop(h) ==
    /\ \E i \in PositionOf(h) : queue' = RemoveAt(queue, i)
    /\ UNCHANGED <<now, polling, timeNow, last>>

\* TMR_processQueue reads the clock once, then looks at the head of the queue
\* until it finds a timer that has not expired.
PollBegin ==
    /\ ~ polling
    /\ polling' = TRUE
    /\ timeNow' = now
    /\ UNCHANGED <<now, queue, last>>

\* The head of the queue has expired.  The mutants are a unit too soon and a
\* unit too late.
HeadExpiredSoon ==
    queue # <<>> /\ Head(queue).expiryTime <= currentTime(timeNow) + 1
HeadExpiredLate ==
    queue # <<>> /\ Head(queue).expiryTime < currentTime(timeNow)
HeadExpired ==
    queue # <<>> /\ Head(queue).expiryTime <= currentTime(timeNow)

\* It leaves the queue before its handler is called.  A handler that fails
\* ends the call: whatever else has expired waits for the next one.
PollFire ==
    /\ polling /\ HeadExpired
    /\ queue' = Tail(queue)
    /\ last' = [due |-> Head(queue).due, at |-> now]
    /\ polling' \in BOOLEAN
    /\ UNCHANGED <<now, timeNow>>

PollEnd ==
    /\ polling /\ ~ HeadExpired
    /\ polling' = FALSE
    /\ UNCHANGED <<now, queue, timeNow, last>>

ClockTick ==
    /\ now < Horizon
    /\ now' = now + 1
    /\ UNCHANGED <<queue, polling, timeNow, last>>

TmrInit ==
    /\ now = 0 /\ queue = <<>> /\ polling = FALSE /\ timeNow = 0
    /\ last = [due |-> 0, at |-> 0]

TmrNext ==
    \/ \E h \in Handle : Stop(h) \/ \E ms \in Delay : Start(h, ms)
    \/ PollBegin \/ PollFire \/ PollEnd \/ ClockTick

TmrSpec == TmrInit /\ [][TmrNext]_tmrVars

-----------------------------------------------------------------------------
\* The variables keep their types, and a handle names at most one timer of the
\* queue, so that TMR_stop takes out the timer its caller means.
TmrTypeOK ==
    /\ now \in 0 .. Horizon
    /\ queue \in Seq([handle : Handle, expiryTime : 0 .. Modulus - 1,
                      due : Nat])
    /\ \A h \in Handle : Cardinality(PositionOf(h)) <= 1
    /\ polling \in BOOLEAN
    /\ timeNow \in Nat /\ timeNow <= now
    /\ last \in [due : Nat, at : Nat]

\* "The timer queue is time-ordered": whatever TMR_start and TMR_stop do, no
\* timer stands behind one that is due later.
QueueTimeOrdered ==
    \A i, j \in 1 .. Len(queue) : i < j => queue[i].due <= queue[j].due

\* A call of TMR_processQueue that returns Success leaves no timer behind that
\* had expired when it read the clock, whatever the handlers start and stop
\* meanwhile.
PollComplete ==
    [][polling /\ ~ polling' /\ last' = last /\ queue' = queue =>
         \A i \in 1 .. Len(queue) : queue[i].due > timeNow]_tmrVars

\* Handlers are called in the order in which their timers are due, across
\* calls of TMR_processQueue too, and none before its time.
FiredInOrder ==
    [][last.due <= last'.due /\ last'.due <= last'.at]_tmrVars
=============================================================================
