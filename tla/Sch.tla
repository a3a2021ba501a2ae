-------------------------------- MODULE Sch --------------------------------
(***************************************************************************)
(* The scheduler (sysif.ocp/sch_/unix/schsel.c) under the main loop        *)
(* `SCH_block(); SCH_run();' and the SIGALRM handler that submits TMR_poll *)
(* once per clock period, at any point of the loop.                        *)
(*                                                                         *)
(* A task is "poll" (TMR_poll), "ind" (an indication or a release) or the  *)
(* socket it waits for (udp_receive).                                      *)
(***************************************************************************)
EXTENDS Integers, Sequences, FiniteSets

CONSTANTS
    Socket,     \* file descriptors with a udp_receive task
    MaxTasks,   \* elements of the pool (MAX_SCH_TASKS)
    Sanity,     \* SCH_run's sanity limit (200)
    Burst,      \* bound: tasks one poll or datagram submits
    MaxPolls    \* bound: clock periods one round of the loop may take

ASSUME SchAssumption ==
    /\ MaxTasks \in Nat /\ Sanity \in Nat /\ Burst \in Nat /\ MaxPolls \in Nat
    /\ Socket \cap {"poll", "ind", "none"} = {}
    /\ IsFiniteSet(Socket) /\ Cardinality(Socket) <= MaxTasks

Kind == {"poll", "ind"}

VARIABLES
    avail,      \* elements in availSchInfo
    active,     \* sch_activeSchInfo
    run,        \* sch_runSchInfo
    pc,         \* where the main loop is
    counter,    \* sanityCounter
    readable,   \* sockets with a datagram to read
    doing       \* the internal task run last

schVars == <<avail, active, run, pc, counter, readable, doing>>

\* The tasks of a queue that are in a set, in their order.
Those(queue, set) ==
    LET take[i \in 0 .. Len(queue)] ==
            IF i = 0 THEN <<>>
            ELSE IF queue[i] \in set THEN Append(take[i - 1], queue[i])
            ELSE take[i - 1]
    IN  take[Len(queue)]

Internal(queue) == Those(queue, Kind)

-----------------------------------------------------------------------------
\* SCH_submit aborts the process when the pool is empty.
\*
\* SIGALRM: tmr_clock arms the next alarm and submits TMR_poll.  It ends a
\* select with EINTR, and SCH_block returns.  The mutant blocks the signal
\* during the select.
Polls == Len(Those(active \o run, {"poll"}))

SubmitPoll(next) ==
    /\ pc # "aborted" /\ (Polls < MaxPolls \/ pc = "asleep")
    /\ \/ /\ avail > 0
          /\ avail' = avail - 1
          /\ active' = Append(active, "poll")
          /\ pc' = next
       \/ /\ avail = 0
          /\ pc' = "aborted"
          /\ UNCHANGED <<avail, active>>
    /\ UNCHANGED <<run, counter, readable, doing>>

SignalBlocked == pc # "asleep" /\ SubmitPoll(pc)
Signal == SubmitPoll(IF pc = "asleep" THEN "run" ELSE pc)

\* The internal tasks go to the run queue, in the order submitted.  The mutant
\* reverses them.
MoveInternalReversed(queue, from) ==
    LET mine == Internal(from)
    IN  queue \o [i \in 1 .. Len(mine) |-> mine[Len(mine) + 1 - i]]
MoveInternal(queue, from) == queue \o Internal(from)

\* SCH_block, up to the select: internal tasks first.
Scan ==
    /\ pc = "scan"
    /\ active' = Those(active, Socket)
    /\ run' = MoveInternal(run, active)
    /\ pc' = IF active = <<>> \/ Internal(active) # <<>> THEN "run"
             ELSE "select"
    /\ UNCHANGED <<avail, counter, readable, doing>>

\* select finds nothing to read and has no timeout.
Sleep ==
    /\ pc = "select"
    /\ \A i \in 1 .. Len(active) : active[i] \notin readable
    /\ pc' = "asleep"
    /\ UNCHANGED <<avail, active, run, counter, readable, doing>>

\* select returns: the tasks of the readable sockets and the internal tasks
\* submitted meanwhile go to the run queue.
Woken ==
    /\ pc \in {"select", "asleep"}
    /\ \E i \in 1 .. Len(active) : active[i] \in readable
    /\ active' = Those(active, Socket \ readable)
    /\ run' = run \o Those(active, Kind \cup readable)
    /\ pc' = "run"
    /\ UNCHANGED <<avail, counter, readable, doing>>

\* SF_QUINSERT(&availSchInfo, ...) once the task is done.  The mutant forgets
\* it.
ReturnElementLost(free) == free
ReturnElement(free) == free + 1

\* What a task submits: a poll and a datagram some indications, and
\* udp_receive itself again, last.
Submissions(task) ==
    {[i \in 1 .. k |-> "ind"] \o (IF task \in Socket THEN <<task>> ELSE <<>>) :
        k \in IF task = "ind" THEN {0} ELSE 0 .. Burst}

\* SCH_run calls the oldest task and returns its element to the pool.
RunOne ==
    /\ pc = "run" /\ run # <<>> /\ counter <= Sanity
    /\ run' = Tail(run)
    /\ counter' = counter + 1
    /\ doing' = IF Head(run) \in Kind THEN Head(run) ELSE doing
    /\ readable' = readable \ {Head(run)}
    /\ \E tasks \in Submissions(Head(run)) :
         \/ /\ Len(tasks) <= avail
            /\ avail' = ReturnElement(avail - Len(tasks))
            /\ active' = active \o tasks
            /\ pc' = pc
         \/ /\ Len(tasks) > avail
            /\ pc' = "aborted"
            /\ UNCHANGED <<avail, active>>

RunEnd ==
    /\ pc = "run" /\ run = <<>>
    /\ counter' = 0 /\ pc' = "scan"
    /\ UNCHANGED <<avail, active, run, readable, doing>>

Arrive(s) ==
    /\ s \notin readable
    /\ readable' = readable \cup {s}
    /\ UNCHANGED <<avail, active, run, pc, counter, doing>>

-----------------------------------------------------------------------------
\* At the start every socket has been given its udp_receive task.
SchInit ==
    /\ active \in {f \in [1 .. Cardinality(Socket) -> Socket] :
                     \A s \in Socket : \E i \in DOMAIN f : f[i] = s}
    /\ avail = MaxTasks - Cardinality(Socket)
    /\ run = <<>> /\ pc = "scan" /\ counter = 0
    /\ readable = {} /\ doing = "none"

MainStep == Scan \/ Sleep \/ Woken \/ RunOne \/ RunEnd

\* Rounds of at most Sanity (200) tasks: always, when the pool has no more
\* elements than that (MAX_SCH_TASKS is 100 under MSDOS), and the normal load
\* of the UNIX build.
SchNext == MainStep \/ Signal \/ \E s \in Socket : Arrive(s)
SchSpec == SchInit /\ [][SchNext]_schVars

\* The process is given the processor, and tmr_clock always arms the next
\* alarm.
FairSchSpec == SchSpec /\ WF_schVars(MainStep) /\ WF_schVars(Signal)

-----------------------------------------------------------------------------
\* No element of the pool gets lost: every element is available or stands for
\* a task in one of the queues.  So SCH_submit never finds the pool empty,
\* which would abort the process.
PoolConserved ==
    pc # "aborted" /\ avail + Len(active) + Len(run) = MaxTasks

\* The scheduler is a queue: each internal task runs once, in the order of
\* submission, whichever of the two queues it waits in and whenever the clock
\* interrupts the loop.
Fifo == INSTANCE TaskQueue WITH pending <- Internal(run \o active)
ImplementsFifo == Fifo!AbsSpec

\* Every internal task that waits is run: the queue is drained, although the
\* clock and the sockets keep adding to it.
Drained ==
    \A t \in Kind :
        (\E i \in 1 .. Len(active) : active[i] = t) ~> doing = t
=============================================================================
