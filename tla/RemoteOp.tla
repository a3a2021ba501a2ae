------------------------------ MODULE RemoteOp ------------------------------
(***************************************************************************)
(* What the ESRO service promises its users of one operation, with no      *)
(* engine, network or clock: the operation is performed at most once, the  *)
(* invoking user hears of it at most once and only what the performing     *)
(* user said, or a failure, and the performing user is told at most once   *)
(* what became of its answer.                                              *)
(***************************************************************************)
EXTENDS Naturals, Sequences

CONSTANTS
    Op,          \* operations
    Handshake    \* 3 or 2: how many PDUs an operation that succeeds takes

VARIABLES
    asked,       \* operations requested
    runs,        \* runs[op]: how many times op was handed to the performer
    answer,      \* answer[op]: the performing user's answers
    outcome,     \* outcome[op]: what the invoking user was told
    told         \* told[op]: what the performing user was told

absVars == <<asked, runs, answer, outcome, told>>

AbsInit ==
    /\ asked = {}
    /\ runs = [op \in Op |-> 0]
    /\ answer = [op \in Op |-> {}]
    /\ outcome = [op \in Op |-> <<>>]
    /\ told = [op \in Op |-> <<>>]

Request(op) ==
    /\ op \notin asked
    /\ asked' = asked \cup {op}
    /\ UNCHANGED <<runs, answer, outcome, told>>

\* The service may decline a request at once.
Decline(op) ==
    /\ op \notin asked
    /\ asked' = asked \cup {op}
    /\ outcome' = [outcome EXCEPT ![op] = <<[kind |-> "refused", op |-> op]>>]
    /\ UNCHANGED <<runs, answer, told>>

\* The performer may still be handed an operation the invoker gave up.
Perform(op) ==
    /\ op \in asked /\ runs[op] = 0
    /\ runs' = [runs EXCEPT ![op] = 1]
    /\ UNCHANGED <<asked, answer, outcome, told>>

Answer(op, kind) ==
    /\ runs[op] = 1 /\ answer[op] = {}
    /\ answer' = [answer EXCEPT ![op] = {kind}]
    /\ UNCHANGED <<asked, runs, outcome, told>>

\* The performing user may answer while the operation is handed to it.
PerformAndAnswer(op, kind) ==
    /\ op \in asked /\ runs[op] = 0
    /\ runs' = [runs EXCEPT ![op] = 1]
    /\ answer' = [answer EXCEPT ![op] = {kind}]
    /\ UNCHANGED <<asked, outcome, told>>

\* The invoking user hears the performer's own answer, or a failure.
Indicate(op, kind) ==
    /\ op \in asked /\ outcome[op] = <<>>
    /\ kind \in answer[op] \cup {"failure"}
    /\ outcome' = [outcome EXCEPT ![op] = <<[kind |-> kind, op |-> op]>>]
    /\ UNCHANGED <<asked, runs, answer, told>>

\* The performing user may be told of a failure before it answers.  A
\* confirmation repeats the answer; after three PDUs it also says that the
\* invoking user has it.
Tell(op, kind) ==
    /\ runs[op] = 1 /\ told[op] = <<>>
    /\ \/ kind = "failure"
       \/ /\ kind \in answer[op]
          /\ Handshake = 3 => outcome[op] = <<[kind |-> kind, op |-> op]>>
    /\ told' = [told EXCEPT ![op] = <<kind>>]
    /\ UNCHANGED <<asked, runs, answer, outcome>>

AbsNext ==
    \E op \in Op :
        \/ Request(op) \/ Decline(op) \/ Perform(op)
        \/ \E kind \in {"result", "error"} :
              Answer(op, kind) \/ PerformAndAnswer(op, kind)
        \/ \E kind \in {"result", "error", "failure"} :
              Indicate(op, kind) \/ Tell(op, kind)

AbsSpec == AbsInit /\ [][AbsNext]_absVars
=============================================================================
