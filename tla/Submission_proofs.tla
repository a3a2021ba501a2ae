------------------------- MODULE Submission_proofs -------------------------
(***************************************************************************)
(* Proofs about Submission, for any number of messages and segments, any   *)
(* number of failures and of restarts of the user agent.                   *)
(***************************************************************************)
EXTENDS Submission, FiniteSetTheorems, SequenceTheorems, WellFoundedInduction,
        TLAPS

Kinds == {"refused", "result", "error", "failure"}

Outcome(c, kind) == <<[kind |-> kind, op |-> c]>>

Fates == {"none", "spooled", "lost", "dropped", "refused", "expired"}

\* What an operation may look like.
OpRec == [st : {"none", "s1", "s2", "s3", "s4", "free"},
          call : Call \cup {<<o>> : o \in OpId} \cup {<<>>},
          seq : Nat, last : Nat, segs : UNION {[D -> Msg] : D \in SUBSET Nat},
          complete : BOOLEAN, timer : BOOLEAN,
          verdict : {"none", "send", "drop"},
          fate : Fates]

Event == {"invoke", "resultCon", "errorCon", "failure", "resultInd", "errorInd"}

Live == {"s1", "s2", "s3", "s4"}

\* SubmissionTypeOK, with the types of what it leaves out.
Typed ==
    /\ sAsked \subseteq Call
    /\ sRuns \in [Call -> {0, 1}]
    /\ sAnswer \in [Call -> {{}, {"result"}, {"error"}}]
    /\ sOutcome \in [Call -> Seq([kind : Kinds, op : Call])]
    /\ sTold \in [Call -> Seq({"result", "error", "failure"})]
    /\ vAsked \subseteq OpId
    /\ vRuns \in [OpId -> {0, 1}]
    /\ vAnswer \in [OpId -> SUBSET {"send", "drop", "garbled", "error"}]
    /\ vOutcome \in [OpId -> Seq([kind : {"refused", "send", "drop", "garbled",
                                          "error", "failure"}, op : OpId])]
    /\ vTold \in [OpId -> Seq({"send", "drop", "garbled", "error", "failure"})]
    /\ resultId \in [Call -> {0} \cup OpId]
    /\ ua \in [Msg -> [st : {"new", "wait", "done", "gone"}, seg : Nat,
                       ev : {"none", "result", "error", "failure"}]]
    /\ seqNo \in Nat /\ seqOf \in [Msg -> Nat]
    /\ ring \in [next : [Node -> Node], prev : [Node -> Node],
                 id : [Node -> {0} \cup OpId]]
    /\ asking \subseteq vAsked
    /\ user \in [Msg -> SUBSET {"success", "fail"}]
    /\ active \in Seq(OpId)
    /\ op \in [OpId -> OpRec]
    /\ tasks \in Seq(OpId \X Event)
    /\ wild \in BOOLEAN
    /\ restarts \in 0 .. MaxRestarts /\ faults \in 0 .. MaxFaults

\* What the ESRO service says of the calls that submit.
Served ==
    \A c \in Call :
        /\ sRuns[c] = 1 => c \in sAsked
        /\ sAnswer[c] # {} => sRuns[c] = 1
        /\ sTold[c] # <<>> => sRuns[c] = 1
        /\ c \notin sAsked => sOutcome[c] = <<>>
        /\ sOutcome[c] = Outcome(c, "result") => sAnswer[c] = {"result"}
        /\ sTold[c] = <<"result">> => sOutcome[c] = Outcome(c, "result")

\* ... and of those that verify.
Verified ==
    \A o \in OpId :
        /\ vOutcome[o] # <<>> => o \in vAsked
        /\ o \in vAsked => op[o].st \notin {"none", "s1", "s2"}
        /\ "error" \in vAnswer[o] => faults > 0

\* The UA has asked for the segments of a message one after the other, each
\* when the one before had its result.
Asked(m) ==
    /\ ua[m].seg \in 0 .. Last(m)
    /\ ua[m].st = "new" => ua[m].seg = 0 /\ seqOf[m] = 0
    /\ ua[m].st # "new" /\ Last(m) > 0 => seqOf[m] > 0
    /\ \A k \in 0 .. Last(m) :
          <<m, k>> \in sAsked <=> ua[m].st # "new" /\ k <= ua[m].seg
    /\ \A k \in 0 .. Last(m) :
          k < ua[m].seg => sOutcome[<<m, k>>] = Outcome(<<m, k>>, "result")

\* What the UA and its user know of a message is what the service said.
Informed(m) ==
    LET c == Current(m)
    IN  /\ ua[m].ev = "result" => sOutcome[c] = Outcome(c, "result")
        /\ ua[m].ev \in {"error", "failure"} => sOutcome[c] # Outcome(c, "result")
        /\ ua[m].ev \in {"error", "failure"} => sOutcome[c] # <<>>
        /\ ua[m].ev # "none" => ua[m].st = "wait"
        /\ user[m] # {} => ua[m].st = "done"
        /\ "success" \in user[m] =>
              ua[m].seg = Last(m) /\ sOutcome[c] = Outcome(c, "result")
        /\ "fail" \in user[m] =>
              sOutcome[c] # Outcome(c, "result") /\ sOutcome[c] # <<>>

Agent == \A m \in Msg : Asked(m) /\ Informed(m)

\* While the UA is not restarted its sequence ids are new.
Fresh ==
    restarts = 0 => (\A m \in Msg : seqOf[m] <= seqNo) /\ (\A m \in Msg : Alone(m))

\* Message m was submitted, and the MTS's operation o has put it together.
Done(o) ==
    \E m \in Msg : "success" \in user[m] /\ resultId[<<m, Last(m)>>] = o

\* The UA tells the MTS to send only what it told its user is submitted.
Truthful ==
    /\ \A n \in Node : ring.id[n] # 0 => Done(ring.id[n])
    /\ \A o \in OpId : "send" \in vAnswer[o] => Done(o)
    /\ \A o \in OpId : op[o].verdict = "send" => Done(o)

-----------------------------------------------------------------------------
(* Operations of the MTS.                                                  *)

Begun == {o \in OpId : op[o].st # "none"}

\* There is always an operation left to allocate.
Room ==
    Cardinality(Begun) <= Cardinality({c \in Call : sRuns[c] = 1})

\* The operations that are allocated are linked, each once.
ActiveOK ==
    /\ \A o \in OpId : op[o].st \in Live <=> \E i \in 1 .. Len(active) : active[i] = o
    /\ \A i, j \in 1 .. Len(active) : active[i] = active[j] => i = j

\* Segment k of message m is in operation o.
Has(o, m, k) == k \in DOMAIN op[o].segs /\ op[o].segs[k] = m

\* Operation o was handed call c, <<m, k>>.
Holds(o, c) == op[o].call = c \/ Has(o, c[1], c[2])

OpOK(o) ==
    LET r == op[o]
    IN  /\ r.st = "none" => r = NoOp /\ \A i \in 1 .. Len(tasks) : tasks[i][1] # o
        /\ r.call \in Call => sRuns[r.call] = 1
        /\ \A p \in OpId : r.call = <<p>> => p = o
        /\ r.st \in {"s1", "s2"} => r.call \in Call
        /\ r.st \in {"s1", "s2"} /\ r.call \in Call /\ r.call[2] > 0 =>
              0 \in DOMAIN r.segs
        /\ \A k \in DOMAIN r.segs :
              /\ <<r.segs[k], k>> \in Call
              /\ sRuns[<<r.segs[k], k>>] = 1
              /\ 0 \in DOMAIN r.segs
        /\ 0 \in DOMAIN r.segs => r.last = Last(r.segs[0])
        /\ \A k \in DOMAIN r.segs : seqOf[r.segs[k]] = r.seq
        /\ r.call \in Call /\ r.call[2] > 0 => seqOf[r.call[1]] = r.seq
        /\ r.call \in Call /\ r.call[2] = 0 =>
              \A k \in DOMAIN r.segs : k = 0 /\ r.segs[k] = r.call[1]
        /\ r.complete <=> r.segs # <<>> /\ DOMAIN r.segs = 0 .. r.last
        /\ r.complete => ~ r.timer
        /\ r.st = "s3" => r.complete
        /\ r.seq # 0 /\ r.st \in {"s1", "s2", "s3"} => 0 \in DOMAIN r.segs
        /\ r.fate # "none" => r.st = "free"

\* No call is handed to two operations.
OneHolder ==
    \A o, p \in OpId : \A c \in Call : Holds(o, c) /\ Holds(p, c) => o = p

\* The answers of the MTS say what it has.
Answers ==
    \A c \in Call :
        /\ sAnswer[c] = {"result"} => \E o \in OpId : Has(o, c[1], c[2])
        /\ resultId[c] # 0 => sAnswer[c] = {"result"} /\ Has(resultId[c], c[1], c[2])

Ops == (\A o \in OpId : OpOK(o)) /\ OneHolder /\ Answers

-----------------------------------------------------------------------------
(* The events that wait for an operation.                                  *)

\* The events for o in the queue s are t, in this order.
Waiting(s, o, t) ==
    \E f \in [1 .. Len(t) -> 1 .. Len(s)] :
        /\ \A i, j \in 1 .. Len(t) : i < j => f[i] < f[j]
        /\ \A i \in 1 .. Len(t) : s[f[i]] = <<o, t[i]>>
        /\ \A n \in 1 .. Len(s) : s[n][1] = o => \E i \in 1 .. Len(t) : f[i] = n

F == "failure"
I == "invoke"
R == "resultCon"

\* What can be waiting for an operation that has taken up the segment it was
\* handed last (joined), or not, and has answered it with a result, or not.
Shapes(st, joined, answered, told) ==
    CASE st = "s1" /\ joined /\ answered ->
            IF told = <<>> THEN {} ELSE {<<>>}
      [] st = "s1" /\ joined /\ ~ answered ->
            IF told = <<>> THEN {<<>>} ELSE {<<F>>}
      [] st = "s1" /\ ~ joined ->
            IF told = <<>> THEN {<<I>>} ELSE {<<I, F>>, <<>>}
      [] st = "s2" /\ joined /\ answered ->
            IF told = <<>> THEN {<<>>}
            ELSE IF told = <<"result">> THEN {<<R>>} ELSE {<<F>>}
      [] st = "s2" /\ joined /\ ~ answered ->
            IF told = <<>> THEN {<<F>>} ELSE {<<F, F>>}
      [] OTHER ->
            IF told = <<>> THEN {<<>>, <<I>>, <<R, I>>, <<F, I>>}
            ELSE {<<F>>, <<I, F>>, <<R, I, F>>, <<F, I, F>>}

\* Message m, no other of which has the sequence id, and its operation o.
Orderly(o, m) ==
    LET r == op[o]
        c == r.call
    IN  /\ \A k \in DOMAIN r.segs : r.segs[k] = m
        /\ c \in Call => c[1] = m
        /\ c \in Call => \A k \in DOMAIN r.segs : k <= c[2]
        /\ r.st \in {"s1", "s2"} =>
              /\ c[2] \notin DOMAIN r.segs => sAnswer[c] = {}
              /\ sAnswer[c] # {"error"}
              /\ sAnswer[c] = {} => sTold[c] \in {<<>>, <<"failure">>}
              /\ \E t \in Shapes(r.st, c[2] \in DOMAIN r.segs,
                                 sAnswer[c] = {"result"}, sTold[c]) :
                    Waiting(tasks, o, t)

\* Operation o has the first segment of m.
Owns(o, m) == Holds(o, <<m, 0>>)

Order == \A m \in Msg, o \in OpId : Alone(m) /\ Owns(o, m) => Orderly(o, m)

\* What may wait for an operation that has all of a message and has said so.
Settling(o) ==
    \E t \in {<<>>, <<"resultInd">>, <<"errorInd">>, <<F>>} :
        /\ Waiting(tasks, o, t)
        /\ t # <<>> => vOutcome[o] # <<>>
        /\ t = <<"errorInd">> => faults > 0
        /\ op[o].call \in Call => sTold[op[o].call] # <<>>

\* What the MTS has answered with a result for the last segment is accounted
\* for.
Accounted ==
    \A m \in Msg, o \in OpId :
        /\ Alone(m) /\ Has(o, m, Last(m)) /\ sAnswer[<<m, Last(m)>>] = {"result"}
        => /\ op[o].segs = Whole(m) /\ op[o].complete
           /\ \/ op[o].st = "s2"
              \/ op[o].st = "s3" /\ Settling(o)
              \/ op[o].fate = "spooled"
              \/ op[o].fate = "dropped" /\ o \in vAsked
              \/ op[o].fate = "lost" /\ faults > 0

\* What was passed on is a whole message whose submission has succeeded.
Passed ==
    \A m \in Msg, o \in OpId :
        Alone(m) /\ op[o].fate = "spooled" /\ Has(o, m, 0) =>
            /\ op[o].segs = Whole(m)
            /\ sOutcome[<<m, Last(m)>>] = Outcome(<<m, Last(m)>>, "result")

SpooledHas == \A o \in OpId : op[o].fate = "spooled" => 0 \in DOMAIN op[o].segs

SubmissionInv ==
    /\ Typed /\ Served /\ Verified /\ Agent /\ Fresh /\ Truthful
    /\ Room /\ ActiveOK /\ Ops /\ Order /\ Accounted /\ Passed /\ SpooledHas

-----------------------------------------------------------------------------
(* The queue of events.                                                    *)

LEMMA AppendFacts ==
    ASSUME NEW T, NEW s \in Seq(T), NEW e \in T, NEW n, n = Len(s)
    PROVE  /\ n \in Nat /\ Append(s, e) \in Seq(T) /\ Len(Append(s, e)) = n + 1
           /\ Append(s, e)[n + 1] = e
           /\ \A i \in 1 .. n : Append(s, e)[i] = s[i]
OBVIOUS

LEMMA TailFacts ==
    ASSUME NEW T, NEW s \in Seq(T), s # <<>>, NEW n, n = Len(s)
    PROVE  /\ n \in Nat \ {0} /\ Tail(s) \in Seq(T) /\ Len(Tail(s)) = n - 1
           /\ s[1] = Head(s)
           /\ \A i \in 1 .. n - 1 : Tail(s)[i] = s[i + 1]
OBVIOUS

\* Short queues.
LEMMA ShortQueues ==
    ASSUME NEW a \in Event, NEW b \in Event, NEW c \in Event
    PROVE  /\ Append(<<>>, a) = <<a>> /\ Append(<<a>>, b) = <<a, b>>
           /\ Append(<<a, b>>, c) = <<a, b, c>>
           /\ Tail(<<a>>) = <<>> /\ Tail(<<a, b>>) = <<b>>
           /\ Tail(<<a, b, c>>) = <<b, c>>
           /\ Head(<<a>>) = a /\ Head(<<a, b>>) = a /\ Head(<<a, b, c>>) = a
           /\ <<a>> # <<>> /\ <<a, b>> # <<>> /\ <<a, b, c>> # <<>>
<1>1. /\ <<>> \in Seq(Event) /\ <<a>> \in Seq(Event) /\ <<b>> \in Seq(Event)
      /\ <<a, b>> \in Seq(Event) /\ <<b, c>> \in Seq(Event) /\ <<a, b, c>> \in Seq(Event)
  OBVIOUS
<1>2. Append(<<>>, a) = <<a>>
  <2>1. Append(<<>>, a) \in Seq(Event) /\ Len(Append(<<>>, a)) = 1 /\ Append(<<>>, a)[1] = a
    BY <1>1
  <2> QED
    BY <1>1, <2>1, SeqEqual
<1>3. Append(<<a>>, b) = <<a, b>>
  <2>1. /\ Append(<<a>>, b) \in Seq(Event) /\ Len(Append(<<a>>, b)) = 2
        /\ Append(<<a>>, b)[1] = a /\ Append(<<a>>, b)[2] = b
    BY <1>1
  <2>2. PICK s : s = Append(<<a>>, b)
    OBVIOUS
  <2>3. s \in Seq(Event) /\ Len(s) = Len(<<a, b>>) /\ \A i \in 1 .. Len(s) : s[i] = <<a, b>>[i]
    BY <2>1, <2>2
  <2>4. s = <<a, b>>
    BY <1>1, <2>3, SeqEqual
  <2> QED
    BY <2>2, <2>4
<1>4. Append(<<a, b>>, c) = <<a, b, c>>
  <2>1. /\ Append(<<a, b>>, c) \in Seq(Event) /\ Len(Append(<<a, b>>, c)) = 3
        /\ Append(<<a, b>>, c)[1] = a /\ Append(<<a, b>>, c)[2] = b
        /\ Append(<<a, b>>, c)[3] = c
    BY <1>1
  <2>2. PICK s : s = Append(<<a, b>>, c)
    OBVIOUS
  <2>3. s \in Seq(Event) /\ Len(s) = Len(<<a, b, c>>)
        /\ \A i \in 1 .. Len(s) : s[i] = <<a, b, c>>[i]
    BY <2>1, <2>2
  <2>4. s = <<a, b, c>>
    BY <1>1, <2>3, SeqEqual
  <2> QED
    BY <2>2, <2>4
<1>5. Tail(<<a>>) = <<>>
  <2>1. Tail(<<a>>) \in Seq(Event) /\ Len(Tail(<<a>>)) = 0
    BY <1>1
  <2> QED
    BY <2>1
<1>6. Tail(<<a, b>>) = <<b>>
  <2>1. Tail(<<a, b>>) \in Seq(Event) /\ Len(Tail(<<a, b>>)) = 1 /\ Tail(<<a, b>>)[1] = b
    BY <1>1
  <2> QED
    BY <1>1, <2>1, SeqEqual
<1>7. Tail(<<a, b, c>>) = <<b, c>>
  <2>1. /\ Tail(<<a, b, c>>) \in Seq(Event) /\ Len(Tail(<<a, b, c>>)) = 2
        /\ Tail(<<a, b, c>>)[1] = b /\ Tail(<<a, b, c>>)[2] = c
    BY <1>1
  <2> QED
    BY <1>1, <2>1, SeqEqual
<1>8. Head(<<a>>) = a /\ Head(<<a, b>>) = a /\ Head(<<a, b, c>>) = a
  OBVIOUS
<1>9. <<a>> # <<>> /\ <<a, b>> # <<>> /\ <<a, b, c>> # <<>>
  OBVIOUS
<1> QED
  BY <1>2, <1>3, <1>4, <1>5, <1>6, <1>7, <1>8, <1>9

\* An event for o is the last that waits for o.
LEMMA WaitingAppend ==
    ASSUME NEW s \in Seq(OpId \X Event), NEW o \in OpId, NEW e \in Event,
           NEW t \in Seq(Event), Waiting(s, o, t)
    PROVE  Waiting(Append(s, <<o, e>>), o, Append(t, e))
<1>0. PICK n \in Nat, k \in Nat : n = Len(s) /\ k = Len(t)
  OBVIOUS
<1> DEFINE s2 == Append(s, <<o, e>>)
           t2 == Append(t, e)
<1>1. PICK f \in [1 .. k -> 1 .. n] :
          /\ \A i, j \in 1 .. k : i < j => f[i] < f[j]
          /\ \A i \in 1 .. k : s[f[i]] = <<o, t[i]>>
          /\ \A x \in 1 .. n : s[x][1] = o => \E i \in 1 .. k : f[i] = x
  BY <1>0 DEF Waiting
<1> HIDE DEF s2, t2
<1> DEFINE g == [i \in 1 .. k + 1 |-> IF i = k + 1 THEN n + 1 ELSE f[i]]
<1>2. /\ Len(s2) = n + 1 /\ Len(t2) = k + 1 /\ n \in Nat /\ k \in Nat
      /\ s2[n + 1] = <<o, e>> /\ \A i \in 1 .. n : s2[i] = s[i]
      /\ t2[k + 1] = e /\ \A i \in 1 .. k : t2[i] = t[i]
  <2>1. <<o, e>> \in OpId \X Event
    OBVIOUS
  <2> QED
    BY <1>0, <2>1, AppendFacts DEF s2, t2
<1>3. g \in [1 .. k + 1 -> 1 .. n + 1]
  BY <1>1, <1>2
<1>4. \A i, j \in 1 .. k + 1 : i < j => g[i] < g[j]
  BY <1>1, <1>2
<1>5. \A i \in 1 .. k + 1 : s2[g[i]] = <<o, t2[i]>>
  BY <1>1, <1>2
<1>6. ASSUME NEW x \in 1 .. n + 1, s2[x][1] = o
      PROVE  \E i \in 1 .. k + 1 : g[i] = x
  <2>1. CASE x = n + 1
    BY <2>1, <1>2
  <2>2. CASE x # n + 1
    <3>1. PICK i \in 1 .. k : f[i] = x
      <4>1. x \in 1 .. n
        BY <2>2, <1>2
      <4>2. s[x][1] = o
        BY <4>1, <1>2, <1>6
      <4> QED
        BY <4>1, <4>2, <1>1
    <3>2. i \in 1 .. k + 1 /\ g[i] = x
      BY <3>1, <1>2
    <3> QED
      BY <3>2
  <2> QED
    BY <2>1, <2>2
<1> HIDE DEF g
<1>7. Waiting(s2, o, t2)
  <2>1. g \in [1 .. Len(t2) -> 1 .. Len(s2)]
    BY <1>2, <1>3
  <2>2. \A i, j \in 1 .. Len(t2) : i < j => g[i] < g[j]
    BY <1>2, <1>4
  <2>3. \A i \in 1 .. Len(t2) : s2[g[i]] = <<o, t2[i]>>
    BY <1>2, <1>5
  <2>4. \A x \in 1 .. Len(s2) : s2[x][1] = o => \E i \in 1 .. Len(t2) : g[i] = x
    BY <1>2, <1>6
  <2> QED
    BY <2>1, <2>2, <2>3, <2>4, Zenon DEF Waiting
<1> QED
  BY <1>7 DEF s2, t2

\* An event for another operation is not.
LEMMA WaitingAppendOther ==
    ASSUME NEW s \in Seq(OpId \X Event), NEW o \in OpId, NEW e \in Event,
           NEW p \in OpId \ {o}, NEW t \in Seq(Event), Waiting(s, p, t)
    PROVE  Waiting(Append(s, <<o, e>>), p, t)
<1>0. PICK n \in Nat, k \in Nat : n = Len(s) /\ k = Len(t)
  OBVIOUS
<1> DEFINE s2 == Append(s, <<o, e>>)
<1>1. PICK f \in [1 .. k -> 1 .. n] :
          /\ \A i, j \in 1 .. k : i < j => f[i] < f[j]
          /\ \A i \in 1 .. k : s[f[i]] = <<p, t[i]>>
          /\ \A x \in 1 .. n : s[x][1] = p => \E i \in 1 .. k : f[i] = x
  BY <1>0 DEF Waiting
<1>2. /\ Len(s2) = n + 1 /\ n \in Nat /\ k \in Nat
      /\ s2[n + 1] = <<o, e>> /\ \A i \in 1 .. n : s2[i] = s[i]
  <2>1. <<o, e>> \in OpId \X Event
    OBVIOUS
  <2> QED
    BY <1>0, <2>1, AppendFacts
<1> HIDE DEF s2
<1>3. f \in [1 .. k -> 1 .. n + 1]
  BY <1>1, <1>2
<1>4. \A i \in 1 .. k : s2[f[i]] = <<p, t[i]>>
  BY <1>1, <1>2
<1>5. \A x \in 1 .. n + 1 : s2[x][1] = p => \E i \in 1 .. k : f[i] = x
  BY <1>1, <1>2, SMTT(40)
<1>6. Waiting(s2, p, t)
  <2>1. f \in [1 .. Len(t) -> 1 .. Len(s2)]
    BY <1>0, <1>2, <1>3
  <2>2. \A i, j \in 1 .. Len(t) : i < j => f[i] < f[j]
    BY <1>0, <1>2, <1>1
  <2>3. \A i \in 1 .. Len(t) : s2[f[i]] = <<p, t[i]>>
    BY <1>0, <1>2, <1>4
  <2>4. \A x \in 1 .. Len(s2) : s2[x][1] = p => \E i \in 1 .. Len(t) : f[i] = x
    BY <1>0, <1>2, <1>5
  <2> QED
    BY <2>1, <2>2, <2>3, <2>4, Zenon DEF Waiting
<1> QED
  BY <1>6 DEF s2

\* When the first event is taken from the queue, nothing changes for the other
\* operations.
LEMMA WaitingTailOther ==
    ASSUME NEW s \in Seq(OpId \X Event), s # <<>>,
           NEW p \in OpId, Head(s)[1] # p, NEW t \in Seq(Event), Waiting(s, p, t)
    PROVE  Waiting(Tail(s), p, t)
<1>0. PICK n \in Nat, k \in Nat : n = Len(s) /\ k = Len(t)
  OBVIOUS
<1> DEFINE s2 == Tail(s)
<1>1. PICK f \in [1 .. k -> 1 .. n] :
          /\ \A i, j \in 1 .. k : i < j => f[i] < f[j]
          /\ \A i \in 1 .. k : s[f[i]] = <<p, t[i]>>
          /\ \A x \in 1 .. n : s[x][1] = p => \E i \in 1 .. k : f[i] = x
  BY <1>0 DEF Waiting
<1>2. /\ Len(s2) = n - 1 /\ n \in Nat \ {0} /\ k \in Nat /\ s[1] = Head(s)
      /\ \A i \in 1 .. n - 1 : s2[i] = s[i + 1]
  BY <1>0, TailFacts
<1> HIDE DEF s2
<1> DEFINE g == [i \in 1 .. k |-> f[i] - 1]
<1>3. \A i \in 1 .. k : f[i] \in 2 .. n
  <2> SUFFICES ASSUME NEW i \in 1 .. k PROVE f[i] # 1
    BY <1>1, <1>2
  <2>1. s[f[i]][1] = p
    BY <1>1
  <2> QED
    BY <2>1, <1>2
<1>4. g \in [1 .. k -> 1 .. n - 1]
  BY <1>2, <1>3
<1>5. \A i, j \in 1 .. k : i < j => g[i] < g[j]
  BY <1>1, <1>2, <1>3
<1>6. \A i \in 1 .. k : s2[g[i]] = <<p, t[i]>>
  <2> SUFFICES ASSUME NEW i \in 1 .. k PROVE s2[f[i] - 1] = <<p, t[i]>>
    OBVIOUS
  <2>1. f[i] - 1 \in 1 .. n - 1 /\ (f[i] - 1) + 1 = f[i]
    BY <1>2, <1>3
  <2>2. s2[f[i] - 1] = s[f[i]]
    BY <2>1, <1>2
  <2> QED
    BY <2>2, <1>1
<1>7. ASSUME NEW x \in 1 .. n - 1, s2[x][1] = p
      PROVE  \E i \in 1 .. k : g[i] = x
  <2>1. PICK i \in 1 .. k : f[i] = x + 1
    <3>1. x + 1 \in 1 .. n /\ s[x + 1][1] = p
      BY <1>2, <1>7
    <3> QED
      BY <3>1, <1>1
  <2> QED
    BY <2>1, <1>2
<1> HIDE DEF g
<1>8. Waiting(s2, p, t)
  <2>1. g \in [1 .. Len(t) -> 1 .. Len(s2)]
    BY <1>0, <1>2, <1>4
  <2>2. \A i, j \in 1 .. Len(t) : i < j => g[i] < g[j]
    BY <1>0, <1>2, <1>5
  <2>3. \A i \in 1 .. Len(t) : s2[g[i]] = <<p, t[i]>>
    BY <1>0, <1>2, <1>6
  <2>4. \A x \in 1 .. Len(s2) : s2[x][1] = p => \E i \in 1 .. Len(t) : g[i] = x
    BY <1>0, <1>2, <1>7
  <2> QED
    BY <2>1, <2>2, <2>3, <2>4, Zenon DEF Waiting
<1> QED
  BY <1>8 DEF s2

\* For its own operation it is the first that waited.
LEMMA WaitingTail ==
    ASSUME NEW s \in Seq(OpId \X Event), s # <<>>,
           NEW o \in OpId, NEW e \in Event, Head(s) = <<o, e>>,
           NEW t \in Seq(Event), Waiting(s, o, t)
    PROVE  t # <<>> /\ Head(t) = e /\ Waiting(Tail(s), o, Tail(t))
<1>0. PICK n \in Nat, k \in Nat : n = Len(s) /\ k = Len(t)
  OBVIOUS
<1> DEFINE s2 == Tail(s)
           t2 == Tail(t)
<1>1. PICK f \in [1 .. k -> 1 .. n] :
          /\ \A i, j \in 1 .. k : i < j => f[i] < f[j]
          /\ \A i \in 1 .. k : s[f[i]] = <<o, t[i]>>
          /\ \A x \in 1 .. n : s[x][1] = o => \E i \in 1 .. k : f[i] = x
  BY <1>0 DEF Waiting
<1>2. /\ Len(s2) = n - 1 /\ n \in Nat \ {0} /\ k \in Nat /\ s[1] = <<o, e>>
      /\ \A i \in 1 .. n - 1 : s2[i] = s[i + 1]
  BY <1>0, TailFacts
<1>3. PICK h \in 1 .. k : f[h] = 1
  BY <1>1, <1>2
<1>4. h = 1
  <2> SUFFICES ASSUME h # 1 PROVE FALSE
    OBVIOUS
  <2>1. 1 \in 1 .. k /\ 1 < h
    BY <1>2
  <2>2. f[1] < f[h] /\ f[1] \in 1 .. n
    BY <2>1, <1>1
  <2> QED
    BY <2>2, <1>2, <1>3
<1>5. /\ k # 0 /\ t # <<>> /\ t[1] = e /\ Head(t) = t[1]
      /\ Len(t2) = k - 1 /\ \A i \in 1 .. k - 1 : t2[i] = t[i + 1]
  <2>1. k # 0 /\ t # <<>>
    BY <1>0, <1>2, <1>3
  <2>2. s[f[1]] = <<o, t[1]>>
    BY <1>1, <1>2, <2>1
  <2>3. t[1] = e
    BY <2>2, <1>2, <1>3, <1>4
  <2> QED
    BY <1>0, <2>1, <2>3, TailFacts
<1> HIDE DEF s2, t2
<1> DEFINE g == [i \in 1 .. k - 1 |-> f[i + 1] - 1]
<1>6. \A i \in 2 .. k : f[i] \in 2 .. n
  <2> SUFFICES ASSUME NEW i \in 2 .. k PROVE f[i] \in 2 .. n
    OBVIOUS
  <2>1. f[1] < f[i]
    BY <1>1, <1>2, <1>5
  <2> QED
    BY <2>1, <1>1, <1>2, <1>3, <1>4
<1>7. g \in [1 .. k - 1 -> 1 .. n - 1]
  <2> SUFFICES ASSUME NEW i \in 1 .. k - 1 PROVE f[i + 1] - 1 \in 1 .. n - 1
    OBVIOUS
  <2>1. i + 1 \in 2 .. k
    BY <1>2
  <2> QED
    BY <2>1, <1>2, <1>6
<1>8. \A i, j \in 1 .. k - 1 : i < j => g[i] < g[j]
  <2> SUFFICES ASSUME NEW i \in 1 .. k - 1, NEW j \in 1 .. k - 1, i < j
               PROVE  f[i + 1] - 1 < f[j + 1] - 1
    OBVIOUS
  <2>1. i + 1 \in 2 .. k /\ j + 1 \in 2 .. k /\ i + 1 < j + 1
    BY <1>2
  <2>2. f[i + 1] < f[j + 1] /\ f[i + 1] \in 2 .. n /\ f[j + 1] \in 2 .. n
    BY <2>1, <1>1, <1>6, <1>2
  <2> QED
    BY <2>2, <1>2
<1>9. \A i \in 1 .. k - 1 : s2[g[i]] = <<o, t2[i]>>
  <2> SUFFICES ASSUME NEW i \in 1 .. k - 1 PROVE s2[f[i + 1] - 1] = <<o, t2[i]>>
    OBVIOUS
  <2>1. i + 1 \in 1 .. k /\ i + 1 \in 2 .. k
    BY <1>2
  <2>2. f[i + 1] \in 2 .. n /\ s[f[i + 1]] = <<o, t[i + 1]>>
    BY <2>1, <1>1, <1>6
  <2>3. f[i + 1] - 1 \in 1 .. n - 1 /\ (f[i + 1] - 1) + 1 = f[i + 1]
    BY <2>2, <1>2, SMTT(40)
  <2>4. s2[f[i + 1] - 1] = s[f[i + 1]]
    BY <2>3, <1>2
  <2> QED
    BY <2>2, <2>4, <1>5
<1>10. ASSUME NEW x \in 1 .. n - 1, s2[x][1] = o
       PROVE  \E i \in 1 .. k - 1 : g[i] = x
  <2>1. PICK i \in 1 .. k : f[i] = x + 1
    <3>1. x + 1 \in 1 .. n /\ s2[x] = s[x + 1]
      BY <1>2
    <3>2. s[x + 1][1] = o
      BY <3>1, <1>10
    <3> QED
      BY <3>1, <3>2, <1>1
  <2>2. i # 1
    BY <2>1, <1>2, <1>3, <1>4
  <2>3. i - 1 \in 1 .. k - 1 /\ (i - 1) + 1 = i
    BY <2>2, <1>2
  <2>4. g[i - 1] = f[(i - 1) + 1] - 1
    BY <2>3
  <2>5. g[i - 1] = x
    BY <2>1, <2>3, <2>4, <1>2
  <2> QED
    BY <2>3, <2>5
<1> HIDE DEF g
<1>11. Waiting(s2, o, t2)
  <2>1. g \in [1 .. Len(t2) -> 1 .. Len(s2)]
    BY <1>2, <1>5, <1>7
  <2>2. \A i, j \in 1 .. Len(t2) : i < j => g[i] < g[j]
    BY <1>2, <1>5, <1>8
  <2>3. \A i \in 1 .. Len(t2) : s2[g[i]] = <<o, t2[i]>>
    BY <1>2, <1>5, <1>9
  <2>4. \A x \in 1 .. Len(s2) : s2[x][1] = o => \E i \in 1 .. Len(t2) : g[i] = x
    BY <1>2, <1>5, <1>10
  <2> QED
    BY <2>1, <2>2, <2>3, <2>4, Zenon DEF Waiting
<1> QED
  BY <1>5, <1>11 DEF s2, t2

LEMMA WaitingNone ==
    ASSUME NEW s \in Seq(OpId \X Event), NEW o \in OpId,
           \A i \in 1 .. Len(s) : s[i][1] # o
    PROVE  Waiting(s, o, <<>>)
<1> DEFINE f == [i \in 1 .. 0 |-> 1]
<1>1. f \in [1 .. Len(<<>>) -> 1 .. Len(s)] /\ 1 .. Len(<<>>) = {}
  OBVIOUS
<1> HIDE DEF f
<1> QED
  BY <1>1 DEF Waiting

-----------------------------------------------------------------------------
(* Operations and calls.                                                   *)

LEMMA SmallestIndex ==
    ASSUME NEW n, NEW X \in SUBSET (1 .. n), X # {}
    PROVE  \E i \in X : \A j \in X : i <= j
<1> DEFINE Less == {ss \in Nat \X Nat : ss[1] < ss[2]}
<1>1. IsWellFoundedOn(Less, Nat)
  BY NatLessThanWellFounded, Zenon DEF OpToRel
<1>2. X \in SUBSET Nat
  OBVIOUS
<1>3. PICK i \in X : \A j \in X : ~ (<<j, i>> \in Less)
  BY <1>1, <1>2, WFMin, Zenon
<1>4. ASSUME NEW j \in X PROVE i <= j
  <2>1. j \in Nat /\ i \in Nat /\ ~ (<<j, i>> \in Less)
    BY <1>2, <1>3
  <2> QED
    BY <2>1
<1> QED
  BY <1>4

\* findOperationByInvokeId finds an operation that was handed the call, if
\* there is one.
LEMMA FoundByInvokeId ==
    ASSUME Typed, NEW c
    PROVE  LET o == findOperationByInvokeId(c)
               X == {p \in OpId : op[p].call = c /\ \E i \in 1 .. Len(active) : active[i] = p}
           IN  IF X = {} THEN o = 0 ELSE o \in X
<1> DEFINE Y == {i \in 1 .. Len(active) : op[active[i]].call = c}
<1>1. findOperationByInvokeId(c) = IF Y = {} THEN 0 ELSE First(Y)
  BY DEF findOperationByInvokeId, Occupied
<1>2. \A i \in 1 .. Len(active) : active[i] \in OpId
  BY DEF Typed
<1>3. CASE Y = {}
  BY <1>1, <1>2, <1>3
<1>4. CASE Y # {}
  <2>1. PICK i \in Y : \A j \in Y : i <= j
    BY <1>4, SmallestIndex
  <2>2. First(Y) \in {active[j] : j \in Y}
    BY <2>1 DEF First
  <2> QED
    BY <1>1, <1>2, <1>4, <2>2
<1> QED
  BY <1>3, <1>4

\* findOperationBySequenceId finds one that has the sequence id.
LEMMA FoundBySequenceId ==
    ASSUME Typed, NEW q
    PROVE  LET o == findOperationBySequenceId(q)
               X == {p \in OpId : op[p].seq = q /\ \E i \in 1 .. Len(active) : active[i] = p}
           IN  IF X = {} THEN o = 0 ELSE o \in X
<1> DEFINE Y == {i \in 1 .. Len(active) : op[active[i]].seq = q}
<1>1. findOperationBySequenceId(q) = IF Y = {} THEN 0 ELSE First(Y)
  BY DEF findOperationBySequenceId, Occupied
<1>2. \A i \in 1 .. Len(active) : active[i] \in OpId
  BY DEF Typed
<1>3. CASE Y = {}
  BY <1>1, <1>2, <1>3
<1>4. CASE Y # {}
  <2>1. PICK i \in Y : \A j \in Y : i <= j
    BY <1>4, SmallestIndex
  <2>2. First(Y) \in {active[j] : j \in Y}
    BY <2>1 DEF First
  <2> QED
    BY <1>1, <1>2, <1>4, <2>2
<1> QED
  BY <1>3, <1>4

\* The calls can be counted.
LEMMA CallsFinite == IsFiniteSet(Call)
<1> DEFINE part == [m \in Msg |-> {m} \X (0 .. Last(m))]
           P == {{m} \X (0 .. Last(m)) : m \in Msg}
<1>1. \A m \in Msg : Last(m) \in Nat
  BY SubmissionAssumption DEF Last
<1>2. IsFiniteSet(P)
  <2>1. part \in Surjection(Msg, P)
    BY DEF Surjection
  <2> HIDE DEF part, P
  <2> QED
    BY <2>1, FS_Surjection, SubmissionAssumption
<1>3. ASSUME NEW T \in P PROVE IsFiniteSet(T)
  <2>1. PICK m \in Msg : T = {m} \X (0 .. Last(m))
    BY <1>3
  <2>2. IsFiniteSet({m}) /\ IsFiniteSet(0 .. Last(m))
    <3>1. 0 \in Int /\ Last(m) \in Int
      BY <1>1
    <3> QED
      BY <3>1, FS_Singleton, FS_Interval
  <2> QED
    BY <2>1, <2>2, FS_Product
<1> HIDE DEF P
<1>4. IsFiniteSet(UNION P)
  BY <1>2, <1>3, FS_UNION
<1> QED
  BY <1>4 DEF P, Call

LEMMA OpIdFinite ==
    /\ IsFiniteSet(OpId) /\ OpId \subseteq Nat
    /\ Cardinality(OpId) = Cardinality(Call) /\ Cardinality(Call) \in Nat
<1>1. Cardinality(Call) \in Nat
  BY CallsFinite, FS_CardinalityType
<1> QED
  BY <1>1, FS_Interval, SMTT(40) DEF OpId

\* While a call is not yet performed there is an operation left for it.
LEMMA FreshOpLeft ==
    ASSUME Room, NEW c \in Call, sRuns[c] = 0
    PROVE  FreshOp \in OpId /\ op[FreshOp].st = "none"
<1> DEFINE done == {d \in Call : sRuns[d] = 1}
           spare == {o \in OpId : op[o].st = "none"}
<1>1. Cardinality(done) < Cardinality(Call)
  <2>1. done \in SUBSET Call /\ c \notin done
    OBVIOUS
  <2>2. /\ Cardinality(done) <= Cardinality(Call)
        /\ Cardinality(Call) = Cardinality(done) => Call = done
        /\ IsFiniteSet(done)
    BY <2>1, CallsFinite, FS_Subset
  <2>3. Cardinality(done) \in Nat
    BY <2>2, FS_CardinalityType
  <2> QED
    BY <2>1, <2>2, <2>3, OpIdFinite
<1>2. spare # {}
  <2> SUFFICES ASSUME spare = {} PROVE FALSE
    OBVIOUS
  <2>1. Begun = OpId
    BY DEF Begun
  <2>2. IsFiniteSet(done)
    BY CallsFinite, FS_Subset
  <2>3. Cardinality(done) \in Nat
    BY <2>2, FS_CardinalityType
  <2> QED
    BY <1>1, <2>1, <2>3, OpIdFinite DEF Room
<1>3. PICK o \in spare : \A p \in spare : o <= p
  BY <1>2, SmallestIndex DEF OpId
<1>4. \A p \in OpId : p < o => op[p].st # "none"
  BY <1>3, OpIdFinite
<1> QED
  BY <1>3, <1>4 DEF FreshOp

\* What is well typed.
LEMMA CallParts ==
    ASSUME NEW c \in Call
    PROVE  /\ c[1] \in Msg /\ c[2] \in 0 .. Last(c[1]) /\ c[2] \in Nat
           /\ c = <<c[1], c[2]>>
           /\ Last(c[1]) \in Nat
<1>1. PICK m \in Msg : c \in {m} \X (0 .. Last(m))
  BY DEF Call
<1>2. Last(m) \in Nat
  BY SubmissionAssumption DEF Last
<1> QED
  BY <1>1, <1>2

LEMMA CallIs ==
    ASSUME NEW m \in Msg
    PROVE  /\ Last(m) \in Nat
           /\ \A k \in 0 .. Last(m) : <<m, k>> \in Call
           /\ <<m, 0>> \in Call /\ <<m, Last(m)>> \in Call
<1>1. Last(m) \in Nat
  BY SubmissionAssumption DEF Last
<1>2. \A k \in 0 .. Last(m) : <<m, k>> \in Call
  BY DEF Call
<1> QED
  BY <1>1, <1>2

\* The call of a question is none that submits.
LEMMA QuestionNoCall ==
    ASSUME NEW o
    PROVE  <<o>> \notin Call /\ <<>> \notin Call /\ <<o>> # <<>>
<1>1. \A c \in Call : Len(c) = 2
  BY CallParts
<1> QED
  BY <1>1

-----------------------------------------------------------------------------
(* Steps of the service.                                                   *)

STyped ==
    /\ sAsked \subseteq Call
    /\ sRuns \in [Call -> {0, 1}]
    /\ sAnswer \in [Call -> {{}, {"result"}, {"error"}}]
    /\ sOutcome \in [Call -> Seq([kind : Kinds, op : Call])]
    /\ sTold \in [Call -> Seq({"result", "error", "failure"})]

\* What has happened to a call stays.
Kept ==
    \A c \in Call :
        /\ c \in sAsked => c \in sAsked'
        /\ sRuns[c] = 1 => sRuns'[c] = 1
        /\ sAnswer[c] # {} => sAnswer'[c] = sAnswer[c]
        /\ sOutcome[c] # <<>> => sOutcome'[c] = sOutcome[c]
        /\ sTold[c] # <<>> => sTold'[c] = sTold[c]

\* A step that tells the invoking user's side.
LEMMA InvokerStep ==
    ASSUME STyped, Served, NEW c \in Call,
           \/ S!Request(c) \/ S!Decline(c)
           \/ \E kind \in {"result", "error", "failure"} : S!Indicate(c, kind)
    PROVE  /\ STyped' /\ Served' /\ Kept
           /\ sRuns' = sRuns /\ sAnswer' = sAnswer /\ sTold' = sTold
<1>1. CASE S!Request(c)
  BY <1>1 DEF S!Request, STyped, Served, Kept
<1>2. CASE S!Decline(c)
  <2>1. /\ c \notin sAsked /\ sAsked' = sAsked \cup {c} /\ sOutcome[c] = <<>>
        /\ sOutcome' = [sOutcome EXCEPT ![c] = Outcome(c, "refused")]
        /\ UNCHANGED <<sRuns, sAnswer, sTold>>
    BY <1>2 DEF S!Decline, Outcome, Served
  <2>2. /\ Outcome(c, "refused") \in Seq([kind : Kinds, op : Call])
        /\ Outcome(c, "refused") # Outcome(c, "result")
    BY DEF Outcome, Kinds
  <2> QED
    BY <2>1, <2>2 DEF STyped, Served, Kept
<1>3. CASE \E kind \in {"result", "error", "failure"} : S!Indicate(c, kind)
  <2>1. PICK kind \in {"result", "error", "failure"} :
          /\ c \in sAsked /\ sOutcome[c] = <<>>
          /\ kind \in sAnswer[c] \cup {"failure"}
          /\ sOutcome' = [sOutcome EXCEPT ![c] = Outcome(c, kind)]
          /\ UNCHANGED <<sAsked, sRuns, sAnswer, sTold>>
    BY <1>3 DEF S!Indicate, Outcome
  <2>2. /\ Outcome(c, kind) \in Seq([kind : Kinds, op : Call])
        /\ Outcome(c, kind) = Outcome(c, "result") => kind = "result"
        /\ Outcome(c, "result") # <<>>
    BY DEF Outcome, Kinds
  <2>3. kind = "result" => sAnswer[c] = {"result"}
    BY <2>1 DEF STyped
  <2>4. STyped' /\ Kept
    BY <2>1, <2>2 DEF STyped, Kept
  <2>5. ASSUME NEW d \in Call
        PROVE  sOutcome'[d] = IF d = c THEN Outcome(c, kind) ELSE sOutcome[d]
    BY <2>1 DEF STyped
  <2>6. sTold[c] # <<"result">>
    BY <2>1, <2>2 DEF Served
  <2>7. Served'
    BY <2>1, <2>2, <2>3, <2>5, <2>6 DEF Served
  <2> QED
    BY <2>1, <2>4, <2>7
<1> QED
  BY <1>1, <1>2, <1>3

\* A step that tells the performing user's side.
LEMMA PerformerStep ==
    ASSUME STyped, Served, NEW c \in Call,
           \/ S!Perform(c) \/ S!PerformAndAnswer(c, "error")
           \/ S!Answer(c, "result") \/ S!Answer(c, "error")
           \/ \E kind \in {"result", "error", "failure"} : S!Tell(c, kind)
    PROVE  /\ STyped' /\ Served' /\ Kept
           /\ sAsked' = sAsked /\ sOutcome' = sOutcome
<1>1. CASE S!Perform(c)
  BY <1>1 DEF S!Perform, STyped, Served, Kept
<1>2. CASE S!PerformAndAnswer(c, "error")
  <2>1. /\ c \in sAsked /\ sRuns[c] = 0 /\ sAnswer[c] = {}
        /\ sRuns' = [sRuns EXCEPT ![c] = 1]
        /\ sAnswer' = [sAnswer EXCEPT ![c] = {"error"}]
        /\ UNCHANGED <<sAsked, sOutcome, sTold>>
    BY <1>2 DEF S!PerformAndAnswer, Served
  <2> QED
    BY <2>1 DEF STyped, Served, Kept
<1>3. CASE S!Answer(c, "result")
  BY <1>3 DEF S!Answer, STyped, Served, Kept
<1>4. CASE S!Answer(c, "error")
  BY <1>4 DEF S!Answer, STyped, Served, Kept
<1>5. CASE \E kind \in {"result", "error", "failure"} : S!Tell(c, kind)
  <2>1. PICK kind \in {"result", "error", "failure"} :
          /\ sRuns[c] = 1 /\ sTold[c] = <<>>
          /\ kind = "failure" \/ (kind \in sAnswer[c] /\ sOutcome[c] = Outcome(c, kind))
          /\ sTold' = [sTold EXCEPT ![c] = <<kind>>]
          /\ UNCHANGED <<sAsked, sRuns, sAnswer, sOutcome>>
    BY <1>5 DEF S!Tell, Outcome
  <2>2. /\ <<kind>> \in Seq({"result", "error", "failure"})
        /\ <<kind>> = <<"result">> => kind = "result"
    OBVIOUS
  <2> QED
    BY <2>1, <2>2 DEF STyped, Served, Kept
<1> QED
  BY <1>1, <1>2, <1>3, <1>4, <1>5

-----------------------------------------------------------------------------
(* The user agent's steps.                                                 *)

\* A sequence id once given is not given again but after a restart, and stays.
LEMMA AloneBefore ==
    ASSUME Typed, seqOf' \in [Msg -> Nat],
           \A m \in Msg : seqOf'[m] = seqOf[m] \/ seqOf[m] = 0,
           NEW m \in Msg, Alone(m)'
    PROVE  Alone(m)
BY DEF Alone, Typed

\* What the user agent does not touch.
UaFrame ==
    /\ UNCHANGED <<mtsVars, sRuns, sAnswer, sTold, vAsked, vOutcome>>
    /\ Kept
    /\ faults \in Nat /\ faults' \in Nat /\ faults' >= faults
    /\ \A m \in Msg : seqOf'[m] = seqOf[m] \/ ua[m].st = "new"

\* The user agent's steps and the operations of the MTS.
LEMMA UaFrameKeeps ==
    ASSUME SubmissionInv, Typed', Served', UaFrame
    PROVE  /\ Room' /\ ActiveOK' /\ Ops' /\ Order' /\ Accounted' /\ Passed'
           /\ SpooledHas'
           /\ \A m \in Msg : Alone(m)' => Alone(m)
<1> USE DEF mtsVars, UaFrame
<1>1. \A m \in Msg : seqOf'[m] = seqOf[m] \/ seqOf[m] = 0
  BY DEF SubmissionInv, Agent, Asked
<1>2. \A m \in Msg : Alone(m)' => Alone(m)
  <2>1. seqOf' \in [Msg -> Nat] /\ Typed
    BY DEF Typed, SubmissionInv
  <2> QED
    BY <1>1, <2>1, AloneBefore
<1>3. Room' /\ ActiveOK' /\ SpooledHas' /\ OneHolder' /\ Answers'
  BY DEF SubmissionInv, Room, Begun, ActiveOK, SpooledHas, Ops, OneHolder, Holds, Has,
         Answers
<1>4. ASSUME NEW o \in OpId PROVE OpOK(o)'
  <2>1. OpOK(o)
    BY DEF SubmissionInv, Ops
  <2>2. ASSUME NEW c \in Call, sRuns[c] = 1 PROVE seqOf'[c[1]] = seqOf[c[1]]
    <3>1. c[1] \in Msg /\ c \in sAsked /\ c[2] \in 0 .. Last(c[1]) /\ c = <<c[1], c[2]>>
      BY <2>2, CallParts DEF SubmissionInv, Served
    <3>2. ua[c[1]].st # "new"
      BY <3>1 DEF SubmissionInv, Agent, Asked
    <3> QED
      BY <3>1, <3>2
  <2>3. \A k \in DOMAIN op[o].segs : seqOf'[op[o].segs[k]] = seqOf[op[o].segs[k]]
    <3> SUFFICES ASSUME NEW k \in DOMAIN op[o].segs
                 PROVE  seqOf'[op[o].segs[k]] = seqOf[op[o].segs[k]]
      OBVIOUS
    <3>1. <<op[o].segs[k], k>> \in Call /\ sRuns[<<op[o].segs[k], k>>] = 1
      BY <2>1 DEF OpOK
    <3> QED
      BY <2>2, <3>1
  <2>4. op[o].call \in Call => seqOf'[op[o].call[1]] = seqOf[op[o].call[1]]
    BY <2>1, <2>2 DEF OpOK
  <2> QED
    BY <2>1, <2>3, <2>4 DEF OpOK
<1>5. Order'
  <2> SUFFICES ASSUME NEW m \in Msg, NEW o \in OpId, Alone(m)', Owns(o, m)'
               PROVE  Orderly(o, m)'
    BY DEF Order
  <2>1. Orderly(o, m)
    BY <1>2 DEF SubmissionInv, Order, Owns, Holds, Has
  <2> QED
    BY <2>1 DEF Orderly
<1>6. Accounted'
  BY <1>2 DEF SubmissionInv, Accounted, Has, Settling
<1>7. Passed'
  <2>1. \A c \in Call : sOutcome[c] = Outcome(c, "result") => sOutcome'[c] = sOutcome[c]
    BY DEF Kept, Outcome
  <2> QED
    BY <1>2, <2>1, CallIs DEF SubmissionInv, Passed, Has
<1> QED
  BY <1>2, <1>3, <1>4, <1>5, <1>6, <1>7 DEF Ops

\* What a message's UA operation knows does not change with the others'.
LEMMA AgentOther ==
    ASSUME NEW n \in Msg, Asked(n), Informed(n),
           ua'[n] = ua[n], user'[n] = user[n], seqOf'[n] = seqOf[n],
           \A k \in 0 .. Last(n) : <<n, k>> \in sAsked' <=> <<n, k>> \in sAsked,
           \A k \in 0 .. Last(n) : sOutcome'[<<n, k>>] = sOutcome[<<n, k>>]
    PROVE  Asked(n)' /\ Informed(n)'
<1>1. Asked(n)'
  BY DEF Asked
<1>2. Current(n) = <<n, ua[n].seg>> /\ Current(n)' = Current(n)
      /\ ua[n].seg \in 0 .. Last(n)
  BY DEF Asked, Current
<1>3. sOutcome'[Current(n)] = sOutcome[Current(n)]
  BY <1>2
<1> HIDE DEF Current
<1>4. Informed(n)'
  BY <1>2, <1>3 DEF Informed, Outcome
<1> QED
  BY <1>1, <1>4

\* A message that is done with stays so.
LEMMA DoneStays ==
    ASSUME Typed, Typed', Answers, Agent, Served, Served', Kept,
           \A m \in Msg : user[m] \subseteq user'[m],
           \A c \in Call : sAnswer[c] = {"result"} => resultId'[c] = resultId[c],
           NEW o, Done(o)
    PROVE  Done(o)'
<1>1. PICK m \in Msg : "success" \in user[m] /\ resultId[<<m, Last(m)>>] = o
  BY DEF Done
<1>2. sAnswer[<<m, Last(m)>>] = {"result"}
  <2>1. sOutcome[<<m, Last(m)>>] = Outcome(<<m, Last(m)>>, "result")
    <3>1. Informed(m)
      BY DEF Agent
    <3>2. ua[m].seg = Last(m) /\ sOutcome[Current(m)] = Outcome(Current(m), "result")
      BY <1>1, <3>1 DEF Informed
    <3> QED
      BY <3>2 DEF Current
  <2> QED
    BY <2>1, CallIs DEF Served
<1> QED
  BY <1>1, <1>2, CallIs DEF Done

\* A request for a segment, or one that is declined at once.
LEMMA IssueInvoke ==
    ASSUME Typed, Served, NEW m \in Msg, NEW k \in 0 .. Last(m),
           ua_issueInvoke(m, <<m, k>>)
    PROVE  /\ STyped' /\ Served' /\ Kept
           /\ <<m, k>> \notin sAsked /\ sAsked' = sAsked \cup {<<m, k>>}
           /\ sRuns' = sRuns /\ sAnswer' = sAnswer /\ sTold' = sTold
           /\ \A c \in Call \ {<<m, k>>} : sOutcome'[c] = sOutcome[c]
           /\ faults' \in 0 .. MaxFaults /\ faults' >= faults
           /\ \E ev \in {"none", "failure"} :
                 /\ ua' = [ua EXCEPT ![m] = [st |-> "wait", seg |-> k, ev |-> ev]]
                 /\ ev = "failure" => /\ sOutcome'[<<m, k>>] # Outcome(<<m, k>>, "result")
                                      /\ sOutcome'[<<m, k>>] # <<>>
<1>1. <<m, k>> \in Call
  BY CallIs
<1>2. STyped
  BY DEF STyped, Typed
<1>3. faults \in 0 .. MaxFaults /\ MaxFaults \in Nat
  BY SubmissionAssumption DEF Typed
<1>4. CASE S!Request(<<m, k>>) /\ NoFault
           /\ ua' = [ua EXCEPT ![m] = [st |-> "wait", seg |-> k, ev |-> "none"]]
  <2>1. STyped' /\ Served' /\ Kept
    BY <1>1, <1>2, <1>4, InvokerStep
  <2>2. /\ <<m, k>> \notin sAsked /\ sAsked' = sAsked \cup {<<m, k>>}
        /\ UNCHANGED <<sRuns, sAnswer, sTold, sOutcome>>
    BY <1>4 DEF S!Request
  <2>3. faults' \in 0 .. MaxFaults /\ faults' >= faults
    BY <1>3, <1>4 DEF NoFault
  <2>4. \E ev \in {"none", "failure"} :
           /\ ua' = [ua EXCEPT ![m] = [st |-> "wait", seg |-> k, ev |-> ev]]
           /\ ev = "failure" => /\ sOutcome'[<<m, k>>] # Outcome(<<m, k>>, "result")
                                /\ sOutcome'[<<m, k>>] # <<>>
    BY <1>4
  <2> QED
    BY <2>1, <2>2, <2>3, <2>4
<1>5. CASE Fault /\ S!Decline(<<m, k>>)
           /\ ua' = [ua EXCEPT ![m] = [st |-> "wait", seg |-> k, ev |-> "failure"]]
  <2>1. STyped' /\ Served' /\ Kept
    BY <1>1, <1>2, <1>5, InvokerStep
  <2>2. /\ <<m, k>> \notin sAsked /\ sAsked' = sAsked \cup {<<m, k>>}
        /\ UNCHANGED <<sRuns, sAnswer, sTold>>
        /\ sOutcome' = [sOutcome EXCEPT ![<<m, k>>] = Outcome(<<m, k>>, "refused")]
    BY <1>5 DEF S!Decline, Outcome
  <2>3. faults' \in 0 .. MaxFaults /\ faults' >= faults
    BY <1>3, <1>5 DEF Fault
  <2>4. /\ Outcome(<<m, k>>, "refused") # Outcome(<<m, k>>, "result")
        /\ Outcome(<<m, k>>, "refused") # <<>>
    BY DEF Outcome
  <2>5. /\ sOutcome'[<<m, k>>] # Outcome(<<m, k>>, "result")
        /\ sOutcome'[<<m, k>>] # <<>>
    BY <1>1, <1>2, <2>2, <2>4 DEF STyped
  <2>6. \A c \in Call \ {<<m, k>>} : sOutcome'[c] = sOutcome[c]
    BY <1>2, <2>2 DEF STyped
  <2> QED
    BY <1>5, <2>1, <2>2, <2>3, <2>5, <2>6
<1> QED
  BY <1>4, <1>5 DEF ua_issueInvoke

UaType == [Msg -> [st : {"new", "wait", "done", "gone"}, seg : Nat,
                   ev : {"none", "result", "error", "failure"}]]

LEMMA UaTyped ==
    ASSUME NEW u \in UaType, NEW m \in Msg
    PROVE  /\ \A ev \in {"none", "result", "error", "failure"} :
                 [u EXCEPT ![m].ev = ev] \in UaType
           /\ [u EXCEPT ![m] = [@ EXCEPT !.st = "done", !.ev = "none"]] \in UaType
BY DEF UaType

\* UA_submitMessage: a message is asked for, under a sequence id of its own.
LEMMA SubmitKeeps ==
    ASSUME SubmissionInv, NEW m \in Msg, UA_submitMessage(m)
    PROVE  SubmissionInv'
<1> USE DEF SubmissionInv
<1>1. /\ ua[m].st = "new"
      /\ seqNo' = IF Last(m) > 0 THEN seqNo + 1 ELSE seqNo
      /\ seqOf' = [seqOf EXCEPT ![m] = IF Last(m) > 0 THEN seqNo' ELSE 0]
      /\ ua_issueInvoke(m, <<m, 0>>)
      /\ UNCHANGED <<vVars, ring, asking, user, mtsVars, restarts>>
  BY DEF UA_submitMessage
<1>2. 0 \in 0 .. Last(m) /\ Last(m) \in Nat /\ <<m, 0>> \in Call
  <2>1. Last(m) \in Nat /\ <<m, 0>> \in Call
    BY CallIs
  <2> QED
    BY <2>1
<1>3. /\ STyped' /\ Served' /\ Kept
      /\ sAsked' = sAsked \cup {<<m, 0>>}
      /\ sRuns' = sRuns /\ sAnswer' = sAnswer /\ sTold' = sTold
      /\ \A c \in Call \ {<<m, 0>>} : sOutcome'[c] = sOutcome[c]
      /\ faults' \in 0 .. MaxFaults /\ faults' >= faults
  BY <1>1, <1>2, IssueInvoke
<1>4. PICK ev \in {"none", "failure"} :
          /\ ua' = [ua EXCEPT ![m] = [st |-> "wait", seg |-> 0, ev |-> ev]]
          /\ ev = "failure" => /\ sOutcome'[<<m, 0>>] # Outcome(<<m, 0>>, "result")
                               /\ sOutcome'[<<m, 0>>] # <<>>
  BY <1>1, <1>2, IssueInvoke
<1>5. seqOf' \in [Msg -> Nat] /\ seqNo' \in Nat
  BY <1>1, <1>2 DEF Typed
<1>6. ua' \in [Msg -> [st : {"new", "wait", "done", "gone"}, seg : Nat,
                       ev : {"none", "result", "error", "failure"}]]
  BY <1>4 DEF Typed
<1>7. Typed'
  BY <1>1, <1>3, <1>5, <1>6 DEF Typed, STyped, vVars, mtsVars
<1>8. UaFrame
  BY <1>1, <1>3, SubmissionAssumption DEF UaFrame, Typed, vVars
<1>9. /\ Room' /\ ActiveOK' /\ Ops' /\ Order' /\ Accounted' /\ Passed' /\ SpooledHas'
      /\ \A n \in Msg : Alone(n)' => Alone(n)
  BY <1>3, <1>7, <1>8, UaFrameKeeps
<1>10. Verified'
  BY <1>1, <1>3, SubmissionAssumption DEF Verified, vVars, mtsVars, Typed
<1>11. Agent'
  <2> SUFFICES ASSUME NEW n \in Msg PROVE Asked(n)' /\ Informed(n)'
    BY DEF Agent
  <2>1. CASE n # m
    <3>1. /\ ua'[n] = ua[n] /\ user'[n] = user[n] /\ seqOf'[n] = seqOf[n]
      BY <1>1, <1>4, <2>1 DEF Typed
    <3>2. \A k \in 0 .. Last(n) : <<n, k>> \in Call /\ <<n, k>> # <<m, 0>>
      BY <2>1, CallIs
    <3> QED
      BY <1>3, <3>1, <3>2, AgentOther DEF Agent
  <2>2. CASE n = m
    <3>1. ua'[m] = [st |-> "wait", seg |-> 0, ev |-> ev]
      BY <1>4 DEF Typed
    <3>2. seqOf'[m] = IF Last(m) > 0 THEN seqNo + 1 ELSE 0
      BY <1>1 DEF Typed
    <3>3. \A k \in 0 .. Last(m) : <<m, k>> \notin sAsked
      BY <1>1 DEF Agent, Asked
    <3>4. \A k \in 0 .. Last(m) : <<m, k>> \in sAsked' <=> k = 0
      BY <1>3, <3>3
    <3>5. user[m] = {} /\ user'[m] = {}
      <4>1. Informed(m)
        BY DEF Agent
      <4> QED
        BY <1>1, <4>1 DEF Informed, Current
    <3>6. Asked(m)'
      <4>1. ua'[m].seg = 0 /\ ua'[m].st = "wait"
        BY ONLY <3>1
      <4>2. Last(m) > 0 => seqOf'[m] > 0
        <5>1. seqNo \in Nat
          BY DEF Typed
        <5> QED
          BY ONLY <3>2, <5>1
      <4>3. Last(m) \in Nat
        BY <1>2
      <4>4. \A k \in 0 .. Last(m) : (k <= 0 <=> k = 0) /\ ~ (k < 0)
        BY ONLY <4>3
      <4> QED
        BY ONLY <3>4, <4>1, <4>2, <4>3, <4>4 DEF Asked
    <3>7. Current(m)' = <<m, 0>>
      BY <3>1 DEF Current
    <3> HIDE DEF Current
    <3>8. Informed(m)'
      BY <1>4, <3>1, <3>5, <3>7 DEF Informed
    <3> QED
      BY <2>2, <3>6, <3>8
  <2> QED
    BY <2>1, <2>2
<1>12. Fresh'
  <2> SUFFICES ASSUME restarts' = 0
               PROVE  \A n \in Msg : seqOf'[n] <= seqNo' /\ Alone(n)'
    BY DEF Fresh
  <2>1. \A n \in Msg : seqOf[n] <= seqNo /\ Alone(n) /\ seqOf[n] \in Nat
    BY <1>1 DEF Fresh, Typed
  <2>2. \A n \in Msg : seqOf'[n] = IF n = m THEN (IF Last(m) > 0 THEN seqNo + 1 ELSE 0)
                                   ELSE seqOf[n]
    BY <1>1 DEF Typed
  <2>3. \A n \in Msg : seqOf'[n] <= seqNo'
    BY <1>1, <2>1, <2>2 DEF Typed
  <2>4. ASSUME NEW n \in Msg, NEW x \in Msg \ {n}, seqOf'[x] = seqOf'[n]
        PROVE  seqOf'[n] = 0
    <3>1. CASE n # m /\ x # m
      BY <2>1, <2>2, <2>4, <3>1 DEF Alone
    <3>2. CASE n = m
      <4>1. x # m /\ seqOf'[x] = seqOf[x] /\ seqOf[x] <= seqNo /\ seqOf[x] \in Nat
        BY ONLY <2>1, <2>2, <2>4, <3>2
      <4>2. seqOf'[n] = IF Last(m) > 0 THEN seqNo + 1 ELSE 0
        BY ONLY <2>2, <2>4, <3>2
      <4>3. seqNo \in Nat
        BY DEF Typed
      <4>4. seqOf'[x] # seqNo + 1
        BY ONLY <4>1, <4>3
      <4> QED
        BY ONLY <2>4, <4>2, <4>4
    <3>3. CASE x = m
      <4>1. seqOf'[n] = seqOf[n] /\ seqOf[n] <= seqNo /\ seqOf[n] \in Nat
        BY ONLY <2>1, <2>2, <2>4, <3>3
      <4>2. seqOf'[x] = IF Last(m) > 0 THEN seqNo + 1 ELSE 0
        BY ONLY <2>2, <2>4, <3>3
      <4>3. seqNo \in Nat
        BY DEF Typed
      <4>4. seqOf'[n] # seqNo + 1
        BY ONLY <4>1, <4>3
      <4> QED
        BY ONLY <2>4, <4>2, <4>4
    <3> QED
      BY <3>1, <3>2, <3>3
  <2>5. \A n \in Msg : Alone(n)'
    BY <2>4 DEF Alone
  <2> QED
    BY <2>3, <2>5
<1>13. Truthful'
  <2>1. \A o \in OpId : Done(o) => Done(o)'
    BY <1>1 DEF Done, mtsVars
  <2> QED
    BY <1>1, <2>1 DEF Truthful, Typed, mtsVars, vVars
<1> QED
  BY <1>3, <1>7, <1>9, <1>10, <1>11, <1>12, <1>13

\* The number of failures.
LEMMA NoMoreFaults ==
    ASSUME Typed
    PROVE  /\ faults \in Nat /\ MaxFaults \in Nat
           /\ NoFault => faults' \in 0 .. MaxFaults /\ faults' >= faults
           /\ Fault => faults' \in 0 .. MaxFaults /\ faults' >= faults /\ faults' > 0
BY SubmissionAssumption DEF Typed, NoFault, Fault

\* An answer reaches the UA, or is lost on it.
LEMMA IndicationKeeps ==
    ASSUME SubmissionInv, NEW m \in Msg, ua_indication(m)
    PROVE  SubmissionInv'
<1> USE DEF SubmissionInv
<1> DEFINE c == <<m, ua[m].seg>>
<1>1. PICK kind \in {"result", "error", "failure"} :
          /\ ua[m].st = "wait" /\ ua[m].ev = "none"
          /\ S!Indicate(c, kind)
          /\ \/ ua' = [ua EXCEPT ![m].ev = kind] /\ NoFault
             \/ Fault /\ UNCHANGED ua
          /\ UNCHANGED <<vVars, seqNo, seqOf, ring, asking, user, mtsVars, restarts>>
  BY DEF ua_indication, Current
<1>2. ua[m].seg \in 0 .. Last(m) /\ c \in Call
  BY CallIs DEF Agent, Asked
<1>3. STyped
  BY DEF STyped, Typed
<1>4. /\ STyped' /\ Served' /\ Kept
      /\ sRuns' = sRuns /\ sAnswer' = sAnswer /\ sTold' = sTold
  BY <1>1, <1>2, <1>3, InvokerStep
<1>5. /\ sOutcome' = [sOutcome EXCEPT ![c] = Outcome(c, kind)] /\ sAsked' = sAsked
  BY <1>1 DEF S!Indicate, Outcome
<1>6. ua' \in [Msg -> [st : {"new", "wait", "done", "gone"}, seg : Nat,
                       ev : {"none", "result", "error", "failure"}]]
  <2>1. ua \in UaType
    BY DEF Typed, UaType
  <2>2. [ua EXCEPT ![m].ev = kind] \in UaType
    BY <2>1, UaTyped
  <2> QED
    BY <1>1, <2>1, <2>2 DEF UaType
<1>7. faults \in Nat /\ faults' \in 0 .. MaxFaults /\ faults' >= faults
  BY <1>1, NoMoreFaults
<1>8. Typed'
  BY <1>1, <1>4, <1>6, <1>7 DEF Typed, STyped, vVars, mtsVars
<1>9. UaFrame
  BY <1>1, <1>4, <1>7, SubmissionAssumption DEF UaFrame, Typed, vVars
<1>10. /\ Room' /\ ActiveOK' /\ Ops' /\ Order' /\ Accounted' /\ Passed' /\ SpooledHas'
      /\ \A n \in Msg : Alone(n)' => Alone(n)
  BY <1>4, <1>8, <1>9, UaFrameKeeps
<1>11. Verified'
  BY <1>1, <1>7 DEF Verified, vVars, mtsVars
<1>12. Agent'
  <2> SUFFICES ASSUME NEW n \in Msg PROVE Asked(n)' /\ Informed(n)'
    BY DEF Agent
  <2>1. CASE n # m
    <3>1. /\ ua'[n] = ua[n] /\ user'[n] = user[n] /\ seqOf'[n] = seqOf[n]
      BY <1>1, <2>1 DEF Typed
    <3>2. \A k \in 0 .. Last(n) : <<n, k>> \in Call /\ <<n, k>> # c
      BY <2>1, CallIs
    <3>3. \A k \in 0 .. Last(n) : sOutcome'[<<n, k>>] = sOutcome[<<n, k>>]
      BY <1>5, <3>2 DEF Typed
    <3> QED
      BY <1>5, <3>1, <3>3, AgentOther DEF Agent
  <2>2. CASE n = m
    <3>1. /\ ua'[m].st = "wait" /\ ua[m].st = "wait" /\ ua'[m].seg = ua[m].seg
          /\ ua'[m].ev \in {"none", kind}
      BY <1>1 DEF Typed
    <3>2. sOutcome'[c] = Outcome(c, kind)
      BY <1>2, <1>5 DEF Typed
    <3>3. \A k \in 0 .. Last(m) : k < ua[m].seg =>
              sOutcome'[<<m, k>>] = sOutcome[<<m, k>>]
      BY <1>2, <1>5, CallIs DEF Typed
    <3>4. Asked(m)'
      BY <1>1, <1>5, <3>1, <3>3 DEF Agent, Asked
    <3>5. user[m] = {} /\ user'[m] = {}
      <4>1. Informed(m)
        BY DEF Agent
      <4> QED
        BY <1>1, <4>1 DEF Informed, Current
    <3>6. Current(m)' = c
      BY <3>1 DEF Current
    <3>7. Outcome(c, kind) = Outcome(c, "result") <=> kind = "result"
      BY DEF Outcome
    <3>8. Outcome(c, kind) # <<>>
      BY DEF Outcome
    <3> HIDE DEF Current, c
    <3>9. Informed(m)'
      BY <1>1, <3>1, <3>2, <3>5, <3>6, <3>7, <3>8 DEF Informed
    <3> QED
      BY <2>2, <3>4, <3>9
  <2> QED
    BY <2>1, <2>2
<1>13. Fresh'
  BY <1>1 DEF Fresh, Alone
<1>14. Truthful'
  <2>1. \A o \in OpId : Done(o) => Done(o)'
    BY <1>1 DEF Done, mtsVars
  <2> QED
    BY <1>1, <2>1 DEF Truthful, Typed, mtsVars, vVars
<1> QED
  BY <1>4, <1>8, <1>10, <1>11, <1>12, <1>13, <1>14

RingType == [next : [Node -> Node], prev : [Node -> Node], id : [Node -> {0} \cup OpId]]

\* To remember an id is to write it into one element, and to link elements.
LEMMA RememberTyped ==
    ASSUME NEW q \in RingType, NEW id \in {0} \cup OpId
    PROVE  /\ Remember(q, id) \in RingType
           /\ \A x \in Node : Remember(q, id).id[x] \in {id, q.id[x]}
<1>1. Active \in Node /\ Inactive \in Node
  BY SubmissionAssumption DEF Active, Inactive, Node
<1>2. ASSUME NEW r \in RingType, NEW n \in Node
      PROVE  NVM_quInsert(r, n, Active) \in RingType /\ NVM_quInsert(r, n, Active).id = r.id
  <2>1. r.prev[Active] \in Node /\ r.prev[n] \in Node
    BY <1>1 DEF RingType
  <2>2. [r.next EXCEPT ![r.prev[Active]] = n, ![r.prev[n]] = Active] \in [Node -> Node]
    BY <1>1 DEF RingType
  <2>3. [r.prev EXCEPT ![n] = r.prev[Active], ![Active] = r.prev[n]] \in [Node -> Node]
    BY <1>1, <2>1 DEF RingType
  <2> QED
    BY <2>2, <2>3 DEF NVM_quInsert, RingType
<1>3. ASSUME NEW r \in RingType, NEW n \in Node
      PROVE  NVM_quRemove(r, n) \in RingType /\ NVM_quRemove(r, n).id = r.id
  <2>1. r.prev[n] \in Node /\ r.next[n] \in Node
    BY DEF RingType
  <2>2. [r.prev EXCEPT ![r.next[n]] = r.prev[n], ![n] = n] \in [Node -> Node]
    BY <2>1 DEF RingType
  <2>3. [r.next EXCEPT ![r.prev[n]] = r.next[n], ![n] = n] \in [Node -> Node]
    BY <2>1 DEF RingType
  <2> QED
    BY <2>2, <2>3 DEF NVM_quRemove, RingType
<1>4. PICK n \in Node, r \in RingType :
          /\ r.id = q.id
          /\ Remember(q, id) = NVM_quInsert([r EXCEPT !.id[n] = id], n, Active)
  <2>1. q.next[Inactive] \in Node /\ q.next[Active] \in Node
    BY <1>1 DEF RingType
  <2> HIDE DEF Active, Inactive
  <2>2. CASE q.next[Inactive] # Inactive
    BY <2>1, <2>2 DEF Remember
  <2>3. CASE q.next[Inactive] = Inactive
    BY <2>1, <2>3, <1>3 DEF Remember
  <2> QED
    BY <2>2, <2>3
<1> DEFINE w == [r EXCEPT !.id[n] = id]
<1>5. w \in RingType /\ \A x \in Node : w.id[x] \in {id, q.id[x]}
  BY <1>4 DEF RingType
<1> HIDE DEF w
<1>6. Remember(q, id) = NVM_quInsert(w, n, Active)
  BY <1>4 DEF w
<1> QED
  BY <1>2, <1>5, <1>6

\* A submission ends: what the user is told of a message.
LEMMA FinishAgent ==
    ASSUME SubmissionInv, NEW m \in Msg, NEW what \in {"success", "fail"},
           Finish(m, what), ua[m].ev # "none",
           what = "success" => ua[m].ev = "result" /\ ua[m].seg = Last(m),
           what = "fail" => ua[m].ev \in {"error", "failure"},
           UNCHANGED <<sVars, seqOf>>
    PROVE  /\ Agent'
           /\ ua' \in UaType
           /\ user' \in [Msg -> SUBSET {"success", "fail"}]
           /\ \A n \in Msg : user[n] \subseteq user'[n] /\ what \in user'[m]
           /\ \A n \in Msg : ua[n].st = "new" => ua'[n].st = "new"
<1> USE DEF SubmissionInv
<1>1. /\ user' = [user EXCEPT ![m] = @ \cup {what}]
      /\ ua' = [ua EXCEPT ![m] = [@ EXCEPT !.st = "done", !.ev = "none"]]
  BY DEF Finish
<1>2. ua \in UaType /\ ua' \in UaType
  <2>1. ua \in UaType
    BY DEF Typed, UaType
  <2> QED
    BY <1>1, <2>1, UaTyped
<1>3. user' \in [Msg -> SUBSET {"success", "fail"}]
  BY <1>1 DEF Typed
<1>4. /\ ua'[m].st = "done" /\ ua'[m].ev = "none" /\ ua'[m].seg = ua[m].seg
      /\ user'[m] = user[m] \cup {what}
  BY <1>1, <1>2 DEF Typed, UaType
<1>5. \A n \in Msg \ {m} : ua'[n] = ua[n] /\ user'[n] = user[n]
  BY <1>1 DEF Typed
<1>6. Informed(m) /\ Asked(m)
  BY DEF Agent
<1>7. ua[m].st = "wait" /\ user[m] = {}
  BY <1>6 DEF Informed
<1>8. Agent'
  <2> SUFFICES ASSUME NEW n \in Msg PROVE Asked(n)' /\ Informed(n)'
    BY DEF Agent
  <2>1. CASE n # m
    <3>1. seqOf'[n] = seqOf[n] /\ sAsked' = sAsked /\ sOutcome' = sOutcome
      BY DEF sVars
    <3> QED
      BY <1>5, <2>1, <3>1, AgentOther DEF Agent
  <2>2. CASE n = m
    <3>1. Asked(m)'
      BY <1>4, <1>6, <1>7 DEF Asked, sVars
    <3>2. Current(m)' = Current(m)
      BY <1>4 DEF Current
    <3>3. sOutcome' = sOutcome
      BY DEF sVars
    <3> HIDE DEF Current
    <3>4. Informed(m)'
      BY <1>4, <1>6, <1>7, <3>2, <3>3 DEF Informed, Outcome
    <3> QED
      BY <2>2, <3>1, <3>4
  <2> QED
    BY <2>1, <2>2
<1>9. \A n \in Msg : ua[n].st = "new" => ua'[n].st = "new"
  BY <1>5, <1>7
<1>10. \A n \in Msg : user[n] \subseteq user'[n] /\ what \in user'[m]
  BY <1>4, <1>5
<1> QED
  BY <1>2, <1>3, <1>8, <1>9, <1>10

\* A submission succeeds.
LEMMA SuccessKeeps ==
    ASSUME SubmissionInv, NEW m \in Msg, SubmitSuccess(m)
    PROVE  SubmissionInv'
<1> USE DEF SubmissionInv
<1>1. /\ ua[m].ev = "result" /\ ua[m].seg = Last(m)
      /\ ring' = Remember(ring, resultId[<<m, Last(m)>>])
      /\ Finish(m, "success")
      /\ UNCHANGED <<sVars, vVars, seqNo, seqOf, asking, mtsVars, restarts, faults>>
  BY DEF SubmitSuccess, Current
<1>2. /\ Agent' /\ ua' \in UaType
      /\ user' \in [Msg -> SUBSET {"success", "fail"}]
      /\ \A n \in Msg : user[n] \subseteq user'[n] /\ "success" \in user'[m]
  BY <1>1, FinishAgent
<1>3. /\ ring \in RingType /\ resultId[<<m, Last(m)>>] \in {0} \cup OpId
  BY CallIs DEF Typed, RingType
<1>4. /\ ring' \in RingType
      /\ \A x \in Node : ring'.id[x] \in {resultId[<<m, Last(m)>>], ring.id[x]}
  BY <1>1, <1>3, RememberTyped
<1>5. Typed'
  BY <1>1, <1>2, <1>4 DEF Typed, UaType, RingType, sVars, vVars, mtsVars
<1>6. Served' /\ Kept
  BY <1>1 DEF Served, Kept, sVars
<1>7. UaFrame
  BY <1>1, <1>6, SubmissionAssumption DEF UaFrame, Typed, sVars, vVars
<1>8. /\ Room' /\ ActiveOK' /\ Ops' /\ Order' /\ Accounted' /\ Passed' /\ SpooledHas'
  BY <1>5, <1>6, <1>7, UaFrameKeeps
<1>9. Verified'
  BY <1>1 DEF Verified, vVars, mtsVars
<1>10. Fresh'
  BY <1>1 DEF Fresh, Alone
<1>11. Truthful'
  <2>1. \A o : Done(o) => Done(o)'
    BY <1>1, <1>2 DEF Done, mtsVars
  <2>2. resultId[<<m, Last(m)>>] # 0 => Done(resultId[<<m, Last(m)>>])'
    BY <1>1, <1>2 DEF Done, mtsVars
  <2>3. \A n \in Node : ring'.id[n] # 0 => Done(ring.id[n])'
    <3> SUFFICES ASSUME NEW n \in Node, ring'.id[n] # 0 PROVE Done(ring.id[n])'
      OBVIOUS
    <3>1. CASE ring'.id[n] = resultId[<<m, Last(m)>>]
      <4>1. Done(resultId[<<m, Last(m)>>])'
        BY <2>2, <3>1
      <4>2. ring'.id[n] = resultId'[<<m, Last(m)>>]
        BY <3>1, <1>1 DEF mtsVars
      <4> QED
        BY <1>2, <4>2 DEF Done
    <3>2. CASE ring'.id[n] = ring.id[n]
      <4>1. Done(ring.id[n])
        BY <3>2 DEF Truthful
      <4>2. PICK x \in Msg : "success" \in user[x] /\ resultId[<<x, Last(x)>>] = ring.id[n]
        BY <4>1 DEF Done
      <4> QED
        BY <1>1, <1>2, <3>2, <4>2 DEF Done, mtsVars
    <3> QED
      BY <3>1, <3>2, <1>4
  <2> QED
    BY <1>1, <2>1, <2>3 DEF Truthful, mtsVars, vVars
<1> QED
  BY <1>2, <1>5, <1>6, <1>8, <1>9, <1>10, <1>11

\* A submission fails.
LEMMA FailKeeps ==
    ASSUME SubmissionInv, NEW m \in Msg, SubmitFail(m)
    PROVE  SubmissionInv'
<1> USE DEF SubmissionInv
<1>1. /\ ua[m].ev \in {"error", "failure"}
      /\ Finish(m, "fail")
      /\ UNCHANGED <<sVars, vVars, seqNo, seqOf, ring, asking, mtsVars, restarts, faults>>
  BY DEF SubmitFail
<1>2. /\ Agent' /\ ua' \in UaType
      /\ user' \in [Msg -> SUBSET {"success", "fail"}]
      /\ \A n \in Msg : user[n] \subseteq user'[n]
  BY <1>1, FinishAgent
<1>5. Typed'
  BY <1>1, <1>2 DEF Typed, UaType, sVars, vVars, mtsVars
<1>6. Served' /\ Kept
  BY <1>1 DEF Served, Kept, sVars
<1>7. UaFrame
  BY <1>1, <1>6, SubmissionAssumption DEF UaFrame, Typed, sVars, vVars
<1>8. /\ Room' /\ ActiveOK' /\ Ops' /\ Order' /\ Accounted' /\ Passed' /\ SpooledHas'
  BY <1>5, <1>6, <1>7, UaFrameKeeps
<1>9. Verified'
  BY <1>1 DEF Verified, vVars, mtsVars
<1>10. Fresh'
  BY <1>1 DEF Fresh, Alone
<1>11. Truthful'
  <2>1. \A o \in OpId : Done(o) => Done(o)'
    BY <1>1, <1>2 DEF Done, mtsVars
  <2> QED
    BY <1>1, <2>1 DEF Truthful, Typed, mtsVars, vVars
<1> QED
  BY <1>2, <1>5, <1>6, <1>8, <1>9, <1>10, <1>11

\* The next segment is asked for.
LEMMA NextSegmentKeeps ==
    ASSUME SubmissionInv, NEW m \in Msg, NextSegment(m)
    PROVE  SubmissionInv'
<1> USE DEF SubmissionInv
<1> DEFINE k == ua[m].seg + 1
           c == <<m, k>>
<1>1. /\ ua[m].ev = "result" /\ ua[m].seg < Last(m)
      /\ ua_issueInvoke(m, c)
      /\ UNCHANGED <<vVars, seqNo, seqOf, ring, asking, user, mtsVars, restarts>>
  BY DEF NextSegment
<1>2. Asked(m) /\ Informed(m) /\ Last(m) \in Nat
  BY CallIs DEF Agent
<1>3. k \in 0 .. Last(m) /\ ua[m].seg \in 0 .. Last(m) /\ k > 0
  BY <1>1, <1>2 DEF Asked
<1>4. c \in Call
  BY <1>3, CallIs
<1> HIDE DEF c
<1>5. ua_issueInvoke(m, <<m, k>>) /\ c = <<m, k>>
  BY <1>1 DEF c
<1>6. /\ STyped' /\ Served' /\ Kept
      /\ sAsked' = sAsked \cup {c}
      /\ sRuns' = sRuns /\ sAnswer' = sAnswer /\ sTold' = sTold
      /\ \A d \in Call \ {c} : sOutcome'[d] = sOutcome[d]
      /\ faults' \in 0 .. MaxFaults /\ faults' >= faults
  BY <1>3, <1>5, IssueInvoke
<1>7. PICK ev \in {"none", "failure"} :
          /\ ua' = [ua EXCEPT ![m] = [st |-> "wait", seg |-> k, ev |-> ev]]
          /\ ev = "failure" => /\ sOutcome'[c] # Outcome(c, "result")
                               /\ sOutcome'[c] # <<>>
  BY <1>3, <1>5, IssueInvoke
<1> HIDE DEF k
<1>8. ua' \in UaType
  BY <1>3, <1>7, <1>2 DEF Typed, UaType
<1>9. Typed'
  BY <1>1, <1>6, <1>8 DEF Typed, STyped, UaType, vVars, mtsVars
<1>10. UaFrame
  BY <1>1, <1>6, SubmissionAssumption DEF UaFrame, Typed, vVars
<1>11. /\ Room' /\ ActiveOK' /\ Ops' /\ Order' /\ Accounted' /\ Passed' /\ SpooledHas'
  BY <1>6, <1>9, <1>10, UaFrameKeeps
<1>12. Verified'
  BY <1>1, <1>6, SubmissionAssumption DEF Verified, vVars, mtsVars, Typed
<1>13. Agent'
  <2> SUFFICES ASSUME NEW n \in Msg PROVE Asked(n)' /\ Informed(n)'
    BY DEF Agent
  <2>1. CASE n # m
    <3>1. /\ ua'[n] = ua[n] /\ user'[n] = user[n] /\ seqOf'[n] = seqOf[n]
      BY <1>1, <1>7, <2>1 DEF Typed
    <3>2. \A j \in 0 .. Last(n) : <<n, j>> \in Call /\ <<n, j>> # c
      BY <2>1, <1>5, CallIs
    <3> QED
      BY <1>6, <3>1, <3>2, AgentOther DEF Agent
  <2>2. CASE n = m
    <3>1. ua'[m] = [st |-> "wait", seg |-> k, ev |-> ev]
      BY <1>7 DEF Typed
    <3>2. ua[m].st = "wait" /\ user[m] = {} /\ user'[m] = {} /\ seqOf'[m] = seqOf[m]
      BY <1>1, <1>2 DEF Informed
    <3>3. sOutcome[<<m, ua[m].seg>>] = Outcome(<<m, ua[m].seg>>, "result")
      BY <1>1, <1>2 DEF Informed, Current
    <3>4. \A j \in 0 .. Last(m) : <<m, j>> \in sAsked' <=> j <= k
      <4>1. \A j \in 0 .. Last(m) : <<m, j>> \in sAsked <=> j <= ua[m].seg
        BY <1>2, <3>2 DEF Asked
      <4>2. \A j \in 0 .. Last(m) : <<m, j>> = c <=> j = k
        BY <1>5
      <4> QED
        BY <1>3, <1>6, <4>1, <4>2 DEF k
    <3>5. \A j \in 0 .. Last(m) :
              j < k => sOutcome'[<<m, j>>] = Outcome(<<m, j>>, "result")
      <4> SUFFICES ASSUME NEW j \in 0 .. Last(m), j < k
                   PROVE  sOutcome'[<<m, j>>] = Outcome(<<m, j>>, "result")
        OBVIOUS
      <4>1. j < ua[m].seg \/ j = ua[m].seg
        BY <1>3 DEF k
      <4>2. sOutcome[<<m, j>>] = Outcome(<<m, j>>, "result")
        BY <1>2, <3>3, <4>1 DEF Asked
      <4>3. <<m, j>> # c /\ <<m, j>> \in Call
        <5>1. j # k
          BY <1>3
        <5> QED
          BY <1>5, <5>1, CallIs
      <4> QED
        BY <1>6, <4>2, <4>3
    <3>6. Asked(m)'
      BY <1>2, <1>3, <3>1, <3>2, <3>4, <3>5 DEF Asked
    <3>7. Current(m)' = c
      BY <3>1, <1>5 DEF Current
    <3> HIDE DEF Current
    <3>8. Informed(m)'
      BY <1>7, <3>1, <3>2, <3>7 DEF Informed
    <3> QED
      BY <2>2, <3>6, <3>8
  <2> QED
    BY <2>1, <2>2
<1>14. Fresh'
  BY <1>1 DEF Fresh, Alone
<1>15. Truthful'
  <2>1. \A o \in OpId : Done(o) => Done(o)'
    BY <1>1 DEF Done, mtsVars
  <2> QED
    BY <1>1, <2>1 DEF Truthful, Typed, mtsVars, vVars
<1> QED
  BY <1>6, <1>9, <1>11, <1>12, <1>13, <1>14, <1>15

\* The UA is started again.
LEMMA RestartKeeps ==
    ASSUME SubmissionInv, UaRestart
    PROVE  SubmissionInv'
<1> USE DEF SubmissionInv
<1>1. /\ restarts < MaxRestarts /\ restarts' = restarts + 1
      /\ ua' = [m \in Msg |-> IF ua[m].st = "wait"
                                THEN [ua[m] EXCEPT !.st = "gone", !.ev = "none"]
                                ELSE ua[m]]
      /\ seqNo' = 0 /\ asking' = {}
      /\ UNCHANGED <<sVars, vVars, seqOf, ring, user, mtsVars, faults>>
  BY DEF UaRestart
<1>2. ua \in UaType
  BY DEF Typed, UaType
<1>3. \A m \in Msg : /\ ua'[m].seg = ua[m].seg
                     /\ ua[m].st = "wait" => ua'[m].st = "gone" /\ ua'[m].ev = "none"
                     /\ ua[m].st # "wait" => ua'[m] = ua[m]
  BY <1>1, <1>2 DEF UaType
<1>4. ua' \in UaType
  BY <1>1, <1>2 DEF UaType
<1>5. restarts' \in 1 .. MaxRestarts /\ restarts' \in 0 .. MaxRestarts
  <2>1. restarts \in 0 .. MaxRestarts
    BY DEF Typed
  <2>2. restarts < MaxRestarts /\ restarts' = restarts + 1 /\ MaxRestarts \in Nat
    BY <1>1, SubmissionAssumption
  <2> QED
    BY <2>1, <2>2
<1>6. Typed'
  <2>1. /\ seqNo' = 0 /\ asking' = {}
        /\ UNCHANGED <<sVars, vVars, seqOf, ring, user, mtsVars, faults>>
    BY <1>1
  <2> QED
    BY <2>1, <1>4, <1>5 DEF Typed, UaType, sVars, vVars, mtsVars
<1>7. Served' /\ Kept
  BY <1>1 DEF Served, Kept, sVars
<1>8. UaFrame
  <2>1. UNCHANGED <<sVars, vVars, seqOf, mtsVars, faults>>
    BY <1>1
  <2>2. faults \in Nat
    BY SubmissionAssumption DEF Typed
  <2> QED
    BY <2>1, <2>2, <1>7 DEF UaFrame, sVars, vVars
<1>9. /\ Room' /\ ActiveOK' /\ Ops' /\ Order' /\ Accounted' /\ Passed' /\ SpooledHas'
  BY <1>6, <1>7, <1>8, UaFrameKeeps
<1>10. Verified'
  BY <1>1 DEF Verified, vVars, mtsVars
<1>11. Fresh'
  BY <1>5 DEF Fresh
<1>12. Truthful'
  <2>1. \A o \in OpId : Done(o) => Done(o)'
    BY <1>1 DEF Done, mtsVars
  <2> QED
    BY <1>1, <2>1 DEF Truthful, Typed, mtsVars, vVars
<1>13. Agent'
  <2> SUFFICES ASSUME NEW m \in Msg PROVE Asked(m)' /\ Informed(m)'
    BY DEF Agent
  <2>1. Asked(m) /\ Informed(m)
    BY DEF Agent
  <2>2. Asked(m)'
    BY <1>1, <1>3, <2>1 DEF Asked, sVars
  <2>3. Current(m)' = Current(m) /\ sOutcome' = sOutcome /\ user' = user
    BY <1>1, <1>3 DEF Current, sVars
  <2> HIDE DEF Current
  <2>4. Informed(m)'
    BY <1>3, <2>1, <2>3 DEF Informed, Outcome
  <2> QED
    BY <2>2, <2>4
<1> QED
  BY <1>6, <1>7, <1>9, <1>10, <1>11, <1>12, <1>13

\* The question of the MTS: it is asked, found, refused or answered.
LEMMA QuestionKeeps ==
    ASSUME SubmissionInv, NEW o \in OpId,
           ua_invokeIndication(o) \/ ua_invokeRefused(o) \/ aS1S5a(o)
    PROVE  SubmissionInv'
<1> USE DEF SubmissionInv
<1>1. UNCHANGED <<sVars, ua, seqNo, seqOf, ring, user, mtsVars, restarts>>
  BY DEF ua_invokeIndication, ua_invokeRefused, aS1S5a, uaVars
<1>2. /\ UNCHANGED <<vAsked, vOutcome, vTold>>
      /\ vRuns' \in [OpId -> {0, 1}]
      /\ faults' \in 0 .. MaxFaults /\ faults' >= faults
      /\ asking' \subseteq vAsked
      /\ \/ vAnswer' = vAnswer
         \/ \E kind \in {"send", "drop", "garbled", "error"} :
               /\ vAnswer' = [vAnswer EXCEPT ![o] = {kind}]
               /\ kind = "error" => faults' > 0
               /\ kind = "send" => Remembered(ring, o)
  <2>0. faults \in 0 .. MaxFaults /\ MaxFaults \in Nat
    BY SubmissionAssumption DEF Typed
  <2>1. CASE ua_invokeIndication(o)
    BY <2>0, <2>1 DEF ua_invokeIndication, V!Perform, Typed
  <2>2. CASE ua_invokeRefused(o)
    BY <2>0, <2>2 DEF ua_invokeRefused, V!PerformAndAnswer, Typed, Fault, uaVars
  <2>3. CASE aS1S5a(o)
    <3>1. /\ asking' = asking \ {o} /\ faults' = faults
          /\ \/ V!Answer(o, IF Remembered(ring, o) THEN "send" ELSE "drop")
             \/ V!Answer(o, "garbled")
             \/ UNCHANGED vVars
      BY <2>3 DEF aS1S5a
    <3> QED
      BY <2>0, <3>1 DEF V!Answer, Typed, vVars
  <2> QED
    BY <2>1, <2>2, <2>3
<1>12. vAnswer \in [OpId -> SUBSET {"send", "drop", "garbled", "error"}]
  BY DEF Typed
<1>3. vAnswer' \in [OpId -> SUBSET {"send", "drop", "garbled", "error"}]
  <2>1. \A kind \in {"send", "drop", "garbled", "error"} :
            [vAnswer EXCEPT ![o] = {kind}]
              \in [OpId -> SUBSET {"send", "drop", "garbled", "error"}]
    BY <1>12
  <2> QED
    BY <1>2, <1>12, <2>1
<1>13. ASSUME NEW p \in OpId
      PROVE  /\ "error" \in vAnswer'[p] => "error" \in vAnswer[p] \/ faults' > 0
             /\ "send" \in vAnswer'[p] =>
                    "send" \in vAnswer[p] \/ (p = o /\ Remembered(ring, o))
  <2>1. CASE vAnswer' = vAnswer
    BY <2>1
  <2>2. ASSUME NEW kind \in {"send", "drop", "garbled", "error"},
               vAnswer' = [vAnswer EXCEPT ![o] = {kind}],
               kind = "error" => faults' > 0,
               kind = "send" => Remembered(ring, o)
        PROVE  /\ "error" \in vAnswer'[p] => "error" \in vAnswer[p] \/ faults' > 0
               /\ "send" \in vAnswer'[p] =>
                      "send" \in vAnswer[p] \/ (p = o /\ Remembered(ring, o))
    <3>1. vAnswer'[p] = IF p = o THEN {kind} ELSE vAnswer[p]
      BY <1>12, <2>2
    <3> QED
      BY <2>2, <3>1
  <2> QED
    BY <1>2, <2>1, <2>2
<1>4. Typed'
  BY <1>1, <1>2, <1>3 DEF Typed, sVars, mtsVars
<1>5. Served' /\ Kept
  BY <1>1 DEF Served, Kept, sVars
<1>6. UaFrame
  BY <1>1, <1>2, <1>5, SubmissionAssumption DEF UaFrame, Typed, sVars
<1>7. /\ Room' /\ ActiveOK' /\ Ops' /\ Order' /\ Accounted' /\ Passed' /\ SpooledHas'
  BY <1>4, <1>5, <1>6, UaFrameKeeps
<1>8. Verified'
  <2> SUFFICES ASSUME NEW p \in OpId
               PROVE  /\ vOutcome'[p] # <<>> => p \in vAsked'
                      /\ p \in vAsked' => op'[p].st \notin {"none", "s1", "s2"}
                      /\ "error" \in vAnswer'[p] => faults' > 0
    BY DEF Verified
  <2>1. /\ vOutcome'[p] # <<>> => p \in vAsked'
        /\ p \in vAsked' => op'[p].st \notin {"none", "s1", "s2"}
    BY <1>1, <1>2 DEF Verified, mtsVars
  <2>2. "error" \in vAnswer[p] => faults' > 0
    BY <1>2, SubmissionAssumption DEF Verified, Typed
  <2>3. "error" \in vAnswer'[p] => faults' > 0
    BY <1>13, <2>2
  <2> QED
    BY <2>1, <2>3
<1>9. Agent'
  <2> SUFFICES ASSUME NEW m \in Msg PROVE Asked(m)' /\ Informed(m)'
    BY DEF Agent
  <2> QED
    BY <1>1, AgentOther DEF Agent, sVars
<1>10. Fresh'
  BY <1>1 DEF Fresh, Alone
<1>11. Truthful'
  <2>1. \A p : Done(p) <=> Done(p)'
    BY <1>1 DEF Done, mtsVars
  <2>2. Remembered(ring, o) => Done(o)
    <3>1. o # 0
      BY DEF OpId
    <3> QED
      BY <3>1 DEF Remembered, Truthful, walk
  <2>3. \A p \in OpId : "send" \in vAnswer'[p] => Done(p)
    BY <1>13, <2>2 DEF Truthful
  <2>4. ring' = ring /\ op' = op
    BY <1>1 DEF mtsVars
  <2>5. \A n \in Node : ring'.id[n] # 0 => Done(ring.id[n])
    BY <2>4 DEF Truthful
  <2>6. \A n \in Node : ring'.id[n] # 0 => Done(ring.id[n])'
    BY <1>1, <2>5 DEF Done, mtsVars
  <2> QED
    BY <2>1, <2>3, <2>4, <2>6 DEF Truthful
<1> QED
  BY <1>4, <1>5, <1>7, <1>8, <1>9, <1>10, <1>11

-----------------------------------------------------------------------------
(* Steps of the MTS.                                                       *)

MtsFrame ==
    /\ UNCHANGED <<ua, seqNo, seqOf, ring, asking, user, restarts, sAsked, sOutcome>>
    /\ Kept

LEMMA MtsFrameKeeps ==
    ASSUME SubmissionInv, MtsFrame
    PROVE  /\ Agent' /\ Fresh' /\ \A m \in Msg : Alone(m)' <=> Alone(m)
<1> USE DEF SubmissionInv, MtsFrame
<1>1. Agent'
  <2> SUFFICES ASSUME NEW n \in Msg PROVE Asked(n)' /\ Informed(n)'
    BY DEF Agent
  <2> QED
    BY AgentOther DEF Agent
<1>2. \A m \in Msg : Alone(m)' <=> Alone(m)
  BY DEF Alone
<1>3. Fresh'
  BY <1>2 DEF Fresh
<1> QED
  BY <1>1, <1>2, <1>3

\* What the UA was told is submitted stays so; the MTS learns no more from it
\* than it has said.
LEMMA TruthfulKeeps ==
    ASSUME SubmissionInv, Typed', Served', MtsFrame, vAnswer' = vAnswer,
           \A c \in Call : sAnswer[c] = {"result"} => resultId'[c] = resultId[c],
           \A o \in OpId : op'[o].verdict = "send" =>
               op[o].verdict = "send" \/ "send" \in vAnswer[o]
    PROVE  Truthful'
<1> USE DEF SubmissionInv
<1>1. ASSUME NEW o, Done(o) PROVE Done(o)'
  BY <1>1, DoneStays DEF MtsFrame, Ops
<1>2. ring' = ring
  BY DEF MtsFrame
<1>3. \A n \in Node : ring'.id[n] # 0 => Done(ring.id[n])
  BY <1>2 DEF Truthful
<1>4. ASSUME NEW n \in Node, ring'.id[n] # 0 PROVE Done(ring.id[n])'
  <2>1. PICK m \in Msg : "success" \in user[m] /\ resultId[<<m, Last(m)>>] = ring.id[n]
    BY <1>3, <1>4 DEF Done
  <2>2. Done(resultId[<<m, Last(m)>>])
    BY <2>1 DEF Done
  <2>3. PICK x : x = resultId[<<m, Last(m)>>]
    OBVIOUS
  <2>4. Done(x)'
    BY <1>1, <2>2, <2>3
  <2> QED
    BY <1>2, <2>1, <2>3, <2>4 DEF Done
<1>5. \A o \in OpId : "send" \in vAnswer[o] => Done(o)
  BY DEF Truthful
<1>6. \A o \in OpId : op[o].verdict = "send" => Done(o)
  BY DEF Truthful
<1> QED
  BY <1>1, <1>4, <1>5, <1>6 DEF Truthful

\* More calls are performed, and no operation begins.
LEMMA RoomKeeps ==
    ASSUME SubmissionInv, Kept, \A o \in OpId : op'[o].st = "none" <=> op[o].st = "none"
    PROVE  Room'
<1> DEFINE D == {c \in Call : sRuns[c] = 1}
           D2 == {c \in Call : sRuns'[c] = 1}
<1>1. Begun' = Begun
  BY DEF Begun
<1>2. IsFiniteSet(D2) /\ IsFiniteSet(D)
  BY CallsFinite, FS_Subset
<1>3. D \subseteq D2
  BY DEF Kept
<1>4. Cardinality(D) <= Cardinality(D2)
  BY <1>2, <1>3, FS_Subset
<1>5. Cardinality(D) \in Nat /\ Cardinality(D2) \in Nat
  BY <1>2, FS_CardinalityType
<1>6. IsFiniteSet(Begun)
  BY OpIdFinite, FS_Subset DEF Begun
<1>7. Cardinality(Begun) \in Nat
  BY <1>6, FS_CardinalityType
<1>8. Cardinality(Begun) <= Cardinality(D)
  BY DEF SubmissionInv, Room
<1>9. Cardinality(Begun) <= Cardinality(D2)
  BY <1>4, <1>5, <1>7, <1>8
<1> QED
  BY <1>1, <1>9 DEF Room

LEMMA ShapesTyped ==
    ASSUME NEW st, NEW j, NEW a, NEW told, NEW t \in Shapes(st, j, a, told)
    PROVE  t \in Seq(Event)
<1>1. t \in {<<>>, <<F>>, <<I>>, <<R>>, <<I, F>>, <<F, F>>, <<R, I>>, <<F, I>>,
             <<R, I, F>>, <<F, I, F>>}
  BY DEF Shapes
<1>2. F \in Event /\ I \in Event /\ R \in Event
  BY DEF F, I, R, Event
<1> HIDE DEF F, I, R
<1>3. /\ <<>> \in Seq(Event) /\ <<F>> \in Seq(Event)
      /\ <<I>> \in Seq(Event) /\ <<R>> \in Seq(Event)
  BY <1>2
<1>4. /\ <<I, F>> \in Seq(Event) /\ <<F, F>> \in Seq(Event)
      /\ <<R, I>> \in Seq(Event) /\ <<F, I>> \in Seq(Event)
  BY <1>2
<1>5. <<R, I, F>> \in Seq(Event) /\ <<F, I, F>> \in Seq(Event)
  BY <1>2
<1> QED
  BY <1>1, <1>3, <1>4, <1>5

\* The invariants about operation o.
Account(o) ==
    \A m \in Msg :
        /\ Alone(m) /\ Has(o, m, Last(m)) /\ sAnswer[<<m, Last(m)>>] = {"result"}
        => /\ op[o].segs = Whole(m) /\ op[o].complete
           /\ \/ op[o].st = "s2"
              \/ op[o].st = "s3" /\ Settling(o)
              \/ op[o].fate = "spooled"
              \/ op[o].fate = "dropped" /\ o \in vAsked
              \/ op[o].fate = "lost" /\ faults > 0

Pass(o) ==
    \A m \in Msg :
        Alone(m) /\ op[o].fate = "spooled" /\ Has(o, m, 0) =>
            /\ op[o].segs = Whole(m)
            /\ sOutcome[<<m, Last(m)>>] = Outcome(<<m, Last(m)>>, "result")

Single(o) ==
    /\ OpOK(o)
    /\ \A m \in Msg : Alone(m) /\ Owns(o, m) => Orderly(o, m)
    /\ Account(o) /\ Pass(o)
    /\ op[o].fate = "spooled" => 0 \in DOMAIN op[o].segs

LEMMA Singles ==
    /\ SubmissionInv => \A o \in OpId : Single(o)
    /\ (\A o \in OpId : Single(o)) /\ OneHolder /\ Answers =>
           Ops /\ Order /\ Accounted /\ Passed /\ SpooledHas
    /\ (\A o \in OpId : Single(o)') /\ OneHolder' /\ Answers' =>
           Ops' /\ Order' /\ Accounted' /\ Passed' /\ SpooledHas'
BY DEF SubmissionInv, Single, Account, Pass, Ops, Order, Accounted, Passed, SpooledHas

\* Operations that a step is not about keep their invariants.
LEMMA OthersKeep ==
    ASSUME SubmissionInv, MtsFrame, Typed',
           NEW p \in OpId, op'[p] = op[p],
           \A t \in Seq(Event) : Waiting(tasks, p, t) => Waiting(tasks, p, t)',
           (\A i \in 1 .. Len(tasks) : tasks[i][1] # p) =>
               \A i \in 1 .. Len(tasks') : tasks'[i][1] # p,
           \A c \in Call : Holds(p, c) => sAnswer'[c] = sAnswer[c],
           op[p].st \in {"s1", "s2"} => sTold'[op[p].call] = sTold[op[p].call],
           vAsked \subseteq vAsked', vOutcome[p] # <<>> => vOutcome'[p] # <<>>,
           faults' >= faults
    PROVE  Single(p)'
<1> USE DEF SubmissionInv
<1>1. OpOK(p) /\ Single(p)
  BY Singles DEF Ops
<1>2. OpOK(p)'
  BY <1>1 DEF OpOK, MtsFrame, Kept
<1>3. \A m \in Msg : Alone(m)' <=> Alone(m)
  BY MtsFrameKeeps
<1>4. ASSUME NEW m \in Msg, Alone(m)', Owns(p, m)' PROVE Orderly(p, m)'
  <2>1. Owns(p, m)
    BY <1>4 DEF Owns, Holds, Has
  <2>2. Orderly(p, m)
    BY <1>3, <1>4, <2>1 DEF Order
  <2> DEFINE r == op[p]
             c == r.call
  <2>3. CASE r.st \in {"s1", "s2"}
    <3>1. c \in Call
      BY <1>1, <2>3 DEF OpOK
    <3>2. sAnswer'[c] = sAnswer[c] /\ sTold'[c] = sTold[c]
      <4>1. Holds(p, c)
        BY DEF Holds
      <4>2. sTold'[c] = sTold[c]
        BY <2>3
      <4> QED
        BY <3>1, <4>1, <4>2
    <3>3. PICK t \in Shapes(r.st, c[2] \in DOMAIN r.segs, sAnswer[c] = {"result"}, sTold[c]) :
              Waiting(tasks, p, t)
      BY <2>2, <2>3 DEF Orderly
    <3>4. Waiting(tasks, p, t)'
      BY <3>3, ShapesTyped
    <3> QED
      BY <2>2, <2>3, <3>2, <3>3, <3>4 DEF Orderly
  <2>4. CASE r.st \notin {"s1", "s2"}
    BY <2>2, <2>4 DEF Orderly
  <2> QED
    BY <2>3, <2>4
<1>5. faults \in Nat /\ faults' \in Nat
  BY SubmissionAssumption DEF Typed
<1>6. Settling(p) => Settling(p)'
  <2> SUFFICES ASSUME Settling(p) PROVE Settling(p)'
    OBVIOUS
  <2>1. PICK t \in {<<>>, <<"resultInd">>, <<"errorInd">>, <<F>>} :
            /\ Waiting(tasks, p, t)
            /\ t # <<>> => vOutcome[p] # <<>>
            /\ t = <<"errorInd">> => faults > 0
            /\ op[p].call \in Call => sTold[op[p].call] # <<>>
    BY DEF Settling
  <2>2. t \in Seq(Event)
    <3>1. F \in Event /\ "resultInd" \in Event /\ "errorInd" \in Event
      BY DEF F, Event
    <3>2. /\ <<>> \in Seq(Event) /\ <<F>> \in Seq(Event)
          /\ <<"resultInd">> \in Seq(Event) /\ <<"errorInd">> \in Seq(Event)
      BY <3>1
    <3> QED
      BY <3>2
  <2>3. Waiting(tasks, p, t)'
    BY <2>1, <2>2
  <2>4. op[p].call \in Call => sTold'[op[p].call] # <<>>
    BY <2>1 DEF MtsFrame, Kept
  <2> QED
    BY <1>5, <2>1, <2>3, <2>4 DEF Settling
<1>7. Account(p)'
  <2> SUFFICES ASSUME NEW m \in Msg, Alone(m)', Has(p, m, Last(m))',
                      sAnswer'[<<m, Last(m)>>] = {"result"}
               PROVE  (/\ op[p].segs = Whole(m) /\ op[p].complete
                       /\ \/ op[p].st = "s2"
                          \/ op[p].st = "s3" /\ Settling(p)
                          \/ op[p].fate = "spooled"
                          \/ op[p].fate = "dropped" /\ p \in vAsked
                          \/ op[p].fate = "lost" /\ faults > 0)'
    BY Zenon DEF Account
  <2>1. Holds(p, <<m, Last(m)>>)
    BY DEF Holds, Has
  <2>2. sAnswer[<<m, Last(m)>>] = {"result"}
    BY <2>1, CallIs
  <2>3. Has(p, m, Last(m))
    BY DEF Has
  <2>4. /\ op[p].segs = Whole(m) /\ op[p].complete
        /\ \/ op[p].st = "s2"
           \/ op[p].st = "s3" /\ Settling(p)
           \/ op[p].fate = "spooled"
           \/ op[p].fate = "dropped" /\ p \in vAsked
           \/ op[p].fate = "lost" /\ faults > 0
    BY <1>1, <1>3, <2>2, <2>3 DEF Single, Account
  <2>5. Whole(m)' = Whole(m)
    BY DEF Whole
  <2> QED
    BY <1>5, <1>6, <2>4, <2>5
<1>8. Pass(p)'
  BY <1>1, <1>3 DEF Single, Pass, Has, MtsFrame, Whole
<1> QED
  BY <1>1, <1>2, <1>4, <1>7, <1>8 DEF Single

\* The queue of events in a step that is about operation o.
QueueStep(o) ==
    \/ tasks' = tasks
    \/ /\ o \in OpId
       /\ \E e \in Event : tasks' = Append(tasks, <<o, e>>)
    \/ /\ o \in OpId /\ tasks # <<>> /\ Head(tasks)[1] = o
       /\ \/ tasks' = Tail(tasks)
          \/ \E e \in Event : tasks' = Append(Tail(tasks), <<o, e>>)

LEMMA QueueOthers ==
    ASSUME Typed, NEW o, QueueStep(o), NEW p \in OpId \ {o}
    PROVE  /\ tasks' \in Seq(OpId \X Event)
           /\ \A t \in Seq(Event) : Waiting(tasks, p, t) => Waiting(tasks', p, t)
           /\ (\A i \in 1 .. Len(tasks) : tasks[i][1] # p) =>
                  \A i \in 1 .. Len(tasks') : tasks'[i][1] # p
<1>0. tasks \in Seq(OpId \X Event)
  BY DEF Typed
<1>1. ASSUME NEW s \in Seq(OpId \X Event), NEW e \in Event, o \in OpId
      PROVE  /\ Append(s, <<o, e>>) \in Seq(OpId \X Event)
             /\ \A t \in Seq(Event) : Waiting(s, p, t) => Waiting(Append(s, <<o, e>>), p, t)
             /\ (\A i \in 1 .. Len(s) : s[i][1] # p) =>
                    \A i \in 1 .. Len(Append(s, <<o, e>>)) : Append(s, <<o, e>>)[i][1] # p
  <2>1. <<o, e>> \in OpId \X Event
    BY <1>1
  <2>2. Append(s, <<o, e>>) \in Seq(OpId \X Event)
    BY <2>1
  <2>3. \A t \in Seq(Event) : Waiting(s, p, t) => Waiting(Append(s, <<o, e>>), p, t)
    BY <1>1, WaitingAppendOther
  <2>4. ASSUME \A i \in 1 .. Len(s) : s[i][1] # p,
               NEW i \in 1 .. Len(Append(s, <<o, e>>))
        PROVE  Append(s, <<o, e>>)[i][1] # p
    <3>1. PICK n : n = Len(s)
      OBVIOUS
    <3>2. /\ n \in Nat /\ Len(Append(s, <<o, e>>)) = n + 1
          /\ Append(s, <<o, e>>)[n + 1] = <<o, e>>
          /\ \A j \in 1 .. n : Append(s, <<o, e>>)[j] = s[j]
      BY <2>1, <3>1, AppendFacts
    <3> QED
      BY <2>4, <3>1, <3>2
  <2> QED
    BY <2>2, <2>3, <2>4
<1>2. ASSUME tasks # <<>>, Head(tasks)[1] = o
      PROVE  /\ Tail(tasks) \in Seq(OpId \X Event)
             /\ \A t \in Seq(Event) : Waiting(tasks, p, t) => Waiting(Tail(tasks), p, t)
             /\ (\A i \in 1 .. Len(tasks) : tasks[i][1] # p) =>
                    \A i \in 1 .. Len(Tail(tasks)) : Tail(tasks)[i][1] # p
  <2>1. \A t \in Seq(Event) : Waiting(tasks, p, t) => Waiting(Tail(tasks), p, t)
    BY <1>0, <1>2, WaitingTailOther
  <2>2. PICK n : n = Len(tasks)
    OBVIOUS
  <2>3. /\ n \in Nat \ {0} /\ Len(Tail(tasks)) = n - 1
        /\ \A i \in 1 .. n - 1 : Tail(tasks)[i] = tasks[i + 1]
        /\ Tail(tasks) \in Seq(OpId \X Event)
    BY <1>0, <1>2, <2>2, TailFacts
  <2> QED
    BY <2>1, <2>2, <2>3
<1>3. CASE tasks' = tasks
  BY <1>0, <1>3
<1>4. CASE o \in OpId /\ \E e \in Event : tasks' = Append(tasks, <<o, e>>)
  BY <1>0, <1>1, <1>4
<1>5. CASE /\ o \in OpId /\ tasks # <<>> /\ Head(tasks)[1] = o
           /\ \/ tasks' = Tail(tasks)
              \/ \E e \in Event : tasks' = Append(Tail(tasks), <<o, e>>)
  BY <1>1, <1>2, <1>5
<1> QED
  BY <1>3, <1>4, <1>5 DEF QueueStep

\* A step of the MTS about operation o, or about none.
LEMMA MtsStep ==
    ASSUME SubmissionInv, Typed', Served', MtsFrame, NEW o, QueueStep(o),
           \A p \in OpId \ {o} :
               /\ op'[p] = op[p]
               /\ \A c \in Call : Holds(p, c) => sAnswer'[c] = sAnswer[c]
               /\ op[p].st \in {"s1", "s2"} => sTold'[op[p].call] = sTold[op[p].call]
               /\ vOutcome'[p] = vOutcome[p]
               /\ p \in vAsked' <=> p \in vAsked,
           vAsked \subseteq vAsked', vAnswer' = vAnswer, faults' >= faults,
           \A c \in Call : sAnswer[c] = {"result"} => resultId'[c] = resultId[c],
           o \in OpId =>
               /\ Single(o)'
               /\ vOutcome'[o] # <<>> => o \in vAsked'
               /\ o \in vAsked' => op'[o].st \notin {"none", "s1", "s2"}
               /\ op'[o].verdict = "send" =>
                      op[o].verdict = "send" \/ "send" \in vAnswer[o],
           OneHolder', Answers', ActiveOK', Room'
    PROVE  SubmissionInv'
<1>1. ASSUME NEW p \in OpId PROVE Single(p)'
  <2>1. CASE p = o
    BY <2>1
  <2>2. CASE p # o
    <3>1. /\ \A t \in Seq(Event) : Waiting(tasks, p, t) => Waiting(tasks, p, t)'
          /\ (\A i \in 1 .. Len(tasks) : tasks[i][1] # p) =>
                 \A i \in 1 .. Len(tasks') : tasks'[i][1] # p
      <4>1. Typed
        BY DEF SubmissionInv
      <4>2. /\ \A t \in Seq(Event) : Waiting(tasks, p, t) => Waiting(tasks', p, t)
            /\ (\A i \in 1 .. Len(tasks) : tasks[i][1] # p) =>
                   \A i \in 1 .. Len(tasks') : tasks'[i][1] # p
        BY <2>2, <4>1, QueueOthers
      <4>3. ASSUME NEW t, Waiting(tasks', p, t) PROVE Waiting(tasks, p, t)'
        BY <4>3 DEF Waiting
      <4> QED
        BY <4>2, <4>3
    <3>2. /\ op'[p] = op[p]
          /\ \A c \in Call : Holds(p, c) => sAnswer'[c] = sAnswer[c]
          /\ op[p].st \in {"s1", "s2"} => sTold'[op[p].call] = sTold[op[p].call]
          /\ vOutcome[p] # <<>> => vOutcome'[p] # <<>>
      BY <2>2
    <3> QED
      BY <3>1, <3>2, OthersKeep
  <2> QED
    BY <2>1, <2>2
<1>2. Ops' /\ Order' /\ Accounted' /\ Passed' /\ SpooledHas'
  BY <1>1, Singles
<1>3. Agent' /\ Fresh'
  BY MtsFrameKeeps
<1>4. Truthful'
  <2>1. ASSUME NEW p \in OpId, op'[p].verdict = "send"
        PROVE  op[p].verdict = "send" \/ "send" \in vAnswer[p]
    BY <2>1
  <2> QED
    BY <2>1, TruthfulKeeps
<1>5. Verified'
  <2> SUFFICES ASSUME NEW p \in OpId
               PROVE  /\ vOutcome'[p] # <<>> => p \in vAsked'
                      /\ p \in vAsked' => op'[p].st \notin {"none", "s1", "s2"}
                      /\ "error" \in vAnswer'[p] => faults' > 0
    BY DEF Verified
  <2>1. /\ vOutcome[p] # <<>> => p \in vAsked
        /\ p \in vAsked => op[p].st \notin {"none", "s1", "s2"}
        /\ "error" \in vAnswer[p] => faults > 0
    BY DEF SubmissionInv, Verified
  <2>2. faults \in Nat /\ faults' \in Nat
    BY SubmissionAssumption DEF Typed, SubmissionInv
  <2> QED
    BY <2>1, <2>2
<1> QED
  BY <1>2, <1>3, <1>4, <1>5 DEF SubmissionInv

-----------------------------------------------------------------------------
(* Operations that move, and are freed.                                    *)

\* What differs between q and r is at most where the operation is.
SameData(q, r) ==
    /\ q.call = r.call /\ q.seq = r.seq /\ q.last = r.last /\ q.segs = r.segs
    /\ q.complete = r.complete /\ q.verdict = r.verdict

LEMMA OpParts ==
    ASSUME NEW r \in OpRec
    PROVE  /\ r.st \in {"none", "s1", "s2", "s3", "s4", "free"}
           /\ r.call \in Call \cup {<<p>> : p \in OpId} \cup {<<>>}
           /\ r.seq \in Nat /\ r.last \in Nat
           /\ r.segs \in UNION {[D -> Msg] : D \in SUBSET Nat}
           /\ r.complete \in BOOLEAN /\ r.timer \in BOOLEAN
           /\ r.verdict \in {"none", "send", "drop"}
BY DEF OpRec

\* A step that moves an operation to another state.
LEMMA MovedTo ==
    ASSUME op \in [OpId -> OpRec], NEW o \in OpId, NEW r \in OpRec,
           NEW s \in {"s1", "s2", "s3", "s4"}, Moved(o, r, s)
    PROVE  \E q : /\ op' = [op EXCEPT ![o] = q] /\ active' = active
                  /\ q \in OpRec /\ q.st = s /\ SameData(q, r)
                  /\ q.timer = r.timer /\ q.fate = r.fate
                  /\ op'[o] = q /\ \A p \in OpId \ {o} : op'[p] = op[p]
<1>1. PICK q : q = [r EXCEPT !.st = s]
  OBVIOUS
<1>2. /\ q \in OpRec /\ q.st = s /\ SameData(q, r)
      /\ q.timer = r.timer /\ q.fate = r.fate
  BY ONLY <1>1, r \in OpRec, s \in {"s1", "s2", "s3", "s4"} DEF OpRec, SameData
<1>3. op' = [op EXCEPT ![o] = q] /\ active' = active
  BY <1>1 DEF Moved
<1>4. op'[o] = q /\ \A p \in OpId \ {o} : op'[p] = op[p]
  BY <1>3
<1> QED
  BY <1>2, <1>3, <1>4

LEMMA StoppedRec ==
    ASSUME NEW r \in OpRec, NEW q, q = [r EXCEPT !.timer = FALSE]
    PROVE  /\ q \in OpRec /\ q.timer = FALSE /\ SameData(q, r)
           /\ q.st = r.st /\ q.fate = r.fate
BY DEF OpRec, SameData

\* Unlinking an operation.
LEMMA FreeUnlinks ==
    ASSUME Typed, ActiveOK, NEW o \in OpId, Free(o)
    PROVE  /\ active' \in Seq(OpId)
           /\ op[o].st \in Live
           /\ \A p \in OpId : (\E i \in 1 .. Len(active') : active'[i] = p) <=>
                  p # o /\ op[p].st \in Live
           /\ \A i, j \in 1 .. Len(active') : active'[i] = active'[j] => i = j
<1>1. PICK k \in 1 .. Len(active) :
          /\ active[k] = o
          /\ active' = SubSeq(active, 1, k - 1) \o SubSeq(active, k + 1, Len(active))
  BY DEF Free
<1>2. PICK n \in Nat : n = Len(active)
  BY DEF Typed
<1>3. active \in Seq(OpId) /\ k \in 1 .. n
  BY <1>1, <1>2 DEF Typed
<1>4. /\ active' \in Seq(OpId) /\ Len(active') = n - 1
      /\ \A i \in 1 .. n - 1 : active'[i] = active[IF i < k THEN i ELSE i + 1]
  <2> DEFINE a == SubSeq(active, 1, k - 1)
             b == SubSeq(active, k + 1, n)
  <2>1. a \in Seq(OpId) /\ Len(a) = k - 1 /\ \A i \in 1 .. k - 1 : a[i] = active[i]
    BY <1>2, <1>3
  <2>2. b \in Seq(OpId) /\ Len(b) = n - k /\ \A i \in 1 .. n - k : b[i] = active[k + i]
    BY <1>2, <1>3
  <2>3. active' = a \o b
    BY <1>1, <1>2
  <2> HIDE DEF a, b
  <2>4. active' \in Seq(OpId) /\ Len(active') = n - 1
    BY <1>2, <1>3, <2>1, <2>2, <2>3
  <2>5. ASSUME NEW i \in 1 .. n - 1 PROVE active'[i] = active[IF i < k THEN i ELSE i + 1]
    <3>1. CASE i < k
      BY <1>3, <2>1, <2>2, <2>3, <3>1
    <3>2. CASE i >= k
      <4>1. active'[i] = b[i - (k - 1)]
        BY <1>3, <2>1, <2>2, <2>3, <3>2
      <4>2. i - (k - 1) \in 1 .. n - k
        BY <1>3, <3>2
      <4> QED
        BY <1>3, <2>2, <3>2, <4>1, <4>2
    <3> QED
      BY <1>3, <3>1, <3>2
  <2> QED
    BY <2>4, <2>5
<1>5. \A i, j \in 1 .. n : active[i] = active[j] => i = j
  BY <1>2 DEF ActiveOK
<1>6. \A p \in OpId : op[p].st \in Live <=> \E i \in 1 .. n : active[i] = p
  BY <1>2 DEF ActiveOK
<1>7. op[o].st \in Live
  BY <1>1, <1>2, <1>6
<1>8. ASSUME NEW p \in OpId
      PROVE  (\E i \in 1 .. n - 1 : active'[i] = p) <=> p # o /\ op[p].st \in Live
  <2>1. ASSUME NEW i \in 1 .. n - 1, active'[i] = p PROVE p # o /\ op[p].st \in Live
    <3>1. PICK j \in 1 .. n : j # k /\ active[j] = p
      <4>1. CASE i < k
        BY <1>3, <1>4, <2>1, <4>1
      <4>2. CASE i >= k
        <5>1. i + 1 \in 1 .. n /\ i + 1 # k /\ active[i + 1] = p
          BY <1>3, <1>4, <2>1, <4>2
        <5> QED
          BY <5>1
      <4> QED
        BY <1>3, <4>1, <4>2
    <3> QED
      BY <1>1, <1>3, <1>5, <1>6, <3>1
  <2>2. ASSUME p # o, op[p].st \in Live PROVE \E i \in 1 .. n - 1 : active'[i] = p
    <3>1. PICK j \in 1 .. n : active[j] = p
      BY <1>6, <2>2
    <3>2. j # k
      BY <1>1, <2>2, <3>1
    <3>3. CASE j < k
      <4>1. j \in 1 .. n - 1
        BY <1>3, <3>3
      <4>2. active'[j] = active[j]
        BY <1>4, <3>3, <4>1
      <4> QED
        BY <3>1, <4>1, <4>2
    <3>4. CASE j > k
      <4>1. j - 1 \in 1 .. n - 1 /\ ~ (j - 1 < k) /\ (j - 1) + 1 = j
        BY <1>3, <3>4
      <4>2. active'[j - 1] = active[j]
        BY <1>4, <4>1
      <4> QED
        BY <3>1, <4>1, <4>2
    <3> QED
      BY <1>3, <3>2, <3>3, <3>4
  <2> QED
    BY <2>1, <2>2
<1>9. ASSUME NEW i \in 1 .. n - 1, NEW j \in 1 .. n - 1, active'[i] = active'[j]
      PROVE  i = j
  <2> DEFINE g(x) == IF x < k THEN x ELSE x + 1
  <2>1. g(i) \in 1 .. n /\ g(j) \in 1 .. n /\ active[g(i)] = active[g(j)]
    BY <1>3, <1>4, <1>9, SMTT(40)
  <2>2. g(i) = g(j)
    BY <1>5, <2>1
  <2> QED
    BY <1>3, <2>2
<1> QED
  BY <1>4, <1>7, <1>8, <1>9

LEMMA MtsTyped ==
    ASSUME Typed, STyped',
           UNCHANGED <<ua, seqNo, seqOf, ring, asking, user, restarts, vRuns, vAnswer>>,
           vAsked \subseteq vAsked', vAsked' \subseteq OpId,
           vOutcome' \in [OpId -> Seq([kind : {"refused", "send", "drop", "garbled",
                                               "error", "failure"}, op : OpId])],
           vTold' \in [OpId -> Seq({"send", "drop", "garbled", "error", "failure"})],
           resultId' \in [Call -> {0} \cup OpId],
           active' \in Seq(OpId), op' \in [OpId -> OpRec],
           tasks' \in Seq(OpId \X Event), wild' \in BOOLEAN, faults' \in 0 .. MaxFaults
    PROVE  Typed'
BY DEF Typed, STyped

\* The queue of events keeps its type.
LEMMA QueueTyped ==
    ASSUME Typed, NEW o, QueueStep(o)
    PROVE  tasks' \in Seq(OpId \X Event)
<1>0. tasks \in Seq(OpId \X Event)
  BY DEF Typed
<1>1. ASSUME o \in OpId, NEW e \in Event, NEW s \in Seq(OpId \X Event)
      PROVE  Append(s, <<o, e>>) \in Seq(OpId \X Event)
  <2>1. <<o, e>> \in OpId \X Event
    BY <1>1
  <2> QED
    BY <2>1
<1>2. tasks # <<>> => Tail(tasks) \in Seq(OpId \X Event)
  BY <1>0
<1> QED
  BY <1>0, <1>1, <1>2 DEF QueueStep

\* The holders of the calls do not change.
LEMMA HoldersStay ==
    ASSUME SubmissionInv,
           \A o \in OpId : /\ op'[o].call \in Call => op'[o].call = op[o].call
                           /\ op'[o].segs = op[o].segs,
           \A c \in Call : sAnswer'[c] = {"result"} <=> sAnswer[c] = {"result"},
           resultId' = resultId
    PROVE  OneHolder' /\ Answers'
<1>1. ASSUME NEW o \in OpId, NEW c \in Call, Holds(o, c)' PROVE Holds(o, c)
  BY <1>1 DEF Holds, Has
<1>2. OneHolder'
  BY <1>1 DEF SubmissionInv, Ops, OneHolder
<1>3. Answers'
  <2>1. Answers
    BY DEF SubmissionInv, Ops
  <2>2. Typed
    BY DEF SubmissionInv
  <2>3. ASSUME NEW c \in Call, resultId[c] # 0 PROVE resultId[c] \in OpId
    BY <2>2, <2>3 DEF Typed
  <2> QED
    BY <2>1, <2>3 DEF Answers, Has
<1> QED
  BY <1>2, <1>3

\* A step that frees an operation; it may refuse a call that no operation was
\* handed.
LEMMA FreedKeeps ==
    ASSUME SubmissionInv, NEW o \in OpId, NEW r,
           r = op[o] \/ r = [op[o] EXCEPT !.timer = FALSE],
           NEW f \in Fates,
           Release(o, r, f), QueueStep(o),
           UNCHANGED <<vVars, uaVars, resultId, restarts>>,
           STyped', Served', Kept, UNCHANGED <<sAsked, sOutcome, sTold>>,
           \A d \in Call : sAnswer'[d] = {"result"} <=> sAnswer[d] = {"result"},
           \A p \in OpId, d \in Call : Holds(p, d) => sAnswer'[d] = sAnswer[d],
           wild' \in BOOLEAN, faults' \in 0 .. MaxFaults, faults' >= faults,
           \A m \in Msg :
               Alone(m) /\ Has(o, m, Last(m)) /\ sAnswer[<<m, Last(m)>>] = {"result"} =>
                  \/ f = "spooled"
                  \/ f = "dropped" /\ o \in vAsked
                  \/ f = "lost" /\ faults' > 0,
           f = "spooled" =>
               /\ 0 \in DOMAIN op[o].segs
               /\ \A m \in Msg :
                     Alone(m) /\ Has(o, m, 0) =>
                        /\ op[o].segs = Whole(m)
                        /\ sOutcome[<<m, Last(m)>>] = Outcome(<<m, Last(m)>>, "result")
    PROVE  SubmissionInv'
<1>1. Typed /\ Served /\ ActiveOK /\ OpOK(o) /\ op[o] \in OpRec /\ op \in [OpId -> OpRec]
      /\ Verified /\ Single(o)
  BY Singles DEF SubmissionInv, Ops, Typed
<1>2. r \in OpRec /\ SameData(r, op[o])
  <2>1. CASE r = op[o]
    BY ONLY <1>1, <2>1 DEF SameData
  <2>2. CASE r = [op[o] EXCEPT !.timer = FALSE]
    BY ONLY <1>1, <2>2, StoppedRec
  <2> QED
    BY <2>1, <2>2
<1>3. PICK q : /\ op' = [op EXCEPT ![o] = q]
               /\ q \in OpRec /\ q.st = "free" /\ q.fate = f /\ SameData(q, op[o])
  <2>1. PICK z : op' = [op EXCEPT ![o] = z] /\ z = [r EXCEPT !.st = "free", !.fate = f]
    BY DEF Release
  <2>2. z \in OpRec /\ z.st = "free" /\ z.fate = f /\ SameData(z, r)
    <3>1. r \in OpRec /\ f \in Fates /\ z = [r EXCEPT !.st = "free", !.fate = f]
      BY <1>2, <2>1
    <3> QED
      BY ONLY <3>1 DEF OpRec, SameData, Fates
  <2> QED
    BY <1>2, <2>1, <2>2, ZenonT(60) DEF SameData
<1>4. /\ op'[o] = q /\ op' \in [OpId -> OpRec]
      /\ \A p \in OpId \ {o} : op'[p] = op[p]
  BY <1>1, <1>3
<1>5. /\ active' \in Seq(OpId)
      /\ op[o].st \in Live
      /\ \A p \in OpId : (\E i \in 1 .. Len(active') : active'[i] = p) <=>
             p # o /\ op[p].st \in Live
      /\ \A i, j \in 1 .. Len(active') : active'[i] = active'[j] => i = j
  BY <1>1, FreeUnlinks DEF Release
<1>6. ActiveOK'
  <2>1. ASSUME NEW p \in OpId
        PROVE  op'[p].st \in Live <=> \E i \in 1 .. Len(active') : active'[i] = p
    BY <1>3, <1>4, <1>5 DEF Live
  <2> QED
    BY <1>5, <2>1 DEF ActiveOK
<1>7. tasks' \in Seq(OpId \X Event)
  BY <1>1, QueueTyped
<1>8. Typed' /\ STyped'
  <2>1. /\ vAsked' \subseteq OpId
        /\ vOutcome' \in [OpId -> Seq([kind : {"refused", "send", "drop", "garbled",
                                               "error", "failure"}, op : OpId])]
        /\ vTold' \in [OpId -> Seq({"send", "drop", "garbled", "error", "failure"})]
        /\ resultId' \in [Call -> {0} \cup OpId]
    BY <1>1 DEF Typed, vVars
  <2> QED
    BY <1>1, <1>4, <1>5, <1>7, <2>1, MtsTyped DEF vVars, uaVars
<1>9. MtsFrame
  BY DEF MtsFrame, uaVars
<1>10. Room'
  <2>1. \A p \in OpId : op'[p].st = "none" <=> op[p].st = "none"
    BY <1>3, <1>4, <1>5 DEF Live
  <2> QED
    BY <2>1, RoomKeeps
<1>11. OneHolder' /\ Answers'
  <2>1. \A p \in OpId : op'[p].call = op[p].call /\ op'[p].segs = op[p].segs
    BY <1>3, <1>4 DEF SameData
  <2> QED
    BY <2>1, HoldersStay
<1>12. OpOK(o)'
  <2>1. /\ q.complete => ~ q.timer
        /\ q.call \in Call => sRuns'[q.call] = 1
    <3>1. /\ op[o].complete => ~ op[o].timer
          /\ op[o].call \in Call => sRuns[op[o].call] = 1
      BY <1>1 DEF OpOK
    <3>2. q.timer => op[o].timer
      <4>1. q.timer = r.timer
        <5>1. q = [r EXCEPT !.st = "free", !.fate = f]
          BY <1>1, <1>4 DEF Release
        <5>2. r \in OpRec
          BY <1>2
        <5> QED
          BY ONLY <5>1, <5>2 DEF OpRec
      <4>2. r.timer => op[o].timer
        BY <1>1, StoppedRec
      <4> QED
        BY <4>1, <4>2
    <3> QED
      BY <1>3, <3>1, <3>2 DEF SameData, Kept
  <2>2. /\ \A d \in Call : sRuns[d] = 1 => sRuns'[d] = 1
        /\ seqOf' = seqOf
    BY DEF Kept, uaVars
  <2> QED
    BY <1>1, <1>3, <1>4, <2>1, <2>2 DEF OpOK, SameData
<1>13. \A m \in Msg : (Alone(m)' <=> Alone(m)) /\ Whole(m)' = Whole(m)
  BY DEF Alone, uaVars, Whole
<1>14. \A m \in Msg : \A k : Has(o, m, k)' <=> Has(o, m, k)
  BY <1>3, <1>4 DEF Has, SameData
<1>15. ASSUME NEW m \in Msg, Alone(m)', Owns(o, m)' PROVE Orderly(o, m)'
  <2>1. Owns(o, m)
    BY <1>3, <1>4, <1>15 DEF Owns, Holds, Has, SameData
  <2>2. Orderly(o, m)
    BY <1>1, <1>13, <1>15, <2>1 DEF Single
  <2> QED
    BY <1>3, <1>4, <2>2 DEF Orderly, SameData
<1>16. Account(o)'
  <2> SUFFICES ASSUME NEW m \in Msg, Alone(m)', Has(o, m, Last(m))',
                      sAnswer'[<<m, Last(m)>>] = {"result"}
               PROVE  (/\ op[o].segs = Whole(m) /\ op[o].complete
                       /\ \/ op[o].st = "s2"
                          \/ op[o].st = "s3" /\ Settling(o)
                          \/ op[o].fate = "spooled"
                          \/ op[o].fate = "dropped" /\ o \in vAsked
                          \/ op[o].fate = "lost" /\ faults > 0)'
    BY Zenon DEF Account
  <2>1. Alone(m) /\ Has(o, m, Last(m)) /\ sAnswer[<<m, Last(m)>>] = {"result"}
    BY <1>13, <1>14, CallIs
  <2>2. op[o].segs = Whole(m) /\ op[o].complete
    BY <1>1, <2>1 DEF Single, Account
  <2>3. \/ f = "spooled"
        \/ f = "dropped" /\ o \in vAsked
        \/ f = "lost" /\ faults' > 0
    BY <2>1
  <2>4. op'[o].segs = Whole(m)' /\ op'[o].complete
    BY <1>3, <1>4, <1>13, <2>2 DEF SameData
  <2> QED
    BY <1>3, <1>4, <2>3, <2>4 DEF vVars
<1>17. Pass(o)' /\ (op'[o].fate = "spooled" => 0 \in DOMAIN op'[o].segs)
  BY <1>3, <1>4, <1>13, <1>14 DEF Pass, SameData, Outcome
<1>18. Single(o)'
  BY <1>12, <1>15, <1>16, <1>17 DEF Single
<1>19. /\ vOutcome'[o] # <<>> => o \in vAsked'
       /\ o \in vAsked' => op'[o].st \notin {"none", "s1", "s2"}
       /\ op'[o].verdict = "send" => op[o].verdict = "send" \/ "send" \in vAnswer[o]
  BY <1>1, <1>3, <1>4 DEF Verified, vVars, SameData
<1> QED
  BY <1>4, <1>6, <1>8, <1>9, <1>10, <1>11, <1>18, <1>19, MtsStep DEF vVars

\* A transition that frees an operation.
LEMMA ReleaseKeeps ==
    ASSUME SubmissionInv, NEW o \in OpId, NEW r,
           r = op[o] \/ r = [op[o] EXCEPT !.timer = FALSE],
           NEW f \in Fates,
           Release(o, r, f), QueueStep(o),
           UNCHANGED <<sVars, vVars, uaVars, resultId, restarts>>,
           wild' \in BOOLEAN, faults' \in 0 .. MaxFaults, faults' >= faults,
           \A m \in Msg :
               Alone(m) /\ Has(o, m, Last(m)) /\ sAnswer[<<m, Last(m)>>] = {"result"} =>
                  \/ f = "spooled"
                  \/ f = "dropped" /\ o \in vAsked
                  \/ f = "lost" /\ faults' > 0,
           f = "spooled" =>
               /\ 0 \in DOMAIN op[o].segs
               /\ \A m \in Msg :
                     Alone(m) /\ Has(o, m, 0) =>
                        /\ op[o].segs = Whole(m)
                        /\ sOutcome[<<m, Last(m)>>] = Outcome(<<m, Last(m)>>, "result")
    PROVE  SubmissionInv'
<1>1. STyped' /\ Served' /\ Kept
  BY DEF SubmissionInv, Typed, STyped, Served, Kept, sVars
<1> QED
  BY <1>1, FreedKeeps DEF sVars

\* The first event is for operation o.
Heading(o, ev) == tasks # <<>> /\ Head(tasks) = <<o, ev>>

LEMMA QueueTail ==
    ASSUME NEW o \in OpId, NEW ev \in Event, Heading(o, ev),
           \/ tasks' = tasks \/ tasks' = Tail(tasks)
           \/ \E e \in Event : tasks' = Append(Tail(tasks), <<o, e>>)
    PROVE  QueueStep(o)
BY DEF QueueStep, Heading

\* All of message m has been put together, and the operation is not done with.
LEMMA WholeInHand ==
    ASSUME SubmissionInv, NEW o \in OpId, op[o].st \in Live, NEW m \in Msg,
           Alone(m), Has(o, m, Last(m)), sAnswer[<<m, Last(m)>>] = {"result"}
    PROVE  /\ op[o].segs = Whole(m) /\ op[o].complete
           /\ Has(o, m, 0) /\ Owns(o, m) /\ Orderly(o, m)
           /\ op[o].st = "s2" \/ (op[o].st = "s3" /\ Settling(o))
           /\ op[o].st = "s2" => op[o].call = <<m, Last(m)>>
<1>1. Single(o)
  BY Singles
<1>2. op[o].fate = "none"
  BY <1>1 DEF Single, OpOK, Live
<1>3. /\ op[o].segs = Whole(m) /\ op[o].complete
      /\ op[o].st = "s2" \/ (op[o].st = "s3" /\ Settling(o))
  BY <1>1, <1>2 DEF Single, Account
<1>4. Has(o, m, 0)
  BY <1>3, CallIs DEF Has, Whole
<1>5. Owns(o, m)
  BY <1>4 DEF Owns, Holds
<1>6. Orderly(o, m)
  BY <1>1, <1>5 DEF Single
<1>7. ASSUME op[o].st = "s2" PROVE op[o].call = <<m, Last(m)>>
  <2>1. op[o].call \in Call
    BY <1>1, <1>7 DEF Single, OpOK
  <2>2. op[o].call[1] = m
    BY <1>6, <2>1 DEF Orderly
  <2>3. Last(m) <= op[o].call[2]
    BY <1>6, <2>1 DEF Orderly, Has
  <2>4. /\ op[o].call = <<m, op[o].call[2]>> /\ op[o].call[2] \in 0 .. Last(m)
        /\ Last(m) \in Nat
    BY <2>1, <2>2, CallParts
  <2>5. op[o].call[2] = Last(m)
    BY <2>3, <2>4
  <2> QED
    BY <2>4, <2>5
<1> QED
  BY <1>3, <1>4, <1>5, <1>6, <1>7

\* The event that comes next for such an operation.
LEMMA WholeHeading ==
    ASSUME SubmissionInv, NEW o \in OpId, op[o].st \in Live, NEW m \in Msg,
           Alone(m), Has(o, m, Last(m)), sAnswer[<<m, Last(m)>>] = {"result"},
           NEW ev \in Event, Heading(o, ev)
    PROVE  /\ op[o].st = "s2" =>
                  /\ ev \in {F, R} /\ sTold[<<m, Last(m)>>] # <<>>
                  /\ Waiting(Tail(tasks), o, <<>>)
           /\ op[o].st = "s3" =>
                  /\ ev \in {F, "resultInd", "errorInd"} /\ o \in vAsked
                  /\ ev = "errorInd" => faults > 0
<1>0. tasks \in Seq(OpId \X Event)
  BY DEF SubmissionInv, Typed
<1>1. /\ Orderly(o, m) /\ Has(o, m, Last(m))
      /\ op[o].st = "s2" \/ (op[o].st = "s3" /\ Settling(o))
      /\ op[o].st = "s2" => op[o].call = <<m, Last(m)>>
  BY WholeInHand
<1>2. CASE op[o].st = "s2"
  <2>1. PICK t \in Shapes("s2", TRUE, TRUE, sTold[<<m, Last(m)>>]) : Waiting(tasks, o, t)
    <3>1. Last(m) \in DOMAIN op[o].segs
      BY <1>1 DEF Has
    <3>2. <<m, Last(m)>>[2] = Last(m)
      OBVIOUS
    <3>3. PICK t \in Shapes(op[o].st, op[o].call[2] \in DOMAIN op[o].segs,
                            sAnswer[op[o].call] = {"result"}, sTold[op[o].call]) :
             Waiting(tasks, o, t)
      BY <1>1, <1>2 DEF Orderly
    <3>4. op[o].call = <<m, Last(m)>> /\ op[o].call[2] \in DOMAIN op[o].segs
          /\ sAnswer[op[o].call] = {"result"}
      BY <1>1, <1>2, <3>1, <3>2
    <3>5. (op[o].call[2] \in DOMAIN op[o].segs) = TRUE
          /\ (sAnswer[op[o].call] = {"result"}) = TRUE
      BY <3>4
    <3> QED
      BY <1>2, <3>3, <3>4, <3>5
  <2>2. t \in Seq(Event)
    BY <2>1, ShapesTyped
  <2>3. t # <<>> /\ Head(t) = ev /\ Waiting(Tail(tasks), o, Tail(t))
    BY <1>0, <2>1, <2>2, WaitingTail DEF Heading
  <2>4. sTold[<<m, Last(m)>>] # <<>> /\ t \in {<<R>>, <<F>>}
    BY <2>1, <2>3 DEF Shapes
  <2>5. Tail(t) = <<>> /\ ev \in {F, R}
    <3>1. F \in Event /\ R \in Event
      BY DEF F, R, Event
    <3>2. /\ Tail(<<F>>) = <<>> /\ Tail(<<R>>) = <<>>
          /\ Head(<<F>>) = F /\ Head(<<R>>) = R
      BY <3>1, ShortQueues
    <3> QED
      BY <2>3, <2>4, <3>2
  <2> QED
    BY <1>2, <2>3, <2>4, <2>5
<1>3. CASE op[o].st = "s3"
  <2>1. PICK t \in {<<>>, <<"resultInd">>, <<"errorInd">>, <<F>>} :
            /\ Waiting(tasks, o, t)
            /\ t # <<>> => vOutcome[o] # <<>>
            /\ t = <<"errorInd">> => faults > 0
    BY <1>1, <1>3 DEF Settling
  <2>2. t \in Seq(Event)
    <3>1. F \in Event /\ "resultInd" \in Event /\ "errorInd" \in Event
      BY DEF F, Event
    <3>2. /\ <<>> \in Seq(Event) /\ <<F>> \in Seq(Event)
          /\ <<"resultInd">> \in Seq(Event) /\ <<"errorInd">> \in Seq(Event)
      BY <3>1
    <3> QED
      BY <3>2
  <2>3. t # <<>> /\ Head(t) = ev
    <3>1. Waiting(tasks, o, t)
      BY <2>1
    <3> HIDE <2>1
    <3> QED
      BY <1>0, <2>2, <3>1, WaitingTail DEF Heading
  <2>4. ev \in {F, "resultInd", "errorInd"} /\ (ev = "errorInd" => t = <<"errorInd">>)
    BY <2>3 DEF F
  <2>5. o \in vAsked
    BY <2>1, <2>3 DEF SubmissionInv, Verified
  <2> QED
    BY <1>3, <2>1, <2>4, <2>5
<1> QED
  BY <1>1, <1>2, <1>3

\* The UA does not answer.
LEMMA UnansweredKeeps ==
    ASSUME SubmissionInv, NEW o \in OpId, aS3S1c(o)
    PROVE  SubmissionInv'
<1>1. /\ Heading(o, F) /\ F \in Event /\ op[o].st = "s3" /\ Release(o, op[o], "dropped")
      /\ tasks' = Tail(tasks)
      /\ UNCHANGED <<sVars, vVars, uaVars, resultId, restarts>>
      /\ wild' = wild /\ faults' = faults
  BY DEF aS3S1c, Task, Heading, F, Event
<1>2. QueueStep(o)
  BY <1>1, QueueTail
<1>3. wild' \in BOOLEAN /\ faults' \in 0 .. MaxFaults /\ faults' >= faults
  BY <1>1, SubmissionAssumption DEF SubmissionInv, Typed
<1>4. ASSUME NEW m \in Msg, Alone(m), Has(o, m, Last(m)),
             sAnswer[<<m, Last(m)>>] = {"result"}
      PROVE  o \in vAsked
  BY <1>1, <1>4, WholeHeading DEF Live
<1> QED
  BY <1>1, <1>2, <1>3, <1>4, ReleaseKeeps DEF Fates

\* An operation that has refused a segment.
LEMMA RefusedKeeps ==
    ASSUME SubmissionInv, NEW o \in OpId, aS4S1a(o)
    PROVE  SubmissionInv'
<1>1. PICK ev \in Event :
      /\ Heading(o, ev) /\ op[o].st = "s4" /\ Release(o, op[o], "refused")
      /\ tasks' = Tail(tasks)
      /\ UNCHANGED <<sVars, vVars, uaVars, resultId, restarts>>
      /\ wild' = wild /\ faults' = faults
  <2>1. "errorCon" \in Event /\ "failure" \in Event
    BY DEF Event
  <2> QED
    BY <2>1 DEF aS4S1a, Task, Heading
<1>2. QueueStep(o)
  BY <1>1, QueueTail
<1>3. wild' \in BOOLEAN /\ faults' \in 0 .. MaxFaults /\ faults' >= faults
  BY <1>1, SubmissionAssumption DEF SubmissionInv, Typed
<1>4. ASSUME NEW m \in Msg, Alone(m), Has(o, m, Last(m)),
             sAnswer[<<m, Last(m)>>] = {"result"}
      PROVE  FALSE
  BY <1>1, <1>4, WholeInHand DEF Live
<1> QED
  BY <1>1, <1>2, <1>3, <1>4, ReleaseKeeps DEF Fates

\* An event that the diagram has no transition for.
LEMMA UnexpectedKeeps ==
    ASSUME SubmissionInv, NEW o \in OpId, aUnexpectedEvent(o)
    PROVE  SubmissionInv'
<1>1. PICK st \in Live, ev \in Event, f \in {"lost", "none"} :
      /\ <<st, ev>> \notin Expected
      /\ Heading(o, ev) /\ op[o].st = st /\ Release(o, op[o], f)
      /\ op[o].complete => f = "lost"
      /\ tasks' = Tail(tasks)
      /\ UNCHANGED <<sVars, vVars, uaVars, resultId, restarts>>
      /\ wild' = wild /\ faults' = faults
  BY DEF aUnexpectedEvent, Task, Heading, Live, Event
<1>2. QueueStep(o)
  BY <1>1, QueueTail
<1>3. wild' \in BOOLEAN /\ faults' \in 0 .. MaxFaults /\ faults' >= faults
  BY <1>1, SubmissionAssumption DEF SubmissionInv, Typed
<1>4. ASSUME NEW m \in Msg, Alone(m), Has(o, m, Last(m)),
             sAnswer[<<m, Last(m)>>] = {"result"}
      PROVE  f = "lost" /\ faults' > 0
  <2>1. op[o].complete /\ st \in {"s2", "s3"}
    BY <1>1, <1>4, WholeInHand
  <2>2. st = "s2" => ev \in {F, R}
    BY <1>1, <1>4, WholeHeading
  <2>3. st = "s3" => ev \in {F, "resultInd", "errorInd"} /\ (ev = "errorInd" => faults > 0)
    BY <1>1, <1>4, WholeHeading
  <2> QED
    BY <1>1, <2>1, <2>2, <2>3 DEF Expected, F, R
<1> QED
  BY <1>1, <1>2, <1>3, <1>4, ReleaseKeeps DEF Fates

\* The timer frees an operation that waits for segments.
LEMMA ExpiredKeeps ==
    ASSUME SubmissionInv, NEW o \in OpId, segmentationTimerExpired(o), op[o].st # "free"
    PROVE  SubmissionInv'
<1>1. /\ op[o].timer /\ Release(o, [op[o] EXCEPT !.timer = FALSE], "expired")
      /\ UNCHANGED <<sVars, vVars, uaVars, resultId, restarts>>
      /\ tasks' = tasks /\ wild' = wild /\ faults' = faults
  BY DEF segmentationTimerExpired
<1>2. QueueStep(o)
  BY <1>1 DEF QueueStep
<1>3. wild' \in BOOLEAN /\ faults' \in 0 .. MaxFaults /\ faults' >= faults
  BY <1>1, SubmissionAssumption DEF SubmissionInv, Typed
<1>4. op[o].st \in Live
  BY <1>1, FreeUnlinks DEF SubmissionInv, Release
<1>5. ASSUME NEW m \in Msg, Alone(m), Has(o, m, Last(m)),
             sAnswer[<<m, Last(m)>>] = {"result"}
      PROVE  FALSE
  <2>1. op[o].complete
    BY <1>4, <1>5, WholeInHand
  <2> QED
    BY <1>1, <2>1 DEF SubmissionInv, Ops, OpOK
<1> QED
  BY <1>1, <1>2, <1>3, <1>5, ReleaseKeeps DEF Fates

\* A step after which the MTS only knows that it has used a freed operation.
LEMMA WildKeeps ==
    ASSUME SubmissionInv, wild' = TRUE,
           UNCHANGED <<sVars, vVars, uaVars, active, op, tasks, resultId, restarts, faults>>
    PROVE  SubmissionInv'
<1>1. Typed'
  BY DEF SubmissionInv, Typed, sVars, vVars, uaVars
<1>2. Served' /\ MtsFrame /\ Kept
  BY DEF SubmissionInv, Served, MtsFrame, Kept, sVars, uaVars
<1>3. QueueStep(0)
  BY DEF QueueStep
<1>4. OneHolder' /\ Answers'
  BY HoldersStay DEF sVars
<1>5. ActiveOK'
  BY DEF SubmissionInv, ActiveOK
<1>6. Room'
  BY <1>2, RoomKeeps
<1>7. 0 \notin OpId
  BY DEF OpId
<1>8. faults' >= faults
  BY <1>1, SubmissionAssumption DEF Typed
<1> QED
  BY <1>1, <1>2, <1>3, <1>4, <1>5, <1>6, <1>7, <1>8, MtsStep DEF sVars, vVars

\* An operation that has all segments has all of its message.
LEMMA CompleteWhole ==
    ASSUME SubmissionInv, NEW o \in OpId, op[o].complete
    PROVE  /\ 0 \in DOMAIN op[o].segs
           /\ \A m \in Msg : Alone(m) /\ Has(o, m, 0) =>
                  op[o].segs = Whole(m) /\ Orderly(o, m) /\ Has(o, m, Last(m))
<1>1. Single(o) /\ op[o] \in OpRec
  BY Singles DEF SubmissionInv, Typed
<1>2. DOMAIN op[o].segs = 0 .. op[o].last /\ op[o].last \in Nat
  BY <1>1, OpParts DEF Single, OpOK
<1>3. 0 \in DOMAIN op[o].segs
  BY <1>2
<1>4. ASSUME NEW m \in Msg, Alone(m), Has(o, m, 0)
      PROVE  op[o].segs = Whole(m) /\ Orderly(o, m) /\ Has(o, m, Last(m))
  <2>1. Orderly(o, m)
    BY <1>1, <1>4 DEF Single, Owns, Holds
  <2>2. \A k \in DOMAIN op[o].segs : op[o].segs[k] = m
    BY <2>1 DEF Orderly
  <2>3. op[o].last = Last(m)
    BY <1>1, <1>3, <1>4 DEF Single, OpOK, Has
  <2>4. op[o].segs = [k \in DOMAIN op[o].segs |-> op[o].segs[k]]
    <3>1. PICK D \in SUBSET Nat : op[o].segs \in [D -> Msg]
      BY <1>1, OpParts, ZenonT(60)
    <3> QED
      BY <3>1
  <2>5. op[o].segs = Whole(m)
    BY <1>2, <2>2, <2>3, <2>4 DEF Whole
  <2> QED
    BY <1>2, <2>1, <2>2, <2>3, <2>5 DEF Has
<1> QED
  BY <1>3, <1>4

\* The UA's answer has come.
LEMMA AnsweredKeeps ==
    ASSUME SubmissionInv, NEW o \in OpId, aS3S1a(o)
    PROVE  SubmissionInv'
<1>0. Typed /\ Single(o)
  BY Singles DEF SubmissionInv
<1>1. PICK f \in {"spooled", "lost", "dropped"} :
      /\ Heading(o, "resultInd") /\ op[o].st = "s3" /\ Release(o, op[o], f)
      /\ f = "spooled" => op[o].verdict = "send"
      /\ tasks' = Tail(tasks)
      /\ UNCHANGED <<sVars, vVars, uaVars, resultId, restarts>>
      /\ wild' = wild
      /\ IF f = "lost" THEN Fault ELSE NoFault
  BY DEF aS3S1a, Task, Heading, spoolNow
<1>2. QueueStep(o)
  BY <1>1, QueueTail DEF Event
<1>3. wild' \in BOOLEAN /\ faults' \in 0 .. MaxFaults /\ faults' >= faults
      /\ (f = "lost" => faults' > 0)
  BY <1>0, <1>1, NoMoreFaults DEF Typed
<1>4. ASSUME NEW m \in Msg, Alone(m), Has(o, m, Last(m)),
             sAnswer[<<m, Last(m)>>] = {"result"}
      PROVE  o \in vAsked
  <2>1. "resultInd" \in Event
    BY DEF Event
  <2> QED
    BY <1>1, <1>4, <2>1, WholeHeading DEF Live
<1>5. op[o].complete
  BY <1>0, <1>1 DEF Single, OpOK
<1>6. ASSUME f = "spooled", NEW m \in Msg, Alone(m), Has(o, m, 0)
      PROVE  sOutcome[<<m, Last(m)>>] = Outcome(<<m, Last(m)>>, "result")
  <2>1. Done(o)
    BY <1>1, <1>6 DEF SubmissionInv, Truthful
  <2>2. PICK n \in Msg : "success" \in user[n] /\ resultId[<<n, Last(n)>>] = o
    BY <2>1 DEF Done
  <2>3. Has(o, n, Last(n))
    <3>1. o # 0
      BY DEF OpId
    <3>2. <<n, Last(n)>> \in Call
      BY CallIs
    <3>3. Has(o, <<n, Last(n)>>[1], <<n, Last(n)>>[2])
      BY <2>2, <3>1, <3>2 DEF SubmissionInv, Ops, Answers
    <3> QED
      BY <3>3
  <2>4. n = m
    BY <1>5, <1>6, <2>3, CompleteWhole DEF Orderly, Has
  <2>5. ua[m].seg = Last(m) /\ sOutcome[Current(m)] = Outcome(Current(m), "result")
    BY <2>2, <2>4 DEF SubmissionInv, Agent, Informed
  <2> QED
    BY <2>5 DEF Current
<1>7. f = "spooled" =>
        /\ 0 \in DOMAIN op[o].segs
        /\ \A m \in Msg :
              Alone(m) /\ Has(o, m, 0) =>
                 /\ op[o].segs = Whole(m)
                 /\ sOutcome[<<m, Last(m)>>] = Outcome(<<m, Last(m)>>, "result")
  BY <1>5, <1>6, CompleteWhole
<1> QED
  BY <1>1, <1>2, <1>3, <1>4, <1>7, ReleaseKeeps DEF Fates

\* The confirmation of the last segment has come.
LEMMA ConfirmedKeeps ==
    ASSUME SubmissionInv, NEW o \in OpId, aS2S1a(o), op[o].complete
    PROVE  SubmissionInv'
<1>0. Typed /\ Single(o) /\ Served /\ tasks \in Seq(OpId \X Event)
  BY Singles DEF SubmissionInv, Typed
<1>1. PICK f \in {"spooled", "lost"} :
      /\ Heading(o, R) /\ op[o].st = "s2" /\ Release(o, op[o], f)
      /\ tasks' = Tail(tasks)
      /\ UNCHANGED <<sVars, vVars, uaVars, resultId, restarts>>
      /\ wild' = wild
      /\ IF f = "lost" THEN Fault ELSE NoFault
  BY DEF aS2S1a, Task, Heading, spoolNow, R
<1>2. QueueStep(o)
  BY <1>1, QueueTail DEF Event, R
<1>3. wild' \in BOOLEAN /\ faults' \in 0 .. MaxFaults /\ faults' >= faults
      /\ (f = "lost" => faults' > 0)
  BY <1>0, <1>1, NoMoreFaults DEF Typed
<1>6. ASSUME NEW m \in Msg, Alone(m), Has(o, m, 0)
      PROVE  sOutcome[<<m, Last(m)>>] = Outcome(<<m, Last(m)>>, "result")
  <2>1. /\ op[o].segs = Whole(m) /\ Orderly(o, m) /\ Has(o, m, Last(m))
    BY <1>6, CompleteWhole
  <2> DEFINE c == op[o].call
  <2>2. c \in Call /\ c[1] = m /\ Last(m) <= c[2]
    BY <1>0, <1>1, <2>1 DEF Single, OpOK, Orderly, Has
  <2>3. c = <<m, Last(m)>>
    <3>1. c = <<m, c[2]>> /\ c[2] \in 0 .. Last(m) /\ Last(m) \in Nat
      BY <2>2, CallParts
    <3>2. c[2] = Last(m)
      BY <2>2, <3>1
    <3> QED
      BY <3>1, <3>2
  <2>4. c[2] \in DOMAIN op[o].segs
    BY <2>1, <2>3 DEF Has
  <2>5. PICK t \in Shapes("s2", TRUE, sAnswer[c] = {"result"}, sTold[c]) :
            Waiting(tasks, o, t)
    <3>1. PICK t \in Shapes(op[o].st, c[2] \in DOMAIN op[o].segs,
                            sAnswer[c] = {"result"}, sTold[c]) :
             Waiting(tasks, o, t)
      BY <1>1, <2>1 DEF Orderly
    <3>2. (c[2] \in DOMAIN op[o].segs) = TRUE
      BY <2>4
    <3> QED
      BY <1>1, <3>1, <3>2
  <2>6. t \in Seq(Event)
    BY <2>5, ShapesTyped
  <2>7. t # <<>> /\ Head(t) = R
    <3>1. R \in Event
      BY DEF R, Event
    <3> QED
      BY <1>0, <1>1, <2>5, <2>6, <3>1, WaitingTail DEF Heading
  <2>8. sTold[c] = <<"result">>
    BY <2>5, <2>7 DEF Shapes, R, F
  <2> QED
    BY <1>0, <2>2, <2>3, <2>8 DEF Served
<1>7. /\ 0 \in DOMAIN op[o].segs
      /\ \A m \in Msg :
            Alone(m) /\ Has(o, m, 0) =>
               /\ op[o].segs = Whole(m)
               /\ sOutcome[<<m, Last(m)>>] = Outcome(<<m, Last(m)>>, "result")
  BY <1>6, CompleteWhole
<1> QED
  BY <1>1, <1>2, <1>3, <1>7, ReleaseKeeps DEF Fates

\* The shape of what waits after the first event was taken.
LEMMA ShapeTail ==
    ASSUME NEW j \in BOOLEAN, NEW a \in BOOLEAN, NEW told, NEW st, NEW t \in Shapes(st, j, a, told),
           t # <<>>
    PROVE  /\ st = "s2" /\ Head(t) \in {F, R} => Tail(t) \in Shapes("s1", j, a, told)
           /\ st = "s2" /\ Head(t) = I => Tail(t) \in Shapes("s2", j, a, told)
           /\ st = "s1" /\ Head(t) = I =>
                 ~ j /\ Tail(t) = IF told = <<>> THEN <<>> ELSE <<F>>
<1>0. /\ F # R /\ F # I /\ R # I
      /\ F \in Event /\ R \in Event /\ I \in Event
  BY DEF F, R, I, Event
<1> HIDE DEF F, R, I
<1>1. /\ Tail(<<F>>) = <<>> /\ Tail(<<R>>) = <<>> /\ Tail(<<I>>) = <<>>
      /\ Tail(<<F, F>>) = <<F>> /\ Tail(<<I, F>>) = <<F>>
      /\ Tail(<<R, I>>) = <<I>> /\ Tail(<<F, I>>) = <<I>>
      /\ Tail(<<R, I, F>>) = <<I, F>> /\ Tail(<<F, I, F>>) = <<I, F>>
  BY <1>0, ShortQueues
<1>2. /\ Head(<<F>>) = F /\ Head(<<R>>) = R /\ Head(<<I>>) = I
      /\ Head(<<F, F>>) = F /\ Head(<<I, F>>) = I
      /\ Head(<<R, I>>) = R /\ Head(<<F, I>>) = F
      /\ Head(<<R, I, F>>) = R /\ Head(<<F, I, F>>) = F
  BY <1>0, ShortQueues
<1>3. CASE st = "s2" /\ j /\ a
  <2>1. t \in {<<R>>, <<F>>} /\ told # <<>>
    BY <1>3 DEF Shapes
  <2>2. <<>> \in Shapes("s1", j, a, told)
    BY <1>3, <2>1 DEF Shapes
  <2> QED
    BY <1>0, <1>1, <1>2, <1>3, <2>1, <2>2
<1>4. CASE st = "s2" /\ j /\ ~ a
  <2>1. t = IF told = <<>> THEN <<F>> ELSE <<F, F>>
    BY <1>4 DEF Shapes
  <2>2. (IF told = <<>> THEN <<>> ELSE <<F>>) \in Shapes("s1", j, a, told)
    BY <1>4 DEF Shapes
  <2> QED
    BY <1>0, <1>1, <1>2, <1>4, <2>1, <2>2
<1>5. CASE st = "s2" /\ ~ j /\ told = <<>>
  <2>1. t \in {<<I>>, <<R, I>>, <<F, I>>}
    BY <1>5 DEF Shapes
  <2>2. <<I>> \in Shapes("s1", j, a, told) /\ <<>> \in Shapes("s2", j, a, told)
    BY <1>5 DEF Shapes
  <2> QED
    BY <1>0, <1>1, <1>2, <1>5, <2>1, <2>2
<1>6. CASE st = "s2" /\ ~ j /\ told # <<>>
  <2>1. t \in {<<F>>, <<I, F>>, <<R, I, F>>, <<F, I, F>>}
    BY <1>6 DEF Shapes
  <2>2. <<I, F>> \in Shapes("s1", j, a, told) /\ <<>> \in Shapes("s1", j, a, told)
    BY <1>6 DEF Shapes
  <2>3. <<F>> \in Shapes("s2", j, a, told)
    BY <1>6 DEF Shapes
  <2> QED
    BY <1>0, <1>1, <1>2, <1>6, <2>1, <2>2, <2>3
<1>7. CASE st = "s1" /\ j
  <2>1. t = <<F>>
    BY <1>7 DEF Shapes
  <2> QED
    BY <1>0, <1>2, <1>7, <2>1
<1>8. CASE st = "s1" /\ ~ j
  <2>1. t = IF told = <<>> THEN <<I>> ELSE <<I, F>>
    BY <1>8 DEF Shapes
  <2> QED
    BY <1>0, <1>1, <1>2, <1>8, <2>1
<1>9. CASE st \notin {"s1", "s2"}
  BY <1>9
<1> QED
  BY <1>3, <1>4, <1>5, <1>6, <1>7, <1>8, <1>9

\* What waits for the operation of a message, after its first event was taken.
LEMMA HeadShape ==
    ASSUME SubmissionInv, NEW o \in OpId, NEW m \in Msg, Alone(m), Owns(o, m),
           op[o].st \in {"s1", "s2"}, NEW ev \in Event, Heading(o, ev)
    PROVE  LET c == op[o].call
           IN  \E t \in Shapes(op[o].st, c[2] \in DOMAIN op[o].segs,
                               sAnswer[c] = {"result"}, sTold[c]) :
                  /\ t # <<>> /\ Head(t) = ev
                  /\ Tail(t) \in Seq(Event) /\ Waiting(Tail(tasks), o, Tail(t))
<1>0. tasks \in Seq(OpId \X Event)
  BY DEF SubmissionInv, Typed
<1>1. Orderly(o, m)
  BY DEF SubmissionInv, Order
<1>2. PICK t \in Shapes(op[o].st, op[o].call[2] \in DOMAIN op[o].segs,
                        sAnswer[op[o].call] = {"result"}, sTold[op[o].call]) :
          Waiting(tasks, o, t)
  BY <1>1 DEF Orderly
<1>3. t \in Seq(Event)
  BY <1>2, ShapesTyped
<1>4. t # <<>> /\ Head(t) = ev /\ Waiting(Tail(tasks), o, Tail(t))
  BY <1>0, <1>2, <1>3, WaitingTail DEF Heading
<1> QED
  BY <1>2, <1>3, <1>4

\* A step that leaves operation o in use.
LEMMA MoveKeeps ==
    ASSUME SubmissionInv, NEW o \in OpId, NEW q \in OpRec, op' = [op EXCEPT ![o] = q],
           op[o].st \in Live, q.st \in Live, q.verdict = op[o].verdict,
           active' = active, QueueStep(o), MtsFrame, STyped', Served', sTold' = sTold,
           \A d \in Call : d # op[o].call => sAnswer'[d] = sAnswer[d],
           resultId' \in [Call -> {0} \cup OpId],
           \A c \in Call : sAnswer[c] = {"result"} => resultId'[c] = resultId[c],
           vAsked \subseteq vAsked', vAsked' \subseteq vAsked \cup {o},
           UNCHANGED <<vRuns, vAnswer, vOutcome, vTold, wild>>,
           faults' \in 0 .. MaxFaults, faults' >= faults,
           OneHolder', Answers', OpOK(o)', Account(o)',
           \A m \in Msg : Alone(m) /\ Owns(o, m)' => Orderly(o, m)',
           o \in vAsked' => q.st \notin {"s1", "s2"}
    PROVE  SubmissionInv'
<1>1. Typed /\ ActiveOK /\ OneHolder /\ Single(o) /\ Verified
  BY Singles DEF SubmissionInv, Ops
<1>2. /\ op'[o] = q /\ op' \in [OpId -> OpRec]
      /\ \A p \in OpId \ {o} : op'[p] = op[p]
  BY <1>1 DEF Typed
<1>3. tasks' \in Seq(OpId \X Event)
  BY <1>1, QueueTyped
<1>4. Typed'
  <2>1. /\ vAsked' \subseteq OpId
        /\ vOutcome' \in [OpId -> Seq([kind : {"refused", "send", "drop", "garbled",
                                               "error", "failure"}, op : OpId])]
        /\ vTold' \in [OpId -> Seq({"send", "drop", "garbled", "error", "failure"})]
        /\ active' \in Seq(OpId) /\ wild' \in BOOLEAN
    BY <1>1 DEF Typed
  <2> QED
    BY <1>1, <1>2, <1>3, <2>1, MtsTyped DEF MtsFrame
<1>5. ActiveOK'
  <2>1. ASSUME NEW p \in OpId
        PROVE  op'[p].st \in Live <=> \E i \in 1 .. Len(active') : active'[i] = p
    BY <1>1, <1>2 DEF ActiveOK
  <2> QED
    BY <1>1, <2>1 DEF ActiveOK
<1>6. Room'
  <2>1. \A p \in OpId : op'[p].st = "none" <=> op[p].st = "none"
    BY <1>2 DEF Live
  <2> QED
    BY <2>1, RoomKeeps DEF MtsFrame
<1>7. ASSUME NEW p \in OpId \ {o}, NEW c \in Call, Holds(p, c)
      PROVE  sAnswer'[c] = sAnswer[c]
  <2>1. c # op[o].call
    BY <1>1, <1>7 DEF OneHolder, Holds
  <2> QED
    BY <2>1
<1>8. Single(o)'
  <2>1. op'[o].fate = "none"
    BY <1>2 DEF OpOK, Live
  <2>2. Pass(o)'
    BY <2>1 DEF Pass
  <2>3. \A m \in Msg : Alone(m)' <=> Alone(m)
    BY MtsFrameKeeps
  <2> QED
    BY <2>1, <2>2, <2>3 DEF Single
<1>9. /\ vOutcome'[o] # <<>> => o \in vAsked'
      /\ o \in vAsked' => op'[o].st \notin {"none", "s1", "s2"}
      /\ op'[o].verdict = "send" => op[o].verdict = "send" \/ "send" \in vAnswer[o]
  BY <1>1, <1>2 DEF Verified, Live
<1> QED
  BY <1>2, <1>4, <1>5, <1>6, <1>7, <1>8, <1>9, MtsStep

\* After any but the last segment the operation waits for the next one.
LEMMA WaitKeeps ==
    ASSUME SubmissionInv, NEW o \in OpId, NEW ev \in {F, R}, Heading(o, ev),
           op[o].st = "s2", ~ op[o].complete, Moved(o, op[o], "s1"),
           tasks' = Tail(tasks),
           UNCHANGED <<sVars, vVars, uaVars, resultId, restarts, wild, faults>>
    PROVE  SubmissionInv'
<1>1. PICK q : /\ op' = [op EXCEPT ![o] = q] /\ active' = active
               /\ q \in OpRec /\ q.st = "s1" /\ SameData(q, op[o])
               /\ q.timer = op[o].timer /\ q.fate = op[o].fate
  <2>1. op[o] \in OpRec /\ op \in [OpId -> OpRec]
    BY DEF SubmissionInv, Typed
  <2> QED
    BY <2>1, MovedTo
<1>2. op'[o] = q /\ \A p \in OpId \ {o} : op'[p] = op[p]
  BY <1>1 DEF SubmissionInv, Typed
<1>3. ev \in Event /\ QueueStep(o)
  <2>1. ev \in Event
    BY DEF F, R, Event
  <2> QED
    BY <2>1, QueueTail
<1>4. MtsFrame /\ STyped' /\ Served'
  BY DEF SubmissionInv, Typed, STyped, Served, MtsFrame, Kept, sVars, uaVars
<1>5. OneHolder' /\ Answers'
  <2>1. \A p \in OpId : op'[p].call = op[p].call /\ op'[p].segs = op[p].segs
    BY <1>1, <1>2 DEF SameData
  <2> QED
    BY <2>1, HoldersStay DEF sVars
<1>6. OpOK(o)'
  <2>1. OpOK(o)
    BY DEF SubmissionInv, Ops
  <2>2. sRuns' = sRuns /\ seqOf' = seqOf
    BY DEF sVars, uaVars
  <2> QED
    BY <1>1, <1>2, <2>1, <2>2 DEF OpOK, SameData
<1>7. Account(o)'
  <2> SUFFICES ASSUME NEW m \in Msg, Alone(m)', Has(o, m, Last(m))',
                      sAnswer'[<<m, Last(m)>>] = {"result"}
               PROVE  FALSE
    BY DEF Account
  <2>1. Alone(m) /\ Has(o, m, Last(m)) /\ sAnswer[<<m, Last(m)>>] = {"result"}
    BY <1>1, <1>2 DEF Has, Alone, SameData, sVars, uaVars
  <2> QED
    BY <2>1, WholeInHand DEF Live
<1>8. ASSUME NEW m \in Msg, Alone(m), Owns(o, m)' PROVE Orderly(o, m)'
  <2>1. Owns(o, m)
    BY <1>1, <1>2, <1>8 DEF Owns, Holds, Has, SameData
  <2>2. Orderly(o, m)
    BY <1>8, <2>1 DEF SubmissionInv, Order
  <2> DEFINE c == op[o].call
  <2>3. PICK t \in Shapes("s2", c[2] \in DOMAIN op[o].segs,
                          sAnswer[c] = {"result"}, sTold[c]) :
            t # <<>> /\ Head(t) = ev /\ Waiting(Tail(tasks), o, Tail(t))
    BY <1>3, <1>8, <2>1, HeadShape
  <2>4. Tail(t) \in Shapes("s1", c[2] \in DOMAIN op[o].segs,
                           sAnswer[c] = {"result"}, sTold[c])
    <3>0. PICK j \in BOOLEAN : j <=> (c[2] \in DOMAIN op[o].segs)
      OBVIOUS
    <3>1. PICK a \in BOOLEAN : a <=> (sAnswer[c] = {"result"})
      OBVIOUS
    <3>2. t \in Shapes("s2", j, a, sTold[c])
      BY <2>3, <3>0, <3>1
    <3>3. Tail(t) \in Shapes("s1", j, a, sTold[c])
      BY <1>1, <2>3, <3>2, ShapeTail
    <3> QED
      BY <3>0, <3>1, <3>3
  <2>5. /\ op'[o].st = "s1" /\ op'[o].call = c /\ op'[o].segs = op[o].segs
        /\ sAnswer' = sAnswer /\ sTold' = sTold /\ tasks' = Tail(tasks)
    BY <1>1, <1>2 DEF SameData, sVars
  <2> HIDE DEF c
  <2> QED
    BY <1>8, <2>2, <2>3, <2>4, <2>5 DEF Orderly, c
<1>9. o \notin vAsked
  BY DEF SubmissionInv, Verified
<1>10. faults' \in 0 .. MaxFaults /\ faults' >= faults
  BY SubmissionAssumption DEF SubmissionInv, Typed
<1>11. resultId' \in [Call -> {0} \cup OpId]
  BY DEF SubmissionInv, Typed
<1> QED
  BY <1>1, <1>3, <1>4, <1>5, <1>6, <1>7, <1>8, <1>9, <1>10, <1>11, MoveKeeps
     DEF Live, SameData, sVars, vVars

\* A segment that comes before the confirmation of the one before it.
LEMMA EarlyKeeps ==
    ASSUME SubmissionInv, NEW o \in OpId, aS2S2a(o)
    PROVE  SubmissionInv'
<1>1. /\ Heading(o, I) /\ I \in Event /\ op[o].st = "s2" /\ tasks' = Tail(tasks)
      /\ UNCHANGED <<sVars, vVars, uaVars, op, active, resultId, restarts, wild, faults>>
  BY DEF aS2S2a, Task, Heading, I, Event
<1>2. op[o] \in OpRec /\ op' = [op EXCEPT ![o] = op[o]]
  BY <1>1 DEF SubmissionInv, Typed
<1>3. QueueStep(o)
  BY <1>1, QueueTail
<1>4. MtsFrame /\ STyped' /\ Served'
  BY <1>1 DEF SubmissionInv, Typed, STyped, Served, MtsFrame, Kept, sVars, uaVars
<1>5. OneHolder' /\ Answers'
  BY <1>1, HoldersStay DEF sVars
<1>6. OpOK(o)'
  BY <1>1 DEF SubmissionInv, Ops, OpOK, sVars, uaVars
<1>7. Account(o)'
  <2> SUFFICES ASSUME NEW m \in Msg, Alone(m)', Has(o, m, Last(m))',
                      sAnswer'[<<m, Last(m)>>] = {"result"}
               PROVE  (op[o].segs = Whole(m) /\ op[o].complete /\ op[o].st = "s2")'
    BY DEF Account
  <2>1. Alone(m) /\ Has(o, m, Last(m)) /\ sAnswer[<<m, Last(m)>>] = {"result"}
    BY <1>1 DEF Has, Alone, sVars, uaVars
  <2>2. op[o].segs = Whole(m) /\ op[o].complete
    BY <1>1, <2>1, WholeInHand DEF Live
  <2> QED
    BY <1>1, <2>2 DEF Whole
<1>8. ASSUME NEW m \in Msg, Alone(m), Owns(o, m)' PROVE Orderly(o, m)'
  <2>1. Owns(o, m)
    BY <1>1, <1>8 DEF Owns, Holds, Has
  <2>2. Orderly(o, m)
    BY <1>8, <2>1 DEF SubmissionInv, Order
  <2> DEFINE c == op[o].call
  <2>3. PICK t \in Shapes("s2", c[2] \in DOMAIN op[o].segs,
                          sAnswer[c] = {"result"}, sTold[c]) :
            t # <<>> /\ Head(t) = I /\ Waiting(Tail(tasks), o, Tail(t))
    BY <1>1, <1>8, <2>1, HeadShape
  <2>4. Tail(t) \in Shapes("s2", c[2] \in DOMAIN op[o].segs,
                           sAnswer[c] = {"result"}, sTold[c])
    <3>0. PICK j \in BOOLEAN : j <=> (c[2] \in DOMAIN op[o].segs)
      OBVIOUS
    <3>1. PICK a \in BOOLEAN : a <=> (sAnswer[c] = {"result"})
      OBVIOUS
    <3>2. t \in Shapes("s2", j, a, sTold[c])
      BY <2>3, <3>0, <3>1
    <3>3. Tail(t) \in Shapes("s2", j, a, sTold[c])
      BY <1>1, <2>3, <3>2, ShapeTail
    <3> QED
      BY <3>0, <3>1, <3>3
  <2>5. op' = op /\ sAnswer' = sAnswer /\ sTold' = sTold /\ tasks' = Tail(tasks)
    BY <1>1 DEF sVars
  <2> HIDE DEF c
  <2> QED
    BY <1>1, <1>8, <2>2, <2>3, <2>4, <2>5 DEF Orderly, c
<1>9. o \notin vAsked
  BY <1>1 DEF SubmissionInv, Verified
<1>10. faults' \in 0 .. MaxFaults /\ faults' >= faults
  BY <1>1, SubmissionAssumption DEF SubmissionInv, Typed
<1>11. resultId' \in [Call -> {0} \cup OpId]
  BY <1>1 DEF SubmissionInv, Typed
<1> QED
  BY <1>1, <1>2, <1>3, <1>4, <1>5, <1>6, <1>7, <1>8, <1>9, <1>10, <1>11, MoveKeeps
     DEF Live, sVars, vVars

\* The question is sent, or cannot be.
LEMMA AskKeeps ==
    ASSUME SubmissionInv, NEW o \in OpId, Heading(o, F), op[o].st = "s2", op[o].complete,
           NEW r, r = op[o] \/ r = [op[o] EXCEPT !.call = <<o>>], Moved(o, r, "s3"),
           r = op[o] => vAsked' = vAsked,
           r # op[o] => vAsked' = vAsked \cup {o},
           tasks' = Tail(tasks), faults' \in 0 .. MaxFaults, faults' >= faults,
           UNCHANGED <<sVars, vRuns, vAnswer, vOutcome, vTold, uaVars, resultId,
                       restarts, wild>>
    PROVE  SubmissionInv'
<1>0. /\ op[o] \in OpRec /\ op \in [OpId -> OpRec] /\ OpOK(o)
      /\ F \in Event /\ tasks \in Seq(OpId \X Event)
  BY DEF SubmissionInv, Typed, Ops, F, Event
<1>1. PICK q : /\ op' = [op EXCEPT ![o] = q] /\ active' = active
               /\ q \in OpRec /\ q.st = "s3" /\ q.call \in {op[o].call, <<o>>}
               /\ q.segs = op[o].segs /\ q.complete = op[o].complete
               /\ q.seq = op[o].seq /\ q.last = op[o].last
               /\ q.timer = op[o].timer /\ q.fate = op[o].fate
               /\ q.verdict = op[o].verdict
  <2>1. /\ r \in OpRec /\ r.call \in {op[o].call, <<o>>}
        /\ r.segs = op[o].segs /\ r.complete = op[o].complete
        /\ r.seq = op[o].seq /\ r.last = op[o].last
        /\ r.timer = op[o].timer /\ r.fate = op[o].fate
        /\ r.verdict = op[o].verdict
    <3>1. CASE r = op[o]
      BY <1>0, <3>1
    <3>2. CASE r = [op[o] EXCEPT !.call = <<o>>]
      <4>1. op[o] \in OpRec /\ <<o>> \in {<<p>> : p \in OpId}
        BY <1>0
      <4> QED
        BY ONLY <3>2, <4>1 DEF OpRec
    <3> QED
      BY <3>1, <3>2
  <2>2. PICK z : /\ op' = [op EXCEPT ![o] = z] /\ active' = active
                 /\ z \in OpRec /\ z.st = "s3" /\ SameData(z, r)
                 /\ z.timer = r.timer /\ z.fate = r.fate
    BY <1>0, <2>1, MovedTo
  <2> QED
    BY <2>1, <2>2, ZenonT(60) DEF SameData
<1>2. op'[o] = q /\ \A p \in OpId \ {o} : op'[p] = op[p]
  BY <1>0, <1>1
<1>3. QueueStep(o)
  BY <1>0, QueueTail
<1>4. MtsFrame /\ STyped' /\ Served'
  BY DEF SubmissionInv, Typed, STyped, Served, MtsFrame, Kept, sVars, uaVars
<1>5. OneHolder' /\ Answers'
  <2>1. \A p \in OpId : /\ op'[p].call \in Call => op'[p].call = op[p].call
                        /\ op'[p].segs = op[p].segs
    BY <1>1, <1>2, QuestionNoCall
  <2> QED
    BY <2>1, HoldersStay DEF sVars
<1>6. OpOK(o)'
  <2>1. sRuns' = sRuns /\ seqOf' = seqOf
    BY DEF sVars, uaVars
  <2>2. \A p \in OpId : q.call = <<p>> => p = o
    BY <1>0, <1>1 DEF OpOK
  <2> QED
    <3>1. <<o>> \notin Call
      BY QuestionNoCall
    <3>2. q.call \in Call => q.call = op[o].call
      BY <1>1, <3>1
    <3>3. /\ q.call \in Call => sRuns[q.call] = 1
          /\ q.call \in Call /\ q.call[2] > 0 => seqOf[q.call[1]] = q.seq
          /\ q.call \in Call /\ q.call[2] = 0 =>
                \A k \in DOMAIN q.segs : k = 0 /\ q.segs[k] = q.call[1]
      BY <1>0, <1>1, <3>2 DEF OpOK
    <3>4. /\ \A k \in DOMAIN q.segs :
                /\ <<q.segs[k], k>> \in Call
                /\ sRuns[<<q.segs[k], k>>] = 1
                /\ 0 \in DOMAIN q.segs
          /\ 0 \in DOMAIN q.segs => q.last = Last(q.segs[0])
          /\ \A k \in DOMAIN q.segs : seqOf[q.segs[k]] = q.seq
      BY <1>0, <1>1 DEF OpOK
    <3>5. /\ q.complete <=> q.segs # <<>> /\ DOMAIN q.segs = 0 .. q.last
          /\ q.complete /\ ~ q.timer /\ q.fate = "none"
          /\ q.seq # 0 => 0 \in DOMAIN q.segs
      BY <1>0, <1>1 DEF OpOK
    <3> QED
      BY <1>1, <1>2, <2>1, <2>2, <3>3, <3>4, <3>5 DEF OpOK
<1>7. Account(o)'
  <2> SUFFICES ASSUME NEW m \in Msg, Alone(m)', Has(o, m, Last(m))',
                      sAnswer'[<<m, Last(m)>>] = {"result"}
               PROVE  (op[o].segs = Whole(m) /\ op[o].complete /\ op[o].st = "s3"
                       /\ Settling(o))'
    BY DEF Account
  <2>1. Alone(m) /\ Has(o, m, Last(m)) /\ sAnswer[<<m, Last(m)>>] = {"result"}
    BY <1>1, <1>2 DEF Has, Alone, sVars, uaVars
  <2>2. op[o].segs = Whole(m) /\ op[o].complete /\ op[o].call = <<m, Last(m)>>
    BY <2>1, WholeInHand DEF Live
  <2>3. sTold[<<m, Last(m)>>] # <<>> /\ Waiting(tasks', o, <<>>)
    BY <1>0, <2>1, WholeHeading DEF Live
  <2>4. op'[o].call \in Call => sTold'[op'[o].call] # <<>>
    BY <1>1, <1>2, <2>2, <2>3, QuestionNoCall DEF sVars
  <2>5. Settling(o)'
    BY <2>3, <2>4 DEF Settling, Waiting
  <2> QED
    BY <1>1, <1>2, <2>2, <2>5 DEF Whole
<1>8. ASSUME NEW m \in Msg, Alone(m), Owns(o, m)' PROVE Orderly(o, m)'
  <2>1. Owns(o, m)
    <3>1. <<m, 0>> \in Call /\ <<o>> \notin Call
      BY CallIs, QuestionNoCall
    <3>2. op'[o].call = <<m, 0>> => op[o].call = <<m, 0>>
      BY <1>1, <1>2, <3>1
    <3> QED
      BY <1>1, <1>2, <1>8, <3>2 DEF Owns, Holds, Has
  <2>2. Orderly(o, m)
    BY <1>8, <2>1 DEF SubmissionInv, Order
  <2> QED
    BY <1>1, <1>2, <2>2, QuestionNoCall DEF Orderly
<1>11. resultId' \in [Call -> {0} \cup OpId]
  BY DEF SubmissionInv, Typed
<1>12. vAsked \subseteq vAsked' /\ vAsked' \subseteq vAsked \cup {o}
  OBVIOUS
<1> QED
  BY <1>1, <1>3, <1>4, <1>5, <1>6, <1>7, <1>8, <1>11, <1>12, MoveKeeps
     DEF Live, sVars

LEMMA S2Keeps ==
    ASSUME SubmissionInv, NEW o \in OpId, aS2S1a(o) \/ aS2S3a(o)
    PROVE  SubmissionInv'
<1>1. CASE aS2S1a(o) /\ op[o].complete
  BY <1>1, ConfirmedKeeps
<1>2. CASE aS2S1a(o) /\ ~ op[o].complete
  <2>1. /\ Heading(o, R) /\ op[o].st = "s2" /\ Moved(o, op[o], "s1") /\ tasks' = Tail(tasks)
        /\ UNCHANGED <<sVars, vVars, uaVars, resultId, restarts, wild, faults>>
    BY <1>2 DEF aS2S1a, Task, Heading, R, NoFault
  <2> QED
    BY <1>2, <2>1, WaitKeeps
<1>3. CASE aS2S3a(o) /\ ~ op[o].complete
  <2>1. /\ Heading(o, F) /\ op[o].st = "s2" /\ Moved(o, op[o], "s1") /\ tasks' = Tail(tasks)
        /\ UNCHANGED <<sVars, vVars, uaVars, resultId, restarts, wild, faults>>
    BY <1>3 DEF aS2S3a, Task, Heading, F, NoFault
  <2> QED
    BY <1>3, <2>1, WaitKeeps
<1>4. CASE aS2S3a(o) /\ op[o].complete
  <2>0. Typed /\ op[o] \in OpRec /\ op[o].call # <<o>>
    <3>1. op[o].st = "s2"
      BY <1>4 DEF aS2S3a, Task
    <3>2. op[o].call \in Call
      BY <3>1 DEF SubmissionInv, Ops, OpOK
    <3> QED
      BY <3>2, QuestionNoCall DEF SubmissionInv, Typed
  <2>1. /\ Heading(o, F) /\ op[o].st = "s2" /\ tasks' = Tail(tasks)
        /\ UNCHANGED <<sVars, vRuns, vAnswer, vOutcome, vTold, uaVars, resultId,
                       restarts, wild>>
        /\ \/ /\ NoFault /\ vAsked' = vAsked \cup {o}
              /\ Moved(o, [op[o] EXCEPT !.call = <<o>>], "s3")
           \/ Fault /\ vAsked' = vAsked /\ Moved(o, op[o], "s3")
    BY <1>4 DEF aS2S3a, Task, Heading, F, V!Request, vVars
  <2>2. faults' \in 0 .. MaxFaults /\ faults' >= faults
    BY <2>0, <2>1, NoMoreFaults
  <2>3. [op[o] EXCEPT !.call = <<o>>] # op[o]
    <3>1. [op[o] EXCEPT !.call = <<o>>].call = <<o>>
      BY <2>0 DEF OpRec
    <3> QED
      BY <2>0, <3>1
  <2> QED
    BY <1>4, <2>1, <2>2, <2>3, AskKeeps
<1> QED
  BY <1>1, <1>2, <1>3, <1>4

-----------------------------------------------------------------------------
(* Segments that are taken up.                                             *)

\* A segment that is put to those that are there.
LEMMA SegmentAdded ==
    ASSUME NEW D \in SUBSET Nat, NEW f \in [D -> Msg], NEW k \in Nat, NEW m \in Msg,
           NEW g, g = [i \in D \cup {k} |-> IF i = k THEN m ELSE f[i]]
    PROVE  /\ g \in [D \cup {k} -> Msg] /\ g[k] = m
           /\ \A i \in D \ {k} : g[i] = f[i]
OBVIOUS

LEMMA JoinedFacts ==
    ASSUME Typed, NEW o \in OpId, OpOK(o), op[o].call \in Call, Acceptable(op[o]),
           op[o].st \in {"s1", "s2"}
    PROVE  LET r == op[o]
               c == r.call
               j == Joined(r)
           IN  /\ j \in OpRec /\ j.call = c /\ j.verdict = r.verdict /\ j.fate = r.fate
               /\ j.st = r.st
               /\ DOMAIN j.segs = DOMAIN r.segs \cup {c[2]} /\ DOMAIN j.segs \in SUBSET Nat
               /\ j.segs \in [DOMAIN j.segs -> Msg]
               /\ j.segs[c[2]] = c[1]
               /\ \A i \in DOMAIN r.segs : j.segs[i] = r.segs[i]
               /\ 0 \in DOMAIN j.segs
               /\ j.seq = seqOf[c[1]]
               /\ j.last = Last(j.segs[0])
               /\ j.complete <=> DOMAIN j.segs = 0 .. j.last
               /\ j.complete => ~ j.timer
<1> DEFINE r == op[o]
           c == r.call
           m == c[1]
           k == c[2]
           j == Joined(r)
<1>1. /\ m \in Msg /\ k \in 0 .. Last(m) /\ k \in Nat /\ Last(m) \in Nat
      /\ r \in OpRec /\ seqOf \in [Msg -> Nat]
  BY CallParts DEF Typed
<1>2. PICK D \in SUBSET Nat : r.segs \in [D -> Msg] /\ DOMAIN r.segs = D
  <2>1. PICK D \in SUBSET Nat : r.segs \in [D -> Msg]
    BY <1>1, OpParts, ZenonT(60)
  <2> QED
    BY <2>1
<1>3. /\ 0 \in D => r.last = Last(r.segs[0])
      /\ k > 0 => seqOf[m] = r.seq /\ 0 \in D
      /\ k = 0 => \A i \in D : i = 0 /\ r.segs[i] = m
  BY <1>2 DEF OpOK
<1>4. CASE k = 0
  <2>1. j = [r EXCEPT !.seq = seqOf[m], !.last = Last(m), !.segs = [i \in {0} |-> m],
                      !.complete = Last(m) = 0, !.timer = Last(m) > 0]
    BY <1>4 DEF Joined
  <2>2. [i \in {0} |-> m] \in [{0} -> Msg] /\ [i \in {0} |-> m][0] = m
    BY <1>1
  <2>3. \A i \in D : i = 0 /\ r.segs[i] = m
    BY <1>3, <1>4
  <2>4. /\ j \in OpRec /\ j.call = c /\ j.verdict = r.verdict /\ j.fate = r.fate
        /\ j.st = r.st /\ j.segs = [i \in {0} |-> m] /\ j.seq = seqOf[m] /\ j.last = Last(m)
        /\ j.complete = (Last(m) = 0) /\ j.timer = (Last(m) > 0)
    <3>1. [i \in {0} |-> m] \in UNION {[X -> Msg] : X \in SUBSET Nat}
      <4>1. {0} \in SUBSET Nat
        OBVIOUS
      <4>2. PICK y : y = [i \in {0} |-> m]
        OBVIOUS
      <4>3. y \in [{0} -> Msg]
        BY <1>1, <4>2
      <4>4. y \in UNION {[X -> Msg] : X \in SUBSET Nat}
        BY <4>1, <4>3
      <4> QED
        BY <4>2, <4>4
    <3>2. seqOf[m] \in Nat /\ Last(m) \in Nat /\ r \in OpRec
      BY <1>1
    <3>3. (Last(m) = 0) \in BOOLEAN /\ (Last(m) > 0) \in BOOLEAN
      OBVIOUS
    <3>4. PICK x, y, b, d : x = seqOf[m] /\ y = [i \in {0} |-> m] /\ b = (Last(m) = 0) /\ d = (Last(m) > 0)
      OBVIOUS
    <3>5. PICK z : z = Last(m)
      OBVIOUS
    <3>6. /\ j = [r EXCEPT !.seq = x, !.last = z, !.segs = y, !.complete = b, !.timer = d]
          /\ x \in Nat /\ z \in Nat /\ b \in BOOLEAN /\ d \in BOOLEAN
          /\ y \in UNION {[X -> Msg] : X \in SUBSET Nat}
      BY <2>1, <3>1, <3>2, <3>3, <3>4, <3>5
    <3> HIDE DEF j, r, m, k, c
    <3>7. /\ j \in OpRec /\ j.call = r.call /\ j.verdict = r.verdict /\ j.fate = r.fate
          /\ j.st = r.st /\ j.segs = y /\ j.seq = x /\ j.last = z
          /\ j.complete = b /\ j.timer = d
      BY ONLY <3>2, <3>6 DEF OpRec
    <3> QED
      BY <3>4, <3>5, <3>7 DEF c
  <2>5. DOMAIN [i \in {0} |-> m] = {0}
    BY <2>2
  <2>6. D \subseteq {0}
    BY <2>3
  <2>7. Last(m) = 0 <=> {0} = 0 .. Last(m)
    BY <1>1
  <2>8. Last(m) = 0 => ~ (Last(m) > 0)
    BY <1>1
  <2>9. j.complete => ~ j.timer
    BY <2>4, <2>8
  <2>10. j.complete <=> DOMAIN j.segs = 0 .. j.last
    BY <2>4, <2>5, <2>7
  <2>11. DOMAIN j.segs = DOMAIN r.segs \cup {k} /\ DOMAIN j.segs = {0}
    BY <1>2, <1>4, <2>4, <2>5, <2>6
  <2>12. \A i \in DOMAIN r.segs : j.segs[i] = r.segs[i]
    BY <1>2, <2>2, <2>3, <2>4
  <2>13. j.segs[0] = m /\ j.segs \in [{0} -> Msg] /\ {0} \in SUBSET Nat
    BY <2>2, <2>4
  <2> HIDE DEF j
  <2> QED
    BY <1>4, <2>4, <2>9, <2>10, <2>11, <2>12, <2>13 DEF j
<1>5. CASE k > 0
  <2> DEFINE sg == [i \in DOMAIN r.segs \cup {k} |-> IF i = k THEN m ELSE r.segs[i]]
             all == DOMAIN sg = 0 .. r.last
  <2>1. j = [r EXCEPT !.segs = sg, !.complete = all, !.timer = r.timer /\ ~ all]
    BY <1>5 DEF Joined
  <2>2. /\ sg \in [D \cup {k} -> Msg] /\ sg[k] = m
        /\ \A i \in D \ {k} : sg[i] = r.segs[i]
    BY <1>1, <1>2, SegmentAdded
  <2>3. k \notin D /\ 0 \in D
    BY <1>2, <1>3, <1>5 DEF Acceptable
  <2>4. /\ j \in OpRec /\ j.call = c /\ j.verdict = r.verdict /\ j.fate = r.fate
        /\ j.st = r.st /\ j.segs = sg /\ j.seq = r.seq /\ j.last = r.last
        /\ j.complete = all /\ j.timer = (r.timer /\ ~ all)
    <3>1. sg \in UNION {[X -> Msg] : X \in SUBSET Nat}
      <4>1. D \cup {k} \in SUBSET Nat
        BY <1>1
      <4> QED
        BY <2>2, <4>1
    <3>2. all \in BOOLEAN /\ (r.timer /\ ~ all) \in BOOLEAN
      OBVIOUS
    <3>3. PICK y, b, d : y = sg /\ b = all /\ d = (r.timer /\ ~ all)
      OBVIOUS
    <3>4. /\ j = [r EXCEPT !.segs = y, !.complete = b, !.timer = d]
          /\ b \in BOOLEAN /\ d \in BOOLEAN /\ r \in OpRec
          /\ y \in UNION {[X -> Msg] : X \in SUBSET Nat}
      BY <1>1, <2>1, <3>1, <3>2, <3>3
    <3> HIDE DEF j, r, m, k, sg, all, c
    <3>5. /\ j \in OpRec /\ j.call = r.call /\ j.verdict = r.verdict /\ j.fate = r.fate
          /\ j.st = r.st /\ j.segs = y /\ j.seq = r.seq /\ j.last = r.last
          /\ j.complete = b /\ j.timer = d
      BY ONLY <3>4 DEF OpRec
    <3> QED
      BY <3>3, <3>5 DEF c
  <2>5. DOMAIN sg = D \cup {k} /\ D \cup {k} \in SUBSET Nat
    BY <1>1, <2>2
  <2>6. j.last = Last(j.segs[0])
    BY <1>3, <1>5, <2>2, <2>3, <2>4
  <2>7. \A i \in DOMAIN r.segs : j.segs[i] = r.segs[i]
    BY <1>2, <2>2, <2>3, <2>4
  <2>8. j.complete => ~ j.timer
    BY <2>4
  <2>9. j.complete <=> DOMAIN j.segs = 0 .. j.last
    BY <2>4
  <2> HIDE DEF j, sg, all
  <2> QED
    BY <1>2, <1>3, <1>5, <2>2, <2>3, <2>4, <2>5, <2>6, <2>7, <2>8, <2>9 DEF j
<1> QED
  BY <1>1, <1>4, <1>5

\* A segment is asked for when those before it were accepted.
LEMMA AskedBefore ==
    ASSUME SubmissionInv, NEW m \in Msg, NEW k \in 0 .. Last(m), <<m, k>> \in sAsked
    PROVE  /\ \A i \in 0 .. Last(m) : i < k => sAnswer[<<m, i>>] = {"result"}
           /\ k > 0 => seqOf[m] > 0
<1>1. Asked(m) /\ Served /\ Last(m) \in Nat
  BY CallIs DEF SubmissionInv, Agent
<1>2. k <= ua[m].seg /\ ua[m].st # "new" /\ ua[m].seg \in 0 .. Last(m)
  BY <1>1 DEF Asked
<1>3. ASSUME NEW i \in 0 .. Last(m), i < k PROVE sAnswer[<<m, i>>] = {"result"}
  <2>1. i < ua[m].seg
    BY <1>1, <1>2, <1>3
  <2>2. sOutcome[<<m, i>>] = Outcome(<<m, i>>, "result")
    BY <1>1, <2>1 DEF Asked
  <2>3. <<m, i>> \in Call
    BY CallIs
  <2> QED
    BY <1>1, <2>2, <2>3 DEF Served
<1>4. k > 0 => seqOf[m] > 0
  BY <1>1, <1>2 DEF Asked
<1> QED
  BY <1>3, <1>4

\* An operation with the sequence id of a message has its first segment.
LEMMA SequenceOwned ==
    ASSUME SubmissionInv, NEW o \in OpId, 0 \in DOMAIN op[o].segs,
           NEW m \in Msg, Alone(m), seqOf[m] = op[o].seq, seqOf[m] # 0
    PROVE  Has(o, m, 0)
<1>1. OpOK(o)
  BY DEF SubmissionInv, Ops
<1>2. /\ op[o].segs[0] \in Msg /\ seqOf[op[o].segs[0]] = op[o].seq
  <2>1. <<op[o].segs[0], 0>> \in Call
    BY <1>1 DEF OpOK
  <2>2. op[o].segs[0] \in Msg
    BY <2>1, CallParts
  <2> QED
    BY <1>1, <2>2 DEF OpOK
<1>3. op[o].segs[0] = m
  BY <1>2 DEF Alone
<1> QED
  BY <1>3 DEF Has

\* All segments of a message are in one operation.
LEMMA OneOperation ==
    ASSUME SubmissionInv, NEW o \in OpId, NEW m \in Msg, NEW k, Alone(m), Has(o, m, k)
    PROVE  /\ Has(o, m, 0) /\ Owns(o, m)
           /\ k \in 0 .. Last(m)
<1>1. OpOK(o) /\ Served
  BY DEF SubmissionInv, Ops
<1>2. /\ <<m, k>> \in Call /\ sRuns[<<m, k>>] = 1 /\ 0 \in DOMAIN op[o].segs
      /\ seqOf[m] = op[o].seq
  BY <1>1 DEF OpOK, Has
<1>3. k \in 0 .. Last(m) /\ Last(m) \in Nat /\ <<m, k>> \in sAsked
  <2>1. <<m, k>>[2] \in 0 .. Last(<<m, k>>[1]) /\ Last(<<m, k>>[1]) \in Nat
    BY <1>2, CallParts
  <2> QED
    BY <1>1, <1>2, <2>1 DEF Served
<1>4. CASE k = 0
  BY <1>3, <1>4 DEF Owns, Holds
<1>5. CASE k # 0
  <2>1. seqOf[m] # 0
    BY <1>3, <1>5, AskedBefore
  <2>2. Has(o, m, 0)
    BY <1>2, <2>1, SequenceOwned
  <2> QED
    BY <1>3, <2>2 DEF Owns, Holds
<1> QED
  BY <1>4, <1>5

\* What was answered with a result is in the operation that has the message.
LEMMA AnsweredHeld ==
    ASSUME SubmissionInv, NEW o \in OpId, NEW m \in Msg, Alone(m), Owns(o, m),
           NEW k \in 0 .. Last(m), sAnswer[<<m, k>>] = {"result"}
    PROVE  Has(o, m, k)
<1>1. <<m, k>> \in Call /\ <<m, 0>> \in Call
  BY CallIs
<1>2. PICK p \in OpId : Has(p, m, k)
  <2>1. \E p \in OpId : Has(p, <<m, k>>[1], <<m, k>>[2])
    BY <1>1 DEF SubmissionInv, Ops, Answers
  <2> QED
    BY <2>1
<1>3. Owns(p, m)
  BY <1>2, OneOperation
<1>4. p = o
  BY <1>1, <1>3 DEF SubmissionInv, Ops, OneHolder, Owns
<1> QED
  BY <1>2, <1>4

\* The operation a segment was handed to, when it is about to take it up.
LEMMA AboutToJoin ==
    ASSUME SubmissionInv, NEW o \in OpId, op[o].st = "s1", Heading(o, I),
           NEW m \in Msg, Alone(m), Owns(o, m)
    PROVE  LET c == op[o].call
           IN  /\ c \in Call /\ c[1] = m /\ Orderly(o, m)
               /\ c[2] \notin DOMAIN op[o].segs
               /\ sAnswer[c] = {} /\ sTold[c] \in {<<>>, <<F>>}
               /\ Waiting(Tail(tasks), o, IF sTold[c] = <<>> THEN <<>> ELSE <<F>>)
<1> DEFINE c == op[o].call
<1>1. c \in Call /\ Orderly(o, m)
  BY DEF SubmissionInv, Ops, OpOK, Order
<1>2. I \in Event
  BY DEF I, Event
<1>3. PICK t \in Shapes("s1", c[2] \in DOMAIN op[o].segs,
                        sAnswer[c] = {"result"}, sTold[c]) :
          t # <<>> /\ Head(t) = I /\ Waiting(Tail(tasks), o, Tail(t))
  BY <1>2, HeadShape
<1>4. /\ ~ (c[2] \in DOMAIN op[o].segs)
      /\ Tail(t) = IF sTold[c] = <<>> THEN <<>> ELSE <<F>>
  <2>1. PICK j \in BOOLEAN : j <=> (c[2] \in DOMAIN op[o].segs)
    OBVIOUS
  <2>2. PICK a \in BOOLEAN : a <=> (sAnswer[c] = {"result"})
    OBVIOUS
  <2>3. t \in Shapes("s1", j, a, sTold[c])
    BY <1>3, <2>1, <2>2
  <2>4. ~ j /\ Tail(t) = IF sTold[c] = <<>> THEN <<>> ELSE <<F>>
    BY <1>3, <2>3, ShapeTail
  <2> QED
    BY <2>1, <2>4
<1> QED
  BY <1>1, <1>3, <1>4 DEF Orderly, F

\* The segment that is taken up was handed to the operation.
LEMMA SegmentHeld ==
    ASSUME SubmissionInv, NEW o \in OpId, NEW q \in OpRec, op' = [op EXCEPT ![o] = q],
           op[o].call \in Call, q.call = op[o].call,
           \/ q.segs = op[o].segs
           \/ /\ DOMAIN q.segs = DOMAIN op[o].segs \cup {q.call[2]}
              /\ q.segs[q.call[2]] = q.call[1]
              /\ \A i \in DOMAIN op[o].segs : q.segs[i] = op[o].segs[i]
    PROVE  /\ op'[o] = q /\ op' \in [OpId -> OpRec] /\ \A p \in OpId \ {o} : op'[p] = op[p]
           /\ \A p \in OpId : \A m, k : Has(p, m, k) => Has(p, m, k)'
           /\ \A p \in OpId, c \in Call : Holds(p, c)' => Holds(p, c)
           /\ OneHolder'
<1>1. /\ op'[o] = q /\ op' \in [OpId -> OpRec] /\ \A p \in OpId \ {o} : op'[p] = op[p]
  BY DEF SubmissionInv, Typed
<1>2. ASSUME NEW p \in OpId, NEW m, NEW k, Has(p, m, k) PROVE Has(p, m, k)'
  BY <1>1, <1>2 DEF Has
<1>3. ASSUME NEW p \in OpId, NEW c \in Call, Holds(p, c)' PROVE Holds(p, c)
  <2>1. CASE p # o
    BY <1>1, <1>3, <2>1 DEF Holds, Has
  <2>2. CASE p = o /\ q.segs = op[o].segs
    BY <1>1, <1>3, <2>2 DEF Holds, Has
  <2>3. CASE /\ p = o
             /\ DOMAIN q.segs = DOMAIN op[o].segs \cup {q.call[2]}
             /\ q.segs[q.call[2]] = q.call[1]
             /\ \A i \in DOMAIN op[o].segs : q.segs[i] = op[o].segs[i]
    <3>1. CASE c[2] \in DOMAIN op[o].segs
      BY <1>1, <1>3, <2>3, <3>1 DEF Holds, Has
    <3>2. CASE c[2] \notin DOMAIN op[o].segs
      <4>1. CASE q.call = c
        BY <2>3, <4>1 DEF Holds
      <4>2. CASE q.call # c
        <5>1. c[2] \in DOMAIN q.segs /\ q.segs[c[2]] = c[1]
          BY <1>1, <1>3, <2>3, <4>2 DEF Holds, Has
        <5>2. c[2] = q.call[2] /\ c[1] = q.call[1]
          BY <2>3, <3>2, <5>1
        <5>3. c = <<c[1], c[2]>> /\ q.call = <<q.call[1], q.call[2]>>
          BY CallParts
        <5> QED
          BY <4>2, <5>2, <5>3
      <4> QED
        BY <4>1, <4>2
    <3> QED
      BY <3>1, <3>2
  <2> QED
    BY <2>1, <2>2, <2>3
<1>4. OneHolder'
  BY <1>3 DEF SubmissionInv, Ops, OneHolder
<1> QED
  BY <1>1, <1>2, <1>3, <1>4

\* The operation that is handed a segment of a message has its first one.
LEMMA HandedOwns ==
    ASSUME SubmissionInv, NEW o \in OpId, op[o].st \in {"s1", "s2"},
           NEW m \in Msg, Alone(m), op[o].call[1] = m
    PROVE  Owns(o, m)
<1> DEFINE c == op[o].call
<1>1. OpOK(o) /\ Served
  BY DEF SubmissionInv, Ops
<1>2. /\ c \in Call /\ sRuns[c] = 1 /\ c = <<m, c[2]>> /\ c[2] \in 0 .. Last(m)
      /\ c[2] \in Nat /\ c \in sAsked
  BY <1>1, CallParts DEF OpOK, Served
<1>3. CASE c[2] = 0
  BY <1>2, <1>3 DEF Owns, Holds
<1>4. CASE c[2] # 0
  <2>1. 0 \in DOMAIN op[o].segs /\ seqOf[m] = op[o].seq
    BY <1>1, <1>2, <1>4 DEF OpOK
  <2>2. seqOf[m] # 0
    BY <1>2, <1>4, AskedBefore, SMTT(40)
  <2>3. Has(o, m, 0)
    BY <2>1, <2>2, SequenceOwned
  <2> QED
    BY <2>3 DEF Owns, Holds
<1> QED
  BY <1>3, <1>4

\* The segments of an operation that has taken up the one in its call.
LEMMA JoinedSegments ==
    ASSUME Typed, NEW o \in OpId, OpOK(o), op[o].st = "s1", Acceptable(op[o]),
           NEW j, j = Joined(op[o]), NEW k \in DOMAIN j.segs
    PROVE  LET c == op[o].call
           IN  /\ <<j.segs[k], k>> \in Call /\ sRuns[<<j.segs[k], k>>] = 1
               /\ seqOf[j.segs[k]] = j.seq
               /\ c[2] = 0 => k = 0 /\ j.segs[k] = c[1]
<1> DEFINE c == op[o].call
<1>1. c \in Call /\ sRuns[c] = 1 /\ c = <<c[1], c[2]>> /\ c[2] \in Nat
  BY CallParts DEF OpOK
<1>2. /\ DOMAIN j.segs = DOMAIN op[o].segs \cup {c[2]}
      /\ j.segs[c[2]] = c[1]
      /\ \A i \in DOMAIN op[o].segs : j.segs[i] = op[o].segs[i]
      /\ j.seq = seqOf[c[1]]
  BY <1>1, JoinedFacts
<1>3. CASE k = c[2]
  BY <1>1, <1>2, <1>3
<1>4. CASE k \in DOMAIN op[o].segs
  <2>1. j.segs[k] = op[o].segs[k]
    BY <1>2, <1>4
  <2>2. /\ <<op[o].segs[k], k>> \in Call /\ sRuns[<<op[o].segs[k], k>>] = 1
        /\ seqOf[op[o].segs[k]] = op[o].seq
        /\ c[2] = 0 => k = 0 /\ op[o].segs[k] = c[1]
        /\ c[2] > 0 => seqOf[c[1]] = op[o].seq
    BY <1>1, <1>4 DEF OpOK
  <2>3. c[2] = 0 \/ c[2] > 0
    BY <1>1
  <2>4. seqOf[op[o].segs[k]] = seqOf[c[1]]
    BY <2>2, <2>3
  <2> QED
    BY <1>2, <2>1, <2>2, <2>4
<1> QED
  BY <1>2, <1>3, <1>4

\* An operation that is not done with is sound when its parts are.
LEMMA OpSound ==
    ASSUME NEW o \in OpId, NEW q, op'[o] = q, q.st \in Live,
           NEW c, q.call = c, q.fate = "none",
           c \in Call => sRuns'[c] = 1,
           \A p \in OpId : c = <<p>> => p = o,
           q.st \in {"s1", "s2"} => c \in Call /\ (c[2] > 0 => 0 \in DOMAIN q.segs),
           \A k \in DOMAIN q.segs :
              /\ <<q.segs[k], k>> \in Call
              /\ sRuns'[<<q.segs[k], k>>] = 1
              /\ 0 \in DOMAIN q.segs
              /\ seqOf'[q.segs[k]] = q.seq
              /\ c \in Call /\ c[2] = 0 => k = 0 /\ q.segs[k] = c[1],
           0 \in DOMAIN q.segs => q.last = Last(q.segs[0]),
           c \in Call /\ c[2] > 0 => seqOf'[c[1]] = q.seq,
           q.complete <=> q.segs # <<>> /\ DOMAIN q.segs = 0 .. q.last,
           q.complete => ~ q.timer,
           q.st = "s3" => q.complete,
           q.seq # 0 /\ q.st \in {"s1", "s2", "s3"} => 0 \in DOMAIN q.segs
    PROVE  OpOK(o)'
BY DEF OpOK, Live

\* ... and orderly when they are.
LEMMA OrderlySound ==
    ASSUME NEW o \in OpId, NEW m \in Msg, NEW q, op'[o] = q, NEW c, q.call = c,
           \A k \in DOMAIN q.segs : q.segs[k] = m,
           c \in Call => c[1] = m,
           c \in Call => \A k \in DOMAIN q.segs : k <= c[2],
           q.st \in {"s1", "s2"} =>
              /\ c[2] \notin DOMAIN q.segs => sAnswer'[c] = {}
              /\ sAnswer'[c] # {"error"}
              /\ sAnswer'[c] = {} => sTold'[c] \in {<<>>, <<"failure">>},
           NEW X, X = Shapes(q.st, c[2] \in DOMAIN q.segs, sAnswer'[c] = {"result"}, sTold'[c]),
           q.st \in {"s1", "s2"} => \E t \in X : Waiting(tasks', o, t)
    PROVE  Orderly(o, m)'
<1>1. \A t : Waiting(tasks', o, t) <=> Waiting(tasks, o, t)'
  BY DEF Waiting
<1> QED
  BY <1>1 DEF Orderly

\* The segment is taken up.
LEMMA TakenUpKeeps ==
    ASSUME SubmissionInv, NEW o \in OpId, aS1S2a(o)
    PROVE  SubmissionInv'
<1> DEFINE c == op[o].call
           j == Joined(op[o])
<1>0. /\ Typed /\ Served /\ STyped /\ OpOK(o) /\ op[o] \in OpRec /\ Single(o)
      /\ tasks \in Seq(OpId \X Event)
  BY Singles DEF SubmissionInv, Typed, STyped, Ops
<1>1. /\ Heading(o, I) /\ op[o].st = "s1" /\ Acceptable(op[o])
      /\ UNCHANGED <<vVars, uaVars, wild, restarts>>
      /\ Moved(o, j, "s2")
      /\ \/ /\ sTold[c] = <<>> /\ NoFault
            /\ S!Answer(c, "result")
            /\ resultId' = [resultId EXCEPT ![c] = IF j.complete THEN o ELSE 0]
            /\ tasks' = Tail(tasks)
         \/ /\ faults' = faults \/ (sTold[c] = <<>> /\ Fault)
            /\ tasks' = Append(Tail(tasks), <<o, F>>)
            /\ UNCHANGED <<sVars, resultId>>
  BY DEF aS1S2a, Task, Heading, I, F, NoFault
<1>2. c \in Call /\ sRuns[c] = 1 /\ c[1] \in Msg /\ c = <<c[1], c[2]>>
      /\ c[2] \in 0 .. Last(c[1]) /\ Last(c[1]) \in Nat
  BY <1>0, <1>1, CallParts DEF OpOK
<1>3. /\ j \in OpRec /\ j.call = c /\ j.verdict = op[o].verdict /\ j.fate = op[o].fate
      /\ j.st = op[o].st
      /\ DOMAIN j.segs = DOMAIN op[o].segs \cup {c[2]} /\ DOMAIN j.segs \in SUBSET Nat
      /\ j.segs \in [DOMAIN j.segs -> Msg]
      /\ j.segs[c[2]] = c[1]
      /\ \A i \in DOMAIN op[o].segs : j.segs[i] = op[o].segs[i]
      /\ 0 \in DOMAIN j.segs
      /\ j.seq = seqOf[c[1]]
      /\ j.last = Last(j.segs[0])
      /\ j.complete <=> DOMAIN j.segs = 0 .. j.last
      /\ j.complete => ~ j.timer
  BY <1>0, <1>1, <1>2, JoinedFacts
<1> HIDE DEF j
<1>4. PICK q : /\ op' = [op EXCEPT ![o] = q] /\ active' = active
               /\ q \in OpRec /\ q.st = "s2" /\ SameData(q, j)
               /\ q.timer = j.timer /\ q.fate = j.fate
  <2>1. op \in [OpId -> OpRec] /\ j \in OpRec /\ Moved(o, j, "s2")
    BY <1>0, <1>1, <1>3 DEF Typed
  <2> QED
    BY <2>1, MovedTo
<1>5. /\ op'[o] = q /\ op' \in [OpId -> OpRec] /\ \A p \in OpId \ {o} : op'[p] = op[p]
      /\ \A p \in OpId : \A m, k : Has(p, m, k) => Has(p, m, k)'
      /\ \A p \in OpId, d \in Call : Holds(p, d)' => Holds(p, d)
      /\ OneHolder'
  <2>1. /\ q.call = op[o].call
        /\ DOMAIN q.segs = DOMAIN op[o].segs \cup {q.call[2]}
        /\ q.segs[q.call[2]] = q.call[1]
        /\ \A i \in DOMAIN op[o].segs : q.segs[i] = op[o].segs[i]
    BY <1>3, <1>4 DEF SameData
  <2> QED
    BY <1>2, <1>4, <2>1, SegmentHeld
<1>6. F \in Event /\ I \in Event /\ QueueStep(o)
  <2>1. F \in Event /\ I \in Event
    BY DEF F, I, Event
  <2> QED
    BY <1>1, <2>1, QueueTail
<1>7. /\ STyped' /\ Served' /\ Kept /\ sAsked' = sAsked /\ sOutcome' = sOutcome
      /\ sRuns' = sRuns /\ sTold' = sTold
      /\ \A d \in Call : d # c => sAnswer'[d] = sAnswer[d]
      /\ sAnswer'[c] = sAnswer[c] \/ (sAnswer[c] = {} /\ sAnswer'[c] = {"result"})
  <2>1. CASE S!Answer(c, "result")
    <3>1. STyped' /\ Served' /\ Kept /\ sAsked' = sAsked /\ sOutcome' = sOutcome
      BY <1>0, <1>2, <2>1, PerformerStep
    <3> QED
      BY <1>0, <1>2, <2>1, <3>1 DEF S!Answer, STyped
  <2>2. CASE UNCHANGED sVars
    BY <1>0, <2>2 DEF STyped, Served, Kept, sVars
  <2> QED
    BY <1>1, <2>1, <2>2
<1>8. MtsFrame
  BY <1>1, <1>7 DEF MtsFrame, uaVars
<1>9. faults' \in 0 .. MaxFaults /\ faults' >= faults
  <2>1. faults \in 0 .. MaxFaults /\ faults >= faults
    BY <1>0, NoMoreFaults DEF Typed
  <2> QED
    BY <1>0, <1>1, <2>1, NoMoreFaults
<1>10. /\ resultId' \in [Call -> {0} \cup OpId]
       /\ \A d \in Call : d # c => resultId'[d] = resultId[d]
       /\ resultId' = resultId \/ (sAnswer[c] = {} /\ sAnswer'[c] = {"result"}
                                     /\ resultId'[c] \in {0, o})
  <2>1. resultId \in [Call -> {0} \cup OpId]
    BY <1>0 DEF Typed
  <2>2. CASE S!Answer(c, "result") /\
             resultId' = [resultId EXCEPT ![c] = IF j.complete THEN o ELSE 0]
    <3>1. sAnswer[c] = {} /\ sAnswer'[c] = {"result"}
      BY <1>0, <1>2, <2>2 DEF S!Answer, STyped
    <3> QED
      BY <1>2, <2>1, <2>2, <3>1
  <2>3. CASE resultId' = resultId
    BY <2>1, <2>3
  <2> QED
    BY <1>1, <2>2, <2>3
<1>11. \A d \in Call : sAnswer[d] = {"result"} => resultId'[d] = resultId[d]
  BY <1>10
<1>12. ASSUME NEW d \in Call, d = c PROVE Has(o, d[1], d[2])'
  BY <1>3, <1>4, <1>5, <1>12 DEF Has, SameData
<1>13. Answers'
  <2>1. Answers
    BY DEF SubmissionInv, Ops
  <2> SUFFICES ASSUME NEW d \in Call
               PROVE  /\ sAnswer'[d] = {"result"} => \E p \in OpId : Has(p, d[1], d[2])'
                      /\ resultId'[d] # 0 => sAnswer'[d] = {"result"}
                                               /\ Has(resultId[d], d[1], d[2])'
    BY DEF Answers
  <2>2. CASE d # c
    <3>1. resultId[d] # 0 => resultId[d] \in OpId
      BY <1>0 DEF Typed
    <3> QED
      BY <1>5, <1>7, <1>10, <2>1, <2>2, <3>1 DEF Answers
  <2>3. CASE d = c
    <3>1. \E p \in OpId : Has(p, d[1], d[2])'
      BY <1>12, <2>3
    <3>2. CASE resultId' = resultId
      <4>1. resultId[d] # 0 => resultId[d] \in OpId /\ sAnswer[d] = {"result"}
                                 /\ Has(resultId[d], d[1], d[2])
        BY <1>0, <2>1 DEF Typed, Answers
      <4> QED
        BY <1>5, <1>7, <2>3, <3>1, <3>2, <4>1
    <3>3. CASE sAnswer'[c] = {"result"} /\ resultId'[c] \in {0, o}
      <4>1. resultId'[d] # 0 => resultId'[d] = o
        BY <2>3, <3>3
      <4>2. resultId'[d] # 0 => Has(resultId[d], d[1], d[2])'
        BY <1>12, <2>3, <4>1 DEF Has
      <4> QED
        BY <2>3, <3>1, <3>3, <4>2
    <3> QED
      BY <1>10, <3>2, <3>3
  <2> QED
    BY <2>2, <2>3
<1>14. OpOK(o)'
  <2>1. /\ sRuns' = sRuns /\ seqOf' = seqOf
    BY <1>1, <1>7 DEF uaVars
  <2>2. /\ q.call = c /\ q.segs = j.segs /\ q.seq = seqOf[c[1]] /\ q.last = Last(q.segs[0])
        /\ q.complete <=> DOMAIN q.segs = 0 .. q.last
        /\ q.complete => ~ q.timer
        /\ q.fate = "none" /\ q.segs # <<>> /\ 0 \in DOMAIN q.segs
    <3>1. op[o].fate = "none"
      BY <1>0, <1>1 DEF OpOK
    <3>2. j.segs # <<>>
      BY <1>3
    <3> QED
      BY <1>3, <1>4, <3>1, <3>2 DEF SameData
  <2>3. ASSUME NEW k \in DOMAIN q.segs
        PROVE  /\ <<q.segs[k], k>> \in Call /\ sRuns[<<q.segs[k], k>>] = 1
               /\ seqOf[q.segs[k]] = q.seq
               /\ c[2] = 0 => k = 0 /\ q.segs[k] = c[1]
    <3>1. k \in DOMAIN j.segs /\ q.segs[k] = j.segs[k] /\ q.seq = j.seq
      BY <1>3, <2>2
    <3>2. /\ <<j.segs[k], k>> \in Call /\ sRuns[<<j.segs[k], k>>] = 1
          /\ seqOf[j.segs[k]] = j.seq
          /\ c[2] = 0 => k = 0 /\ j.segs[k] = c[1]
      BY <1>0, <1>1, <3>1, JoinedSegments DEF j
    <3> QED
      BY <3>1, <3>2
  <2>4. \A p \in OpId : c # <<p>>
    BY <1>2, QuestionNoCall
  <2> QED
    <3>1. q.st = "s2" /\ q.st \in Live /\ op'[o] = q /\ c \in Call
      BY <1>2, <1>4, <1>5 DEF Live
    <3>2. c \in Call => sRuns'[c] = 1
      BY <1>2, <2>1
    <3>3. \A k \in DOMAIN q.segs :
              /\ <<q.segs[k], k>> \in Call
              /\ sRuns'[<<q.segs[k], k>>] = 1
              /\ 0 \in DOMAIN q.segs
              /\ seqOf'[q.segs[k]] = q.seq
              /\ c \in Call /\ c[2] = 0 => k = 0 /\ q.segs[k] = c[1]
      BY <2>1, <2>2, <2>3
    <3>4. seqOf'[c[1]] = q.seq
      BY <2>1, <2>2
    <3> HIDE DEF c
    <3> QED
      BY <2>2, <2>4, <3>1, <3>2, <3>3, <3>4, OpSound
<1>15. ASSUME NEW m \in Msg, Alone(m), Owns(o, m)'
       PROVE  /\ Orderly(o, m)' /\ c[1] = m /\ Orderly(o, m) /\ Owns(o, m)
  <2>1. Owns(o, m)
    BY <1>5, <1>15, CallIs DEF Owns
  <2>2. /\ c[1] = m /\ Orderly(o, m)
        /\ c[2] \notin DOMAIN op[o].segs
        /\ sAnswer[c] = {} /\ sTold[c] \in {<<>>, <<F>>}
        /\ Waiting(Tail(tasks), o, IF sTold[c] = <<>> THEN <<>> ELSE <<F>>)
    BY <1>1, <1>15, <2>1, AboutToJoin
  <2>3. /\ q.call = c /\ c[2] \in DOMAIN q.segs
        /\ \A k \in DOMAIN q.segs : q.segs[k] = m /\ k <= c[2]
    <3>1. \A k \in DOMAIN op[o].segs : op[o].segs[k] = m /\ k <= c[2]
      BY <1>2, <2>2 DEF Orderly
    <3>2. c[2] <= c[2]
      BY <1>2
    <3> QED
      BY <1>3, <1>4, <2>2, <3>1, <3>2 DEF SameData
  <2>4. \E t \in Shapes("s2", TRUE, sAnswer'[c] = {"result"}, sTold[c]) : Waiting(tasks', o, t)
    <3>1. CASE S!Answer(c, "result") /\ tasks' = Tail(tasks) /\ sTold[c] = <<>>
      <4>1. sAnswer'[c] = {"result"}
        BY <1>0, <1>2, <3>1 DEF S!Answer, STyped
      <4>2. <<>> \in Shapes("s2", TRUE, sAnswer'[c] = {"result"}, sTold[c])
        BY <3>1, <4>1 DEF Shapes
      <4> QED
        BY <2>2, <3>1, <4>2
    <3>2. CASE UNCHANGED sVars /\ tasks' = Append(Tail(tasks), <<o, F>>)
      <4>1. ~ (sAnswer'[c] = {"result"})
        BY <2>2, <3>2 DEF sVars
      <4>2. Tail(tasks) \in Seq(OpId \X Event)
        BY <1>0, <1>1 DEF Heading
      <4>3. CASE sTold[c] = <<>>
        <5>1. Waiting(tasks', o, Append(<<>>, F))
          <6>1. <<>> \in Seq(Event)
            OBVIOUS
          <6> QED
            BY <1>6, <2>2, <3>2, <4>2, <4>3, <6>1, WaitingAppend
        <5>2. Append(<<>>, F) = <<F>>
          OBVIOUS
        <5>3. <<F>> \in Shapes("s2", TRUE, sAnswer'[c] = {"result"}, sTold[c])
          BY <4>1, <4>3 DEF Shapes
        <5> QED
          BY <5>1, <5>2, <5>3
      <4>4. CASE sTold[c] # <<>>
        <5>1. Waiting(tasks', o, Append(<<F>>, F))
          <6>1. <<F>> \in Seq(Event)
            BY <1>6
          <6> QED
            BY <1>6, <2>2, <3>2, <4>2, <4>4, <6>1, WaitingAppend
        <5>2. Append(<<F>>, F) = <<F, F>>
          BY <1>6, ShortQueues
        <5>3. <<F, F>> \in Shapes("s2", TRUE, sAnswer'[c] = {"result"}, sTold[c])
          BY <4>1, <4>4 DEF Shapes
        <5> QED
          BY <5>1, <5>2, <5>3
      <4> QED
        BY <4>3, <4>4
    <3> QED
      BY <1>1, <3>1, <3>2
  <2>5. /\ sAnswer'[c] # {"error"} /\ (sAnswer'[c] = {} => sTold[c] \in {<<>>, <<"failure">>})
    BY <1>7, <2>2 DEF F
  <2>6. (c[2] \in DOMAIN q.segs) = TRUE
    BY <2>3
  <2>7. Orderly(o, m)'
    <3>1. /\ op'[o].st = "s2" /\ op'[o].call = c /\ op'[o].segs = q.segs /\ sTold' = sTold
      BY <1>4, <1>5, <1>7, <2>3
    <3>2. /\ c \in Call /\ c[1] = m /\ c[2] \in DOMAIN q.segs
          /\ q.st = "s2" /\ q.call = c /\ op'[o] = q
      BY <1>2, <1>4, <1>5, <2>2, <2>3
    <3>3. \E t \in Shapes(q.st, c[2] \in DOMAIN q.segs,
                          sAnswer'[c] = {"result"}, sTold'[c]) : Waiting(tasks', o, t)
      BY <2>4, <2>6, <3>1, <3>2
    <3>4. /\ c[2] \notin DOMAIN q.segs => sAnswer'[c] = {}
          /\ sAnswer'[c] # {"error"}
          /\ sAnswer'[c] = {} => sTold'[c] \in {<<>>, <<"failure">>}
      BY <2>5, <3>1, <3>2
    <3>5. /\ \A k \in DOMAIN q.segs : q.segs[k] = m
          /\ c \in Call => c[1] = m /\ \A k \in DOMAIN q.segs : k <= c[2]
      BY <2>3, <3>2
    <3>6. op'[o] = q /\ q.call = c
      BY <3>2
    <3>7. PICK X : X = Shapes(q.st, c[2] \in DOMAIN q.segs, sAnswer'[c] = {"result"}, sTold'[c])
      OBVIOUS
    <3>8. \E t \in X : Waiting(tasks', o, t)
      BY <3>3, <3>7
    <3> HIDE DEF c
    <3> QED
      BY <3>4, <3>5, <3>6, <3>7, <3>8, OrderlySound, ZenonT(90)
  <2> QED
    BY <2>1, <2>2, <2>7
<1>16. Account(o)'
  <2> SUFFICES ASSUME NEW m \in Msg, Alone(m)', Has(o, m, Last(m))',
                      sAnswer'[<<m, Last(m)>>] = {"result"}
               PROVE  (op[o].segs = Whole(m) /\ op[o].complete /\ op[o].st = "s2")'
    BY DEF Account
  <2>1. Alone(m)
    BY <1>1 DEF Alone, uaVars
  <2>2. CASE <<m, Last(m)>> # c
    <3>1. sAnswer[<<m, Last(m)>>] = {"result"}
      BY <1>7, <2>2, CallIs
    <3>2. Holds(o, <<m, Last(m)>>)
      BY <1>5, CallIs DEF Holds
    <3>3. Has(o, m, Last(m))
      BY <2>2, <3>2 DEF Holds
    <3> QED
      BY <1>1, <2>1, <3>1, <3>3, WholeInHand DEF Live
  <2>3. CASE <<m, Last(m)>> = c
    <3>1. c[1] = m /\ c[2] = Last(m)
      BY <2>3
    <3>2. Owns(o, m)
      BY <1>1, <2>1, <3>1, HandedOwns
    <3>3. Owns(o, m)'
      <4>1. <<m, 0>> = c \/ Has(o, m, 0)
        BY <3>2 DEF Owns, Holds
      <4>2. q.call = c
        BY <1>3, <1>4 DEF SameData
      <4> QED
        BY <1>5, <4>1, <4>2 DEF Owns, Holds
    <3>4. ASSUME NEW k \in 0 .. Last(m) PROVE k \in DOMAIN q.segs
      <4>1. CASE k = Last(m)
        BY <1>3, <1>4, <3>1, <4>1 DEF SameData
      <4>2. CASE k # Last(m)
        <5>1. <<m, Last(m)>> \in sAsked /\ Last(m) \in 0 .. Last(m) /\ k < Last(m)
          BY <1>0, <1>2, <2>3, <3>1, <4>2, SMTT(40) DEF Served
        <5>2. sAnswer[<<m, k>>] = {"result"}
          BY <5>1, AskedBefore
        <5>3. Has(o, m, k)
          BY <2>1, <3>2, <5>2, AnsweredHeld
        <5> QED
          BY <1>3, <1>4, <5>3 DEF Has, SameData
      <4> QED
        BY <4>1, <4>2
    <3>5. ASSUME NEW k \in DOMAIN q.segs PROVE k \in 0 .. Last(m) /\ q.segs[k] = m
      <4>1. Orderly(o, m)'
        BY <1>15, <2>1, <3>3
      <4>2. q.segs[k] = m /\ k <= Last(m)
        <5>1. op'[o].call = c
          BY <1>3, <1>4, <1>5 DEF SameData
        <5> QED
          BY <1>2, <1>5, <3>1, <4>1, <5>1 DEF Orderly
      <4>3. k \in Nat
        BY <1>3, <1>4 DEF SameData
      <4> QED
        BY <1>2, <3>1, <4>2, <4>3
    <3>6. DOMAIN q.segs = 0 .. Last(m)
      BY <3>4, <3>5
    <3>7. q.segs = Whole(m)
      <4>1. q.segs = [k \in DOMAIN q.segs |-> q.segs[k]]
        BY <1>3, <1>4 DEF SameData
      <4> QED
        BY <3>5, <3>6, <4>1 DEF Whole
    <3>8. q.complete
      <4>1. q.segs[0] = m
        BY <1>2, <3>1, <3>5, <3>6
      <4> QED
        BY <1>3, <1>4, <3>6, <4>1 DEF SameData
    <3>9. Whole(m)' = Whole(m)
      BY DEF Whole
    <3> QED
      BY <1>4, <1>5, <3>7, <3>8, <3>9
  <2> QED
    BY <2>2, <2>3
<1>17. o \notin vAsked
  BY <1>1 DEF SubmissionInv, Verified
<1>18. q.verdict = op[o].verdict
  BY <1>3, <1>4 DEF SameData
<1> QED
  BY <1>1, <1>4, <1>5, <1>6, <1>7, <1>8, <1>9, <1>10, <1>11, <1>13, <1>14, <1>15, <1>16,
     <1>17, <1>18, MoveKeeps DEF Live, vVars

\* The segment is not taken up, or the message cannot be written.
LEMMA RefuseKeeps ==
    ASSUME SubmissionInv, NEW o \in OpId, aS1S4a(o)
    PROVE  SubmissionInv'
<1> DEFINE c == op[o].call
           j == Joined(op[o])
           u == IF c[2] = 0 THEN [op[o] EXCEPT !.seq = seqOf[c[1]]] ELSE op[o]
<1>0. /\ Typed /\ Served /\ STyped /\ OpOK(o) /\ op[o] \in OpRec /\ Single(o)
      /\ tasks \in Seq(OpId \X Event)
  BY Singles DEF SubmissionInv, Typed, STyped, Ops
<1>1. /\ Heading(o, I) /\ op[o].st = "s1" /\ tasks' = Tail(tasks)
      /\ UNCHANGED <<vVars, uaVars, resultId, wild, restarts>>
      /\ NoFault \/ Fault
      /\ S!Answer(c, "error") \/ UNCHANGED sVars
      /\ \E r : /\ r = op[o] \/ r = u \/ (r = j /\ Acceptable(op[o]))
                /\ Moved(o, r, "s4")
  BY DEF aS1S4a, Task, Heading, I
<1>2. /\ c \in Call /\ sRuns[c] = 1 /\ c[1] \in Msg /\ c = <<c[1], c[2]>>
      /\ c[2] \in 0 .. Last(c[1]) /\ Last(c[1]) \in Nat /\ c[2] \in Nat
      /\ op[o].fate = "none" /\ seqOf[c[1]] \in Nat
  <2>1. c \in Call /\ sRuns[c] = 1 /\ op[o].fate = "none"
    BY <1>0, <1>1 DEF OpOK
  <2>2. c[1] \in Msg
    BY <2>1, CallParts
  <2>3. seqOf[c[1]] \in Nat
    BY <1>0, <2>2 DEF Typed
  <2> QED
    BY <2>1, <2>3, CallParts
<1>3. PICK r : /\ r = op[o] \/ r = u \/ (r = j /\ Acceptable(op[o]))
               /\ Moved(o, r, "s4")
  BY <1>1
<1>4. /\ r \in OpRec /\ r.call = c /\ r.verdict = op[o].verdict /\ r.fate = "none"
      /\ \/ r.segs = op[o].segs
         \/ /\ DOMAIN r.segs = DOMAIN op[o].segs \cup {c[2]}
            /\ r.segs[c[2]] = c[1]
            /\ \A i \in DOMAIN op[o].segs : r.segs[i] = op[o].segs[i]
      /\ \A k \in DOMAIN r.segs :
            /\ <<r.segs[k], k>> \in Call /\ sRuns[<<r.segs[k], k>>] = 1
            /\ 0 \in DOMAIN r.segs
            /\ seqOf[r.segs[k]] = r.seq
            /\ c[2] = 0 => k = 0 /\ r.segs[k] = c[1]
      /\ 0 \in DOMAIN r.segs => r.last = Last(r.segs[0])
      /\ c[2] > 0 => seqOf[c[1]] = r.seq
      /\ r.complete <=> r.segs # <<>> /\ DOMAIN r.segs = 0 .. r.last
      /\ r.complete => ~ r.timer
  <2>1. CASE r = op[o]
    BY <1>0, <1>2, <2>1 DEF OpOK
  <2>2. CASE r = u /\ c[2] = 0
    <3>1. /\ r \in OpRec /\ r.call = c /\ r.verdict = op[o].verdict /\ r.fate = "none"
          /\ r.segs = op[o].segs /\ r.seq = seqOf[c[1]] /\ r.last = op[o].last
          /\ r.complete = op[o].complete /\ r.timer = op[o].timer
      <4>1. r = [op[o] EXCEPT !.seq = seqOf[c[1]]]
        BY <2>2
      <4> HIDE DEF u, j
      <4> QED
        BY <1>0, <1>2, <4>1 DEF OpRec
    <3> HIDE DEF u, j
    <3> QED
      BY <1>0, <1>2, <2>2, <3>1 DEF OpOK
  <2>3. CASE r = u /\ c[2] # 0
    BY <2>1, <2>3
  <2>4. CASE r = j /\ Acceptable(op[o])
    <3>1. /\ j \in OpRec /\ j.call = c /\ j.verdict = op[o].verdict /\ j.fate = op[o].fate
          /\ DOMAIN j.segs = DOMAIN op[o].segs \cup {c[2]}
          /\ j.segs[c[2]] = c[1]
          /\ \A i \in DOMAIN op[o].segs : j.segs[i] = op[o].segs[i]
          /\ 0 \in DOMAIN j.segs
          /\ j.seq = seqOf[c[1]]
          /\ j.last = Last(j.segs[0])
          /\ j.complete <=> DOMAIN j.segs = 0 .. j.last
          /\ j.complete => ~ j.timer
      BY <1>0, <1>1, <1>2, <2>4, JoinedFacts
    <3>2. \A k \in DOMAIN r.segs :
            /\ <<r.segs[k], k>> \in Call /\ sRuns[<<r.segs[k], k>>] = 1
            /\ seqOf[r.segs[k]] = r.seq
            /\ c[2] = 0 => k = 0 /\ r.segs[k] = c[1]
      BY <1>0, <1>1, <2>4, JoinedSegments
    <3>3. j.segs # <<>>
      BY <3>1
    <3> HIDE DEF u, j
    <3> QED
      BY <1>2, <2>4, <3>1, <3>2, <3>3
  <2> QED
    BY <1>3, <2>1, <2>2, <2>3, <2>4
<1> HIDE DEF j, u
<1>5. PICK q : /\ op' = [op EXCEPT ![o] = q] /\ active' = active
               /\ q \in OpRec /\ q.st = "s4" /\ SameData(q, r)
               /\ q.timer = r.timer /\ q.fate = r.fate
  BY <1>0, <1>3, <1>4, MovedTo DEF Typed
<1>6. /\ op'[o] = q /\ op' \in [OpId -> OpRec] /\ \A p \in OpId \ {o} : op'[p] = op[p]
      /\ \A p \in OpId : \A m, k : Has(p, m, k) => Has(p, m, k)'
      /\ \A p \in OpId, d \in Call : Holds(p, d)' => Holds(p, d)
      /\ OneHolder'
  <2>1. /\ q.call = op[o].call
        /\ \/ q.segs = op[o].segs
           \/ /\ DOMAIN q.segs = DOMAIN op[o].segs \cup {q.call[2]}
              /\ q.segs[q.call[2]] = q.call[1]
              /\ \A i \in DOMAIN op[o].segs : q.segs[i] = op[o].segs[i]
    BY <1>4, <1>5 DEF SameData
  <2> QED
    BY <1>2, <1>5, <2>1, SegmentHeld
<1>7. /\ STyped' /\ Served' /\ Kept /\ sAsked' = sAsked /\ sOutcome' = sOutcome
      /\ sRuns' = sRuns /\ sTold' = sTold
      /\ \A d \in Call : d # c => sAnswer'[d] = sAnswer[d]
      /\ sAnswer'[c] = sAnswer[c] \/ (sAnswer[c] = {} /\ sAnswer'[c] = {"error"})
  <2>1. CASE S!Answer(c, "error")
    <3>1. STyped' /\ Served' /\ Kept /\ sAsked' = sAsked /\ sOutcome' = sOutcome
      BY <1>0, <1>2, <2>1, PerformerStep
    <3> QED
      BY <1>0, <1>2, <2>1, <3>1 DEF S!Answer, STyped
  <2>2. CASE UNCHANGED sVars
    BY <1>0, <2>2 DEF STyped, Served, Kept, sVars
  <2> QED
    BY <1>1, <2>1, <2>2
<1>8. MtsFrame
  BY <1>1, <1>7 DEF MtsFrame, uaVars
<1>9. faults' \in 0 .. MaxFaults /\ faults' >= faults
  BY <1>0, <1>1, NoMoreFaults
<1>10. QueueStep(o)
  <2>1. I \in Event
    BY DEF I, Event
  <2> QED
    BY <1>1, <2>1, QueueTail
<1>11. \A d \in Call : sAnswer'[d] = {"result"} <=> sAnswer[d] = {"result"}
  <2>1. {"error"} # {"result"}
    OBVIOUS
  <2> QED
    BY <1>7, <2>1
<1>12. Answers'
  <2>1. Answers
    BY DEF SubmissionInv, Ops
  <2>2. \A d \in Call : resultId[d] # 0 => resultId[d] \in OpId
    BY <1>0 DEF Typed
  <2> QED
    BY <1>1, <1>6, <1>11, <2>1, <2>2 DEF Answers
<1>13. OpOK(o)'
  <2>1. sRuns' = sRuns /\ seqOf' = seqOf
    BY <1>1, <1>7 DEF uaVars
  <2>2. \A p \in OpId : c # <<p>>
    BY <1>2, QuestionNoCall
  <2> QED
    <3>1. q.st = "s4" /\ q.st \in Live /\ op'[o] = q /\ c \in Call /\ q.call = c
          /\ q.fate = "none"
      BY <1>2, <1>4, <1>5, <1>6 DEF Live, SameData
    <3>2. c \in Call => sRuns'[c] = 1
      BY <1>2, <2>1
    <3>3. \A k \in DOMAIN q.segs :
              /\ <<q.segs[k], k>> \in Call
              /\ sRuns'[<<q.segs[k], k>>] = 1
              /\ 0 \in DOMAIN q.segs
              /\ seqOf'[q.segs[k]] = q.seq
              /\ c \in Call /\ c[2] = 0 => k = 0 /\ q.segs[k] = c[1]
      BY <1>4, <1>5, <2>1 DEF SameData
    <3>4. c[2] > 0 => seqOf'[c[1]] = q.seq
      BY <1>4, <1>5, <2>1 DEF SameData
    <3>5. /\ 0 \in DOMAIN q.segs => q.last = Last(q.segs[0])
          /\ q.complete <=> q.segs # <<>> /\ DOMAIN q.segs = 0 .. q.last
          /\ q.complete => ~ q.timer
      BY <1>4, <1>5 DEF SameData
    <3> HIDE DEF c
    <3> QED
      BY <2>2, <3>1, <3>2, <3>3, <3>4, <3>5, OpSound
<1>14. ASSUME NEW m \in Msg, Alone(m), Owns(o, m)' PROVE Orderly(o, m)'
  <2>1. Owns(o, m)
    BY <1>6, <1>14, CallIs DEF Owns
  <2>2. Orderly(o, m) /\ c[1] = m
    BY <1>1, <1>14, <2>1, AboutToJoin
  <2>3. \A k \in DOMAIN op[o].segs : op[o].segs[k] = m /\ k <= c[2]
    BY <1>2, <2>2 DEF Orderly
  <2>4. c[2] <= c[2]
    BY <1>2
  <2>5. \A k \in DOMAIN q.segs : q.segs[k] = m /\ k <= c[2]
    BY <1>4, <1>5, <2>2, <2>3, <2>4 DEF SameData
  <2>6. op'[o].st = "s4" /\ op'[o].call = c /\ op'[o].segs = q.segs
    BY <1>4, <1>5, <1>6 DEF SameData
  <2> HIDE DEF c
  <2> QED
    BY <2>2, <2>5, <2>6 DEF Orderly
<1>15. Account(o)'
  <2> SUFFICES ASSUME NEW m \in Msg, Alone(m)', Has(o, m, Last(m))',
                      sAnswer'[<<m, Last(m)>>] = {"result"}
               PROVE  FALSE
    BY DEF Account
  <2>1. Alone(m) /\ sAnswer[<<m, Last(m)>>] = {"result"}
    BY <1>1, <1>11, CallIs DEF Alone, uaVars
  <2>2. CASE <<m, Last(m)>> # c
    <3>1. Holds(o, <<m, Last(m)>>)
      BY <1>6, CallIs DEF Holds
    <3>2. Has(o, m, Last(m))
      BY <2>2, <3>1 DEF Holds
    <3> QED
      BY <1>1, <2>1, <3>2, WholeInHand DEF Live
  <2>3. CASE <<m, Last(m)>> = c
    <3>1. c[1] = m
      BY <2>3
    <3>2. Owns(o, m)
      BY <1>1, <2>1, <3>1, HandedOwns
    <3>3. sAnswer[c] = {}
      BY <1>1, <2>1, <3>2, AboutToJoin
    <3> QED
      BY <2>1, <2>3, <3>3
  <2> QED
    BY <2>2, <2>3
<1>16. q.verdict = op[o].verdict
  BY <1>4, <1>5 DEF SameData
<1>17. resultId' \in [Call -> {0} \cup OpId]
  BY <1>0, <1>1 DEF Typed
<1> QED
  BY <1>1, <1>5, <1>6, <1>7, <1>8, <1>9, <1>10, <1>12, <1>13, <1>14, <1>15, <1>16, <1>17,
     MoveKeeps DEF Live, vVars

-----------------------------------------------------------------------------
(* Indications of the service.                                             *)

\* A call that was not yet performed was handed to no operation.
LEMMA NoHolder ==
    ASSUME SubmissionInv, NEW c \in Call, sRuns[c] = 0
    PROVE  /\ \A p \in OpId : ~ Holds(p, c)
           /\ sAnswer[c] = {} /\ sTold[c] = <<>> /\ resultId[c] = 0
<1>1. ASSUME NEW p \in OpId PROVE ~ Holds(p, c)
  <2>1. OpOK(p)
    BY DEF SubmissionInv, Ops
  <2>2. op[p].call # c
    BY <2>1 DEF OpOK
  <2>3. ~ Has(p, c[1], c[2])
    <3>1. c = <<c[1], c[2]>>
      BY CallParts
    <3>2. PICK k : k = c[2]
      OBVIOUS
    <3>3. k \in DOMAIN op[p].segs => sRuns[<<op[p].segs[k], k>>] = 1
      BY <2>1 DEF OpOK
    <3> QED
      BY <3>1, <3>2, <3>3 DEF Has
  <2> QED
    BY <2>2, <2>3 DEF Holds
<1>2. sAnswer[c] = {} /\ sTold[c] = <<>>
  BY DEF SubmissionInv, Served
<1>3. resultId[c] = 0
  BY <1>2 DEF SubmissionInv, Ops, Answers
<1> QED
  BY <1>1, <1>2, <1>3

\* A segment that is refused at once.
LEMMA TurnedAwayKeeps ==
    ASSUME SubmissionInv, NEW c \in Call, mts_invokeRefused(c)
    PROVE  SubmissionInv'
<1>0. Typed /\ STyped /\ Served
  BY DEF SubmissionInv, Typed, STyped
<1>1. /\ NoFault \/ Fault
      /\ S!PerformAndAnswer(c, "error")
      /\ UNCHANGED <<vVars, uaVars, tasks, wild, resultId, restarts>>
      /\ \/ UNCHANGED <<op, active>>
         \/ /\ Fault
            /\ \E o \in OpId, f \in {"lost", "none"} :
                  Release(o, op[o], f) /\ (op[o].complete => f = "lost")
  <2> DEFINE o == IF c[2] = 0 THEN 0 ELSE findOperationBySequenceId(seqOf[c[1]])
  <2>1. o = 0 \/ o \in OpId
    BY <1>0, FoundBySequenceId
  <2>2. o # 0 => c[2] # 0
    OBVIOUS
  <2>3. c[2] \in Nat
    BY CallParts
  <2> QED
    BY <2>1, <2>2, <2>3 DEF mts_invokeRefused
<1>2. /\ sRuns[c] = 0 /\ \A d \in Call : d # c => sAnswer'[d] = sAnswer[d]
      /\ sAnswer'[c] = {"error"} /\ sTold' = sTold
  BY <1>0, <1>1 DEF S!PerformAndAnswer, STyped
<1>3. STyped' /\ Served' /\ Kept /\ sAsked' = sAsked /\ sOutcome' = sOutcome
  BY <1>0, <1>1, PerformerStep
<1>4. /\ \A p \in OpId : ~ Holds(p, c)
      /\ sAnswer[c] = {} /\ resultId[c] = 0
  BY <1>2, NoHolder
<1>5. faults' \in 0 .. MaxFaults /\ faults' >= faults
  BY <1>0, <1>1, NoMoreFaults
<1>6. \A p \in OpId, d \in Call : Holds(p, d) => sAnswer'[d] = sAnswer[d]
  BY <1>2, <1>4
<1>7. \A d \in Call : sAnswer'[d] = {"result"} <=> sAnswer[d] = {"result"}
  <2>1. {"error"} # {"result"}
    OBVIOUS
  <2> QED
    BY <1>2, <1>4, <2>1
<1>8. QueueStep(0) /\ 0 \notin OpId
  BY <1>1 DEF QueueStep, OpId
<1>9. CASE UNCHANGED <<op, active>>
  <2>1. MtsFrame
    BY <1>1, <1>3 DEF MtsFrame, uaVars
  <2>2. Typed'
    BY <1>0, <1>1, <1>3, <1>5, <1>9 DEF Typed, STyped, vVars, uaVars, mtsVars
  <2>3. /\ op' = op /\ active' = active /\ resultId' = resultId
        /\ vAsked' = vAsked /\ vAnswer' = vAnswer /\ vOutcome' = vOutcome
    BY <1>1, <1>9 DEF vVars
  <2>4. OneHolder' /\ Answers'
    BY <1>7, <2>3, HoldersStay
  <2>5. ActiveOK'
    BY <2>3 DEF SubmissionInv, ActiveOK
  <2>6. Room'
    BY <1>3, <2>3, RoomKeeps
  <2> QED
    BY <1>2, <1>3, <1>5, <1>6, <1>8, <2>1, <2>2, <2>3, <2>4, <2>5, <2>6, MtsStep
<1>10. ASSUME NEW o \in OpId, NEW f \in {"lost", "none"}, Fault, Release(o, op[o], f),
              op[o].complete => f = "lost"
       PROVE  SubmissionInv'
  <2>1. ASSUME NEW m \in Msg, Alone(m), Has(o, m, Last(m)),
               sAnswer[<<m, Last(m)>>] = {"result"}
        PROVE  f = "lost" /\ faults' > 0
    <3>1. Release(o, op[o], f) => op[o].st \in Live
      BY <1>0, FreeUnlinks DEF SubmissionInv, Release
    <3>2. op[o].complete
      BY <1>10, <2>1, <3>1, WholeInHand
    <3> QED
      BY <1>0, <1>10, <3>2, NoMoreFaults
  <2>2. QueueStep(o) /\ wild' \in BOOLEAN
    BY <1>0, <1>1 DEF QueueStep, Typed
  <2>3. f \in Fates /\ f # "spooled" /\ f # "dropped"
    BY DEF Fates
  <2> QED
    BY <1>1, <1>2, <1>3, <1>5, <1>6, <1>7, <1>10, <2>1, <2>2, <2>3, FreedKeeps
<1> QED
  BY <1>1, <1>9, <1>10

\* What waits when the MTS is told what became of its answer.
LEMMA ShapeTold ==
    ASSUME NEW st \in {"s1", "s2"}, NEW j \in BOOLEAN, NEW a \in BOOLEAN,
           NEW t \in Shapes(st, j, a, <<>>), NEW kind \in {"result", "failure"},
           kind = "result" => j /\ a
    PROVE  Append(t, IF kind = "result" THEN R ELSE F) \in Shapes(st, j, a, <<kind>>)
<1>0. F \in Event /\ R \in Event /\ I \in Event
  BY DEF F, R, I, Event
<1>1. <<kind>> # <<>> /\ (<<kind>> = <<"result">> <=> kind = "result")
  OBVIOUS
<1> HIDE DEF F, R, I
<1>2. /\ Append(<<>>, F) = <<F>> /\ Append(<<>>, R) = <<R>>
      /\ Append(<<F>>, F) = <<F, F>> /\ Append(<<I>>, F) = <<I, F>>
      /\ Append(<<R, I>>, F) = <<R, I, F>> /\ Append(<<F, I>>, F) = <<F, I, F>>
  BY <1>0, ShortQueues, ZenonT(60)
<1>3. CASE st = "s1" /\ j /\ a
  BY <1>3 DEF Shapes
<1>4. CASE st = "s1" /\ j /\ ~ a
  BY <1>1, <1>2, <1>4 DEF Shapes
<1>5. CASE st = "s1" /\ ~ j
  BY <1>1, <1>2, <1>5 DEF Shapes
<1>6. CASE st = "s2" /\ j /\ a
  BY <1>1, <1>2, <1>6 DEF Shapes
<1>7. CASE st = "s2" /\ j /\ ~ a
  BY <1>1, <1>2, <1>7 DEF Shapes
<1>8. CASE st = "s2" /\ ~ j
  BY <1>1, <1>2, <1>8 DEF Shapes
<1> QED
  BY <1>3, <1>4, <1>5, <1>6, <1>7, <1>8

\* What the events of a confirmation are.
ConfirmEvent(kind) ==
    CASE kind = "result" -> "resultCon"
      [] kind = "error" -> "errorCon"
      [] OTHER -> "failure"

\* The operation that was handed call c is told of it.
LEMMA ToldKeeps ==
    ASSUME SubmissionInv, Typed', Served', MtsFrame, NEW o \in OpId, NEW c \in Call,
           NEW kind \in {"result", "error", "failure"},
           op[o].call = c, op[o].st \in Live, op' = op, sRuns' = sRuns,
           sTold[c] = <<>>, sTold'[c] = <<kind>>,
           kind = "failure" \/ kind \in sAnswer[c],
           sAnswer' = sAnswer, vOutcome' = vOutcome, vAsked' = vAsked, faults' = faults,
           tasks' = Append(tasks, <<o, ConfirmEvent(kind)>>)
    PROVE  Single(o)'
<1>0. Single(o) /\ tasks \in Seq(OpId \X Event) /\ Typed
  BY Singles DEF SubmissionInv, Typed
<1>1. OpOK(o)'
  <2>1. op[o].st # "none" /\ seqOf' = seqOf /\ OpOK(o)
    BY <1>0 DEF Live, MtsFrame, Single
  <2> QED
    BY <2>1 DEF OpOK
<1>2. \A m \in Msg : Alone(m)' <=> Alone(m)
  BY MtsFrameKeeps
<1>3. ASSUME NEW m \in Msg, Alone(m)', Owns(o, m)' PROVE Orderly(o, m)'
  <2>1. Alone(m) /\ Owns(o, m)
    BY <1>2, <1>3 DEF Owns, Holds, Has
  <2>2. Orderly(o, m)
    BY <1>0, <2>1 DEF Single
  <2>3. /\ \A k \in DOMAIN op[o].segs : op[o].segs[k] = m
        /\ c \in Call => c[1] = m
        /\ c \in Call => \A k \in DOMAIN op[o].segs : k <= c[2]
    BY <2>2 DEF Orderly
  <2>4. ASSUME op[o].st \in {"s1", "s2"}
        PROVE  /\ c[2] \notin DOMAIN op[o].segs => sAnswer'[c] = {}
               /\ sAnswer'[c] # {"error"}
               /\ sAnswer'[c] = {} => sTold'[c] \in {<<>>, <<"failure">>}
               /\ \E t \in Shapes(op[o].st, c[2] \in DOMAIN op[o].segs,
                                  sAnswer'[c] = {"result"}, sTold'[c]) :
                     Waiting(tasks', o, t)
    <3>1. PICK t \in Shapes(op[o].st, c[2] \in DOMAIN op[o].segs,
                            sAnswer[c] = {"result"}, sTold[c]) : Waiting(tasks, o, t)
      BY <2>2, <2>4 DEF Orderly
    <3>2. /\ c[2] \notin DOMAIN op[o].segs => sAnswer[c] = {}
          /\ sAnswer[c] # {"error"}
      BY <2>2, <2>4 DEF Orderly
    <3>3. PICK j \in BOOLEAN : j <=> (c[2] \in DOMAIN op[o].segs)
      OBVIOUS
    <3>4. PICK a \in BOOLEAN : a <=> (sAnswer[c] = {"result"})
      OBVIOUS
    <3>5. t \in Shapes(op[o].st, j, a, <<>>)
      BY <3>1, <3>3, <3>4
    <3>6. sAnswer[c] \in {{}, {"result"}}
      BY <1>0, <3>2 DEF Typed
    <3>7. kind \in {"result", "failure"} /\ (kind = "result" => j /\ a)
      BY <3>2, <3>3, <3>4, <3>6
    <3>8. PICK e : e = IF kind = "result" THEN R ELSE F
      OBVIOUS
    <3>9. e \in Event /\ tasks' = Append(tasks, <<o, e>>)
      BY <3>7, <3>8 DEF ConfirmEvent, R, F, Event
    <3>10. Append(t, e) \in Shapes(op[o].st, j, a, <<kind>>)
      BY <2>4, <3>5, <3>7, <3>8, ShapeTold
    <3>11. Waiting(tasks', o, Append(t, e))
      <4>1. t \in Seq(Event)
        BY <3>1, ShapesTyped
      <4> QED
        BY <1>0, <3>1, <3>9, <4>1, WaitingAppend
    <3>12. Append(t, e) \in Shapes(op[o].st, c[2] \in DOMAIN op[o].segs,
                                   sAnswer'[c] = {"result"}, sTold'[c])
      BY <3>3, <3>4, <3>10
    <3>13. sAnswer[c] = {} => kind = "failure"
      OBVIOUS
    <3> QED
      BY <3>2, <3>11, <3>12, <3>13
  <2>5. PICK X : X = Shapes(op[o].st, c[2] \in DOMAIN op[o].segs,
                            sAnswer'[c] = {"result"}, sTold'[c])
    OBVIOUS
  <2>6. op[o].st \in {"s1", "s2"} => \E t \in X : Waiting(tasks', o, t)
    BY <2>4, <2>5
  <2>7. op[o].st \in {"s1", "s2"} =>
              /\ c[2] \notin DOMAIN op[o].segs => sAnswer'[c] = {}
              /\ sAnswer'[c] # {"error"}
              /\ sAnswer'[c] = {} => sTold'[c] \in {<<>>, <<"failure">>}
    BY <2>4
  <2>8. PICK q : q = op[o] /\ op'[o] = q /\ q.call = c
    OBVIOUS
  <2>9. /\ \A k \in DOMAIN q.segs : q.segs[k] = m
        /\ c \in Call => c[1] = m
        /\ c \in Call => \A k \in DOMAIN q.segs : k <= c[2]
    BY <2>3, <2>8
  <2>10. X = Shapes(q.st, c[2] \in DOMAIN q.segs, sAnswer'[c] = {"result"}, sTold'[c])
    BY <2>5, <2>8
  <2>11. /\ q.st \in {"s1", "s2"} => \E t \in X : Waiting(tasks', o, t)
         /\ q.st \in {"s1", "s2"} =>
              /\ c[2] \notin DOMAIN q.segs => sAnswer'[c] = {}
              /\ sAnswer'[c] # {"error"}
              /\ sAnswer'[c] = {} => sTold'[c] \in {<<>>, <<"failure">>}
    BY <2>6, <2>7, <2>8
  <2> QED
    BY <2>8, <2>9, <2>10, <2>11, OrderlySound
<1>4. Account(o)'
  <2> SUFFICES ASSUME NEW m \in Msg, Alone(m)', Has(o, m, Last(m))',
                      sAnswer'[<<m, Last(m)>>] = {"result"}
               PROVE  (op[o].segs = Whole(m) /\ op[o].complete /\ op[o].st = "s2")'
    BY DEF Account
  <2>1. Alone(m) /\ Has(o, m, Last(m)) /\ sAnswer[<<m, Last(m)>>] = {"result"}
    BY <1>2 DEF Has
  <2>2. /\ op[o].segs = Whole(m) /\ op[o].complete
        /\ op[o].st = "s2" \/ (op[o].st = "s3" /\ Settling(o))
    BY <2>1, WholeInHand
  <2>3. ~ Settling(o)
    BY DEF Settling
  <2> QED
    BY <2>2, <2>3 DEF Whole
<1>5. op[o].fate = "none"
  BY <1>0 DEF Single, OpOK, Live
<1>6. Pass(o)'
  BY <1>5 DEF Pass
<1> QED
  BY <1>1, <1>3, <1>4, <1>5, <1>6 DEF Single

LEMMA ConfirmKeeps ==
    ASSUME SubmissionInv, NEW c \in Call, mts_confirm(c)
    PROVE  SubmissionInv'
<1>0. Typed /\ STyped /\ Served /\ ActiveOK /\ OneHolder /\ Answers /\ Verified
  BY DEF SubmissionInv, Typed, STyped, Ops
<1>1. PICK kind \in {"result", "error", "failure"} :
         /\ S!Tell(c, kind)
         /\ FSM_generateEvent(findOperationByInvokeId(c), ConfirmEvent(kind))
  BY DEF mts_confirm, ConfirmEvent
<1>2. UNCHANGED <<vVars, uaVars, active, op, wild, resultId, restarts, faults>>
  BY DEF mts_confirm
<1>3. PICK f : f = findOperationByInvokeId(c)
  OBVIOUS
<1>4. /\ f = 0 => \A p \in OpId : op[p].st \in Live => op[p].call # c
      /\ f # 0 => f \in OpId /\ op[f].call = c /\ op[f].st \in Live
  <2>1. LET X == {p \in OpId : op[p].call = c /\ \E i \in 1 .. Len(active) : active[i] = p}
        IN  IF X = {} THEN f = 0 ELSE f \in X
    BY <1>0, <1>3, FoundByInvokeId
  <2>2. \A p \in OpId : op[p].st \in Live <=> \E i \in 1 .. Len(active) : active[i] = p
    BY <1>0 DEF ActiveOK
  <2>3. 0 \notin OpId
    BY DEF OpId
  <2> QED
    BY <2>1, <2>2, <2>3
<1>5. /\ STyped' /\ Served' /\ Kept /\ sAsked' = sAsked /\ sOutcome' = sOutcome
  BY <1>0, <1>1, PerformerStep
<1>6. /\ sRuns' = sRuns /\ sAnswer' = sAnswer /\ sTold[c] = <<>> /\ sTold'[c] = <<kind>>
      /\ \A d \in Call : d # c => sTold'[d] = sTold[d]
      /\ kind = "failure" \/ kind \in sAnswer[c]
  BY <1>0, <1>1 DEF S!Tell, STyped
<1>7. MtsFrame
  BY <1>2, <1>5 DEF MtsFrame, uaVars
<1>8. ConfirmEvent(kind) \in Event
  BY DEF ConfirmEvent, Event
<1>9. /\ f = 0 => tasks' = tasks
      /\ f # 0 => tasks' = Append(tasks, <<f, ConfirmEvent(kind)>>)
  BY <1>1, <1>3 DEF FSM_generateEvent
<1>10. QueueStep(f)
  BY <1>4, <1>8, <1>9 DEF QueueStep
<1>11. Typed'
  <2>1. tasks' \in Seq(OpId \X Event)
    BY <1>0, <1>10, QueueTyped
  <2> QED
    BY <1>0, <1>2, <1>5, <2>1 DEF Typed, STyped, vVars, uaVars
<1>12. OneHolder' /\ Answers'
  BY <1>2, <1>6, HoldersStay
<1>13. ActiveOK'
  BY <1>0, <1>2 DEF ActiveOK
<1>14. Room'
  BY <1>2, <1>5, RoomKeeps
<1>15. ASSUME NEW p \in OpId \ {f}, op[p].st \in {"s1", "s2"}
       PROVE  sTold'[op[p].call] = sTold[op[p].call]
  <2>1. op[p].st \in Live /\ op[p].call \in Call
    BY <1>15 DEF Live, SubmissionInv, Ops, OpOK
  <2>2. op[p].call # c
    <3>1. CASE f = 0
      BY <1>4, <2>1, <3>1
    <3>2. CASE f # 0
      BY <1>0, <1>4, <3>2 DEF OneHolder, Holds
    <3> QED
      BY <3>1, <3>2
  <2> QED
    BY <1>6, <2>1, <2>2
<1>16. /\ vAsked' = vAsked /\ vAnswer' = vAnswer /\ vOutcome' = vOutcome
       /\ op' = op /\ resultId' = resultId /\ faults' = faults
  BY <1>2 DEF vVars
<1>17. f \in OpId => Single(f)'
  <2>1. 0 \notin OpId
    BY DEF OpId
  <2> QED
    BY <1>4, <1>5, <1>6, <1>7, <1>9, <1>11, <1>16, <2>1, ToldKeeps
<1>18. faults' >= faults
  BY <1>0, <1>16, NoMoreFaults
<1>19. f \in OpId => /\ vOutcome'[f] # <<>> => f \in vAsked'
                     /\ f \in vAsked' => op'[f].st \notin {"none", "s1", "s2"}
  BY <1>0, <1>16 DEF Verified
<1> QED
  BY <1>5, <1>6, <1>7, <1>10, <1>11, <1>12, <1>13, <1>14, <1>15, <1>16, <1>17, <1>18,
     <1>19, MtsStep

\* What the events of an answer are.
AnswerEvent(kind) ==
    CASE kind \in {"send", "drop"} -> "resultInd"
      [] kind = "error" -> "errorInd"
      [] OTHER -> "failure"

\* What waits for an operation that has all of a message settles.
LEMMA SettlingKeeps ==
    ASSUME SubmissionInv, NEW o \in OpId, Settling(o), op'[o].call = op[o].call,
           sTold' = sTold, faults > 0 => faults' > 0,
           vOutcome[o] = <<>>, vOutcome'[o] # <<>>,
           \/ tasks' = tasks
           \/ \E e \in {"resultInd", "errorInd", "failure"} :
                 /\ tasks' = Append(tasks, <<o, e>>)
                 /\ e = "errorInd" => faults > 0
    PROVE  Settling(o)'
<1>0. tasks \in Seq(OpId \X Event)
  BY DEF SubmissionInv, Typed
<1>1. /\ Waiting(tasks, o, <<>>)
      /\ op[o].call \in Call => sTold[op[o].call] # <<>>
  BY DEF Settling
<1>2. ASSUME NEW t \in {<<>>, <<"resultInd">>, <<"errorInd">>, <<F>>},
             Waiting(tasks', o, t), t = <<"errorInd">> => faults > 0
      PROVE  Settling(o)'
  <2>1. Waiting(tasks, o, t)'
    BY <1>2 DEF Waiting
  <2> QED
    BY <1>1, <1>2, <2>1 DEF Settling
<1>3. CASE tasks' = tasks
  <2>1. Waiting(tasks', o, <<>>)
    BY <1>1, <1>3
  <2>2. <<>> # <<"errorInd">>
    OBVIOUS
  <2> QED
    BY <1>2, <2>1, <2>2
<1>4. CASE \E e \in {"resultInd", "errorInd", "failure"} :
              /\ tasks' = Append(tasks, <<o, e>>)
              /\ e = "errorInd" => faults > 0
  <2>1. PICK e \in {"resultInd", "errorInd", "failure"} :
              /\ tasks' = Append(tasks, <<o, e>>)
              /\ e = "errorInd" => faults > 0
    BY <1>4
  <2>2. e \in Event /\ <<>> \in Seq(Event)
    BY DEF Event
  <2>3. Waiting(tasks', o, Append(<<>>, e))
    BY <1>0, <1>1, <2>1, <2>2, WaitingAppend
  <2>4. Append(<<>>, e) = <<e>>
    BY <2>2, ShortQueues
  <2>5. <<e>> \in {<<>>, <<"resultInd">>, <<"errorInd">>, <<F>>}
    BY DEF F
  <2>6. <<e>> = <<"errorInd">> => faults > 0
    BY <2>1
  <2> QED
    BY <1>2, <2>3, <2>4, <2>5, <2>6
<1> QED
  BY <1>3, <1>4

\* The UA's answer to the question reaches the MTS.
LEMMA AnswerKeeps ==
    ASSUME SubmissionInv, NEW o \in OpId, mts_indication(o)
    PROVE  SubmissionInv'
<1>0. /\ Typed /\ STyped /\ Served /\ ActiveOK /\ OneHolder /\ Answers /\ Verified
      /\ Single(o) /\ op[o] \in OpRec /\ op \in [OpId -> OpRec] /\ OpOK(o)
  BY Singles DEF SubmissionInv, Typed, STyped, Ops
<1>1. PICK f : f = findOperationByInvokeId(<<o>>)
  OBVIOUS
<1>2. PICK kind \in {"send", "drop", "garbled", "error", "failure"} :
         /\ V!Indicate(o, kind)
         /\ \/ op' = op
            \/ /\ f # 0 /\ kind \in {"send", "drop"}
               /\ op' = [op EXCEPT ![f].verdict = kind]
         /\ tasks' = tasks \/ FSM_generateEvent(f, AnswerEvent(kind))
         /\ NoFault \/ Fault
  BY <1>1 DEF mts_indication, AnswerEvent
<1>3. UNCHANGED <<sVars, uaVars, active, wild, resultId, restarts>>
  BY DEF mts_indication
<1>4. f = 0 \/ (f = o /\ op[o].call = <<o>>)
  <2>1. LET X == {p \in OpId : op[p].call = <<o>> /\ \E i \in 1 .. Len(active) : active[i] = p}
        IN  IF X = {} THEN f = 0 ELSE f \in X
    BY <1>0, <1>1, FoundByInvokeId
  <2>2. f # 0 => f \in OpId /\ op[f].call = <<o>>
    BY <2>1
  <2>3. f # 0 => f = o
    BY <2>2 DEF SubmissionInv, Ops, OpOK
  <2> QED
    BY <2>2, <2>3
<1>5. /\ o \in vAsked /\ vOutcome[o] = <<>>
      /\ kind \in vAnswer[o] \cup {"failure"}
      /\ vOutcome' = [vOutcome EXCEPT ![o] = <<[kind |-> kind, op |-> o]>>]
      /\ UNCHANGED <<vAsked, vRuns, vAnswer, vTold>>
  BY <1>2 DEF V!Indicate
<1>6. /\ \A p \in OpId \ {o} : vOutcome'[p] = vOutcome[p]
      /\ vOutcome'[o] # <<>>
      /\ vOutcome' \in [OpId -> Seq([kind : {"refused", "send", "drop", "garbled",
                                              "error", "failure"}, op : OpId])]
  <2>1. PICK w : w = <<[kind |-> kind, op |-> o]>>
    OBVIOUS
  <2>2. /\ w \in Seq([kind : {"refused", "send", "drop", "garbled", "error", "failure"},
                      op : OpId])
        /\ w # <<>>
    BY <2>1
  <2>3. vOutcome' = [vOutcome EXCEPT ![o] = w]
    BY <1>5, <2>1
  <2> QED
    BY <1>0, <2>2, <2>3 DEF Typed
<1>7. op[o].st \notin {"none", "s1", "s2"}
  BY <1>0, <1>5 DEF Verified
<1>8. PICK q : /\ op' = [op EXCEPT ![o] = q] /\ q \in OpRec
               /\ q.st = op[o].st /\ q.call = op[o].call /\ q.seq = op[o].seq
               /\ q.last = op[o].last /\ q.segs = op[o].segs
               /\ q.complete = op[o].complete /\ q.timer = op[o].timer
               /\ q.fate = op[o].fate
               /\ q.verdict = "send" => op[o].verdict = "send" \/ "send" \in vAnswer[o]
  <2>1. CASE f # 0 /\ kind \in {"send", "drop"} /\ op' = [op EXCEPT ![f].verdict = kind]
    <3>1. op' = [op EXCEPT ![o].verdict = kind]
      BY <1>2, <1>4, <2>1
    <3>2. PICK r, q : r = op[o] /\ q = [r EXCEPT !.verdict = kind]
      OBVIOUS
    <3>3. op' = [op EXCEPT ![o] = q]
      BY <3>1, <3>2
    <3>4. r \in OpRec /\ kind \in {"send", "drop"} /\ q = [r EXCEPT !.verdict = kind]
      BY <1>0, <2>1, <3>2
    <3>5. /\ q \in OpRec
          /\ q.st = r.st /\ q.call = r.call /\ q.seq = r.seq /\ q.last = r.last
          /\ q.segs = r.segs /\ q.complete = r.complete /\ q.timer = r.timer
          /\ q.fate = r.fate /\ q.verdict = kind
      BY ONLY <3>4 DEF OpRec
    <3>6. kind = "send" => "send" \in vAnswer[o]
      BY <1>5
    <3> QED
      BY <3>2, <3>3, <3>5, <3>6
  <2>2. CASE op' = op
    <3>1. op' = [op EXCEPT ![o] = op[o]]
      BY <1>0, <2>2
    <3> QED
      BY <1>0, <3>1
  <2> QED
    BY <1>2, <2>1, <2>2
<1>9. op'[o] = q /\ op' \in [OpId -> OpRec] /\ \A p \in OpId \ {o} : op'[p] = op[p]
  BY <1>0, <1>8
<1>10. /\ AnswerEvent(kind) \in {"resultInd", "errorInd", "failure"}
       /\ AnswerEvent(kind) \in Event
       /\ AnswerEvent(kind) = "errorInd" => faults > 0
  <2>1. kind = "error" => faults > 0
    BY <1>0, <1>5 DEF Verified
  <2>2. AnswerEvent(kind) = "errorInd" => kind = "error"
    BY DEF AnswerEvent
  <2> QED
    BY <2>1, <2>2 DEF AnswerEvent, Event
<1>11. \/ tasks' = tasks
       \/ f # 0 /\ tasks' = Append(tasks, <<o, AnswerEvent(kind)>>)
  BY <1>2, <1>4 DEF FSM_generateEvent
<1>12. QueueStep(o)
  BY <1>10, <1>11 DEF QueueStep
<1>13. faults \in Nat /\ faults' \in 0 .. MaxFaults /\ faults' >= faults
  BY <1>0, <1>2, NoMoreFaults
<1>14. faults > 0 => faults' > 0
  BY <1>13, SubmissionAssumption
<1>15. Typed' /\ STyped' /\ Served' /\ MtsFrame /\ Kept
  <2>1. tasks' \in Seq(OpId \X Event)
    BY <1>0, <1>12, QueueTyped
  <2>2. STyped' /\ Served' /\ MtsFrame /\ Kept
    BY <1>0, <1>3 DEF STyped, Served, MtsFrame, Kept, sVars, uaVars
  <2> QED
    BY <1>0, <1>3, <1>5, <1>6, <1>9, <1>13, <2>1, <2>2 DEF Typed, STyped, sVars, uaVars
<1>16. OneHolder' /\ Answers'
  <2>1. \A p \in OpId : op'[p].call = op[p].call /\ op'[p].segs = op[p].segs
    BY <1>8, <1>9
  <2> QED
    BY <1>3, <2>1, HoldersStay DEF sVars
<1>17. ActiveOK' /\ Room'
  <2>1. \A p \in OpId : op'[p].st = op[p].st
    BY <1>8, <1>9
  <2> QED
    BY <1>0, <1>3, <1>15, <2>1, RoomKeeps DEF ActiveOK
<1>18. sRuns' = sRuns /\ seqOf' = seqOf /\ sAnswer' = sAnswer /\ sTold' = sTold
       /\ sOutcome' = sOutcome /\ resultId' = resultId /\ active' = active
  BY <1>3 DEF sVars, uaVars
<1>19. OpOK(o)'
  <2>1. OpOK(o)' <=> OpOK(o)
    BY <1>7, <1>8, <1>9, <1>18 DEF OpOK
  <2> QED
    BY <1>0, <2>1
<1>20. \A m \in Msg : (Alone(m)' <=> Alone(m)) /\ Whole(m)' = Whole(m)
  BY <1>18 DEF Alone, Whole
<1>21. \A m \in Msg : \A k : Has(o, m, k)' <=> Has(o, m, k)
  BY <1>8, <1>9 DEF Has
<1>22. ASSUME NEW m \in Msg, Alone(m)', Owns(o, m)' PROVE Orderly(o, m)'
  <2>1. Owns(o, m)
    BY <1>8, <1>9, <1>22 DEF Owns, Holds, Has
  <2>2. Orderly(o, m)
    BY <1>0, <1>20, <1>22, <2>1 DEF Single
  <2> QED
    BY <1>7, <1>8, <1>9, <2>2 DEF Orderly
<1>23. Account(o)'
  <2> SUFFICES ASSUME NEW m \in Msg, Alone(m)', Has(o, m, Last(m))',
                      sAnswer'[<<m, Last(m)>>] = {"result"}
               PROVE  (/\ op[o].segs = Whole(m) /\ op[o].complete
                       /\ \/ op[o].st = "s2"
                          \/ op[o].st = "s3" /\ Settling(o)
                          \/ op[o].fate = "spooled"
                          \/ op[o].fate = "dropped" /\ o \in vAsked
                          \/ op[o].fate = "lost" /\ faults > 0)'
    BY Zenon DEF Account
  <2>1. Alone(m) /\ Has(o, m, Last(m)) /\ sAnswer[<<m, Last(m)>>] = {"result"}
    BY <1>18, <1>20, <1>21
  <2>2. /\ op[o].segs = Whole(m) /\ op[o].complete
        /\ \/ op[o].st = "s2"
           \/ op[o].st = "s3" /\ Settling(o)
           \/ op[o].fate = "spooled"
           \/ op[o].fate = "dropped" /\ o \in vAsked
           \/ op[o].fate = "lost" /\ faults > 0
    BY <1>0, <2>1 DEF Single, Account
  <2>3. Settling(o) => Settling(o)'
    <3>1. op'[o].call = op[o].call
      BY <1>8, <1>9
    <3>2. \/ tasks' = tasks
          \/ \E e \in {"resultInd", "errorInd", "failure"} :
                /\ tasks' = Append(tasks, <<o, e>>)
                /\ e = "errorInd" => faults > 0
      BY <1>10, <1>11
    <3> QED
      BY <1>5, <1>6, <1>18, <1>14, <3>1, <3>2, SettlingKeeps
  <2>4. op'[o].segs = Whole(m)' /\ op'[o].complete
    BY <1>8, <1>9, <1>20, <2>2
  <2> QED
    BY <1>5, <1>8, <1>9, <1>18, <1>14, <2>2, <2>3, <2>4
<1>24. Pass(o)'
  BY <1>0, <1>8, <1>9, <1>18, <1>20, <1>21 DEF Single, Pass, Outcome
<1>25. Single(o)'
  <2>1. op'[o].fate = "spooled" => 0 \in DOMAIN op'[o].segs
    BY <1>0, <1>8, <1>9 DEF Single
  <2> QED
    BY <1>19, <1>22, <1>23, <1>24, <2>1 DEF Single
<1>26. /\ o \in vAsked' /\ vAsked' = vAsked /\ vAnswer' = vAnswer
       /\ op'[o].st \notin {"none", "s1", "s2"}
       /\ op'[o].verdict = "send" => op[o].verdict = "send" \/ "send" \in vAnswer[o]
  BY <1>5, <1>7, <1>8, <1>9
<1> QED
  BY <1>6, <1>9, <1>12, <1>13, <1>15, <1>16, <1>17, <1>18, <1>25, <1>26, MtsStep

\* What being handed a call changes of the service.
LEMMA Performed ==
    ASSUME SubmissionInv, NEW c \in Call, S!Perform(c)
    PROVE  /\ STyped' /\ Served' /\ Kept /\ sAsked' = sAsked /\ sOutcome' = sOutcome
           /\ sAnswer' = sAnswer /\ sTold' = sTold
           /\ c \in sAsked /\ sRuns[c] = 0 /\ sRuns'[c] = 1
           /\ \A d \in Call : d # c => sRuns'[d] = sRuns[d]
           /\ \A p \in OpId : ~ Holds(p, c)
           /\ sAnswer[c] = {} /\ sTold[c] = <<>> /\ resultId[c] = 0
<1>1. STyped /\ Served
  BY DEF SubmissionInv, Typed, STyped
<1>2. /\ sAnswer' = sAnswer /\ sTold' = sTold
      /\ c \in sAsked /\ sRuns[c] = 0 /\ sRuns'[c] = 1
      /\ \A d \in Call : d # c => sRuns'[d] = sRuns[d]
  BY <1>1 DEF S!Perform, STyped
<1>3. STyped' /\ Served' /\ Kept /\ sAsked' = sAsked /\ sOutcome' = sOutcome
  BY <1>1, PerformerStep
<1> QED
  BY <1>2, <1>3, NoHolder

\* Handing a call to operation o leaves each call with one operation.
LEMMA CallHanded ==
    ASSUME SubmissionInv, NEW c \in Call, NEW o \in OpId, NEW q,
           op'[o] = q, \A p \in OpId \ {o} : op'[p] = op[p],
           q.call = c, q.segs = op[o].segs,
           \A p \in OpId : ~ Holds(p, c),
           sAnswer' = sAnswer, resultId' = resultId
    PROVE  OneHolder' /\ Answers'
<1>1. \A p \in OpId : \A m, k : Has(p, m, k)' <=> Has(p, m, k)
  BY DEF Has
<1>2. ASSUME NEW p \in OpId, NEW d \in Call, Holds(p, d)'
      PROVE  Holds(p, d) \/ (p = o /\ d = c)
  BY <1>1, <1>2 DEF Holds
<1>3. OneHolder'
  <2> SUFFICES ASSUME NEW p \in OpId, NEW r \in OpId, NEW d \in Call,
                      Holds(p, d)', Holds(r, d)'
               PROVE  p = r
    BY DEF OneHolder
  <2> QED
    BY <1>2 DEF SubmissionInv, Ops, OneHolder
<1>4. Answers'
  <2>1. Answers /\ Typed
    BY DEF SubmissionInv, Ops
  <2>2. \A d \in Call : resultId[d] # 0 => resultId[d] \in OpId
    BY <2>1 DEF Typed
  <2> QED
    BY <1>1, <2>1, <2>2 DEF Answers
<1> QED
  BY <1>3, <1>4

\* The first segment of a message begins an operation.
LEMMA BegunKeeps ==
    ASSUME SubmissionInv, NEW c \in Call, mts_invokeIndication(c), c[2] = 0
    PROVE  SubmissionInv'
<1>a. PICK o : o = FreshOp
  OBVIOUS
<1>0. /\ Typed /\ ActiveOK /\ Room /\ Verified /\ op \in [OpId -> OpRec]
      /\ active \in Seq(OpId) /\ tasks \in Seq(OpId \X Event)
  BY DEF SubmissionInv, Typed
<1>1. /\ S!Perform(c)
      /\ op' = [op EXCEPT ![o].call = c, ![o].st = IF @ = "none" THEN "s1" ELSE @]
      /\ active' = Append(active, o)
      /\ FSM_generateEvent(o, "invoke")
      /\ UNCHANGED <<vVars, uaVars, wild, resultId, restarts, faults>>
  BY <1>a DEF mts_invokeIndication
<1>2. /\ STyped' /\ Served' /\ Kept /\ sAsked' = sAsked /\ sOutcome' = sOutcome
      /\ sAnswer' = sAnswer /\ sTold' = sTold
      /\ c \in sAsked /\ sRuns[c] = 0 /\ sRuns'[c] = 1
      /\ \A d \in Call : d # c => sRuns'[d] = sRuns[d]
      /\ \A p \in OpId : ~ Holds(p, c)
      /\ sAnswer[c] = {} /\ sTold[c] = <<>> /\ resultId[c] = 0
  BY <1>1, Performed
<1>3. o \in OpId /\ op[o].st = "none"
  BY <1>a, <1>0, <1>2, FreshOpLeft
<1>4. op[o] = NoOp /\ \A i \in 1 .. Len(tasks) : tasks[i][1] # o
  BY <1>3 DEF SubmissionInv, Ops, OpOK
<1>5. PICK q : /\ op' = [op EXCEPT ![o] = q] /\ q \in OpRec
               /\ q.st = "s1" /\ q.call = c /\ q.segs = <<>> /\ q.seq = 0
               /\ q.complete = FALSE /\ q.timer = FALSE /\ q.verdict = "none"
               /\ q.fate = "none"
  <2>1. PICK r, q : r = op[o] /\ q = [r EXCEPT !.call = c, !.st = "s1"]
    OBVIOUS
  <2>2. op' = [op EXCEPT ![o] = q]
    BY <1>1, <1>3, <2>1
  <2>3. r \in OpRec /\ q = [r EXCEPT !.call = c, !.st = "s1"] /\ c \in Call
    BY <1>0, <1>3, <2>1
  <2>4. /\ q \in OpRec /\ q.st = "s1" /\ q.call = c /\ q.segs = r.segs /\ q.seq = r.seq
        /\ q.complete = r.complete /\ q.timer = r.timer /\ q.verdict = r.verdict
        /\ q.fate = r.fate
    BY ONLY <2>3 DEF OpRec
  <2>5. /\ r.segs = <<>> /\ r.seq = 0 /\ r.complete = FALSE /\ r.timer = FALSE
        /\ r.verdict = "none" /\ r.fate = "none"
    BY <1>4, <2>1 DEF NoOp
  <2> QED
    BY <2>2, <2>4, <2>5
<1>6. op'[o] = q /\ op' \in [OpId -> OpRec] /\ \A p \in OpId \ {o} : op'[p] = op[p]
  BY <1>0, <1>3, <1>5
<1>7. 0 \notin OpId /\ tasks' = Append(tasks, <<o, I>>) /\ I \in Event
  <2>1. 0 \notin OpId
    BY DEF OpId
  <2> QED
    BY <1>1, <1>3, <2>1 DEF FSM_generateEvent, I, Event
<1>8. QueueStep(o)
  BY <1>3, <1>7 DEF QueueStep
<1>9. /\ wild' = wild /\ faults' = faults /\ resultId' = resultId
      /\ vAsked' = vAsked /\ vAnswer' = vAnswer /\ vOutcome' = vOutcome
      /\ seqOf' = seqOf
  BY <1>1 DEF vVars, uaVars
<1>10. MtsFrame
  BY <1>1, <1>2 DEF MtsFrame, uaVars
<1>11. active' \in Seq(OpId)
  BY <1>0, <1>1, <1>3
<1>12. Typed'
  <2>1. tasks' \in Seq(OpId \X Event)
    BY <1>0, <1>8, QueueTyped
  <2> QED
    BY <1>0, <1>1, <1>2, <1>6, <1>9, <1>11, <2>1 DEF Typed, STyped, vVars, uaVars
<1>13. ActiveOK'
  <2>1. PICK n : n = Len(active)
    OBVIOUS
  <2>2. /\ n \in Nat /\ Len(active') = n + 1 /\ active'[n + 1] = o
        /\ \A i \in 1 .. n : active'[i] = active[i]
    BY <1>0, <1>1, <1>3, <2>1, AppendFacts
  <2>3. \A p \in OpId : op[p].st \in Live <=> \E i \in 1 .. n : active[i] = p
    BY <1>0, <2>1 DEF ActiveOK
  <2>4. \A i, j \in 1 .. n : active[i] = active[j] => i = j
    BY <1>0, <2>1 DEF ActiveOK
  <2>5. \A i \in 1 .. n : active[i] # o
    BY <1>3, <2>3 DEF Live
  <2>6. ASSUME NEW p \in OpId
        PROVE  op'[p].st \in Live <=> \E i \in 1 .. n + 1 : active'[i] = p
    <3>1. CASE p = o
      <4>1. n + 1 \in 1 .. n + 1
        BY <2>2
      <4> QED
        BY <1>5, <1>6, <2>2, <3>1, <4>1 DEF Live
    <3>2. CASE p # o
      <4>1. (\E i \in 1 .. n + 1 : active'[i] = p) <=> \E i \in 1 .. n : active[i] = p
        BY <2>2, <3>2
      <4> QED
        BY <1>6, <2>3, <3>2, <4>1
    <3> QED
      BY <3>1, <3>2
  <2>7. ASSUME NEW i \in 1 .. n + 1, NEW j \in 1 .. n + 1, active'[i] = active'[j]
        PROVE  i = j
    BY <2>2, <2>4, <2>5, <2>7
  <2> QED
    BY <2>2, <2>6, <2>7 DEF ActiveOK
<1>14. Room'
  <2> DEFINE D == {d \in Call : sRuns[d] = 1}
             D2 == {d \in Call : sRuns'[d] = 1}
  <2>1. D2 = D \cup {c} /\ c \notin D
    BY <1>2
  <2>2. Begun' = Begun \cup {o} /\ o \notin Begun
    BY <1>3, <1>5, <1>6 DEF Begun
  <2>3. IsFiniteSet(D) /\ IsFiniteSet(Begun)
    BY CallsFinite, OpIdFinite, FS_Subset DEF Begun
  <2> HIDE DEF D, D2
  <2>4. Cardinality(D \cup {c}) = Cardinality(D) + 1
    BY <2>1, <2>3, FS_AddElement
  <2>5. Cardinality(Begun \cup {o}) = Cardinality(Begun) + 1
    BY <2>2, <2>3, FS_AddElement
  <2>6. Cardinality(D) \in Nat /\ Cardinality(Begun) \in Nat
    BY <2>3, FS_CardinalityType
  <2>7. Cardinality(Begun) <= Cardinality(D)
    BY <1>0 DEF Room, D
  <2>8. Cardinality(Begun') <= Cardinality(D2)
    BY <2>1, <2>2, <2>4, <2>5, <2>6, <2>7
  <2> QED
    BY <2>8 DEF Room, D2
<1>15. OneHolder' /\ Answers'
  <2>1. q.segs = op[o].segs
    BY <1>4, <1>5 DEF NoOp
  <2> QED
    BY <1>2, <1>3, <1>5, <1>6, <1>9, <2>1, CallHanded
<1>16. DOMAIN q.segs = {}
  BY <1>5
<1>17. OpOK(o)'
  <2>1. \A p \in OpId : c = <<p>> => p = o
    BY QuestionNoCall
  <2>2. q.st \in Live
    BY <1>5 DEF Live
  <2> QED
    BY <1>2, <1>3, <1>5, <1>6, <1>16, <2>1, <2>2, OpSound
<1>18. ASSUME NEW m \in Msg, Owns(o, m)' PROVE Orderly(o, m)'
  <2>1. c = <<m, 0>>
    BY <1>5, <1>6, <1>16, <1>18 DEF Owns, Holds, Has
  <2>2. Waiting(tasks', o, <<I>>)
    <3>1. Waiting(tasks, o, <<>>)
      BY <1>0, <1>3, <1>4, WaitingNone
    <3>2. <<>> \in Seq(Event)
      OBVIOUS
    <3>3. Waiting(tasks', o, Append(<<>>, I))
      BY <1>0, <1>3, <1>7, <3>1, <3>2, WaitingAppend
    <3>4. Append(<<>>, I) = <<I>>
      BY <1>7, ShortQueues
    <3> QED
      BY <3>3, <3>4
  <2>3. PICK X : X = Shapes(q.st, c[2] \in DOMAIN q.segs, sAnswer'[c] = {"result"}, sTold'[c])
    OBVIOUS
  <2>4. <<I>> \in X
    <3>1. (c[2] \in DOMAIN q.segs) = FALSE
      BY <1>16
    <3>2. (sAnswer'[c] = {"result"}) = FALSE
      BY <1>2
    <3>3. X = Shapes("s1", FALSE, FALSE, <<>>)
      BY <1>2, <1>5, <2>3, <3>1, <3>2
    <3> QED
      BY <3>3 DEF Shapes
  <2>5. \E t \in X : Waiting(tasks', o, t)
    BY <2>2, <2>4
  <2>6. c[1] = m /\ sAnswer'[c] = {} /\ sTold'[c] = <<>>
    BY <1>2, <2>1
  <2>7. op'[o] = q /\ q.call = c
    BY <1>5, <1>6
  <2>8. /\ \A k \in DOMAIN q.segs : q.segs[k] = m
        /\ c \in Call => c[1] = m
        /\ c \in Call => \A k \in DOMAIN q.segs : k <= c[2]
    BY <1>16, <2>6
  <2>9. /\ q.st \in {"s1", "s2"} => \E t \in X : Waiting(tasks', o, t)
        /\ q.st \in {"s1", "s2"} =>
              /\ c[2] \notin DOMAIN q.segs => sAnswer'[c] = {}
              /\ sAnswer'[c] # {"error"}
              /\ sAnswer'[c] = {} => sTold'[c] \in {<<>>, <<"failure">>}
    BY <2>5, <2>6
  <2>10. \A t : Waiting(tasks', o, t) <=> Waiting(tasks, o, t)'
    BY DEF Waiting
  <2>11. op'[o].call = c /\ op'[o].segs = q.segs /\ op'[o].st = q.st
    BY <2>7
  <2>12. X = Shapes(op'[o].st, c[2] \in DOMAIN op'[o].segs, sAnswer'[c] = {"result"}, sTold'[c])
    BY <2>3, <2>11
  <2> QED
    BY <2>8, <2>9, <2>10, <2>11, <2>12 DEF Orderly
<1>19. Account(o)' /\ Pass(o)' /\ op'[o].fate # "spooled"
  BY <1>5, <1>6, <1>16 DEF Account, Pass, Has
<1>20. Single(o)'
  BY <1>17, <1>18, <1>19 DEF Single
<1>21. faults' >= faults
  BY <1>0, <1>9, NoMoreFaults
<1>22. /\ o \notin vAsked /\ vOutcome[o] = <<>>
  BY <1>0, <1>3 DEF Verified
<1> QED
  BY <1>2, <1>5, <1>6, <1>8, <1>9, <1>10, <1>12, <1>13, <1>14, <1>15, <1>20, <1>21,
     <1>22, MtsStep

\* The operation that is handed another segment has the one before, and has
\* answered it.
LEMMA SegmentBefore ==
    ASSUME SubmissionInv, NEW o \in OpId, op[o].st \in {"s1", "s2"},
           NEW m \in Msg, Alone(m), Owns(o, m),
           NEW k \in 0 .. Last(m), k > 0, <<m, k>> \in sAsked, sRuns[<<m, k>>] = 0
    PROVE  LET d == op[o].call
           IN  /\ \A i \in DOMAIN op[o].segs : op[o].segs[i] = m /\ i < k
               /\ d \in Call /\ d[2] \in DOMAIN op[o].segs
               /\ sAnswer[d] = {"result"}
<1> DEFINE d == op[o].call
<1>1. /\ OpOK(o) /\ Served /\ Orderly(o, m)
      /\ op[o].segs \in UNION {[D -> Msg] : D \in SUBSET Nat}
  BY DEF SubmissionInv, Ops, Order, Typed, OpRec
<1>2. /\ <<m, k>> \in Call /\ k \in Nat /\ Last(m) \in Nat
      /\ sAnswer[<<m, k>>] = {} /\ \A p \in OpId : ~ Holds(p, <<m, k>>)
  <2>1. <<m, k>> \in Call /\ Last(m) \in Nat
    BY CallIs
  <2>2. PICK c : c = <<m, k>>
    OBVIOUS
  <2>3. sAnswer[c] = {} /\ \A p \in OpId : ~ Holds(p, c)
    BY <2>1, <2>2, NoHolder
  <2> QED
    BY <2>1, <2>2, <2>3
<1>3. ASSUME NEW i \in 0 .. Last(m), sRuns[<<m, i>>] = 1 PROVE i <= k
  <2>1. <<m, i>> \in sAsked
    BY <1>1, <1>3, CallIs DEF Served
  <2>2. k < i => sAnswer[<<m, k>>] = {"result"}
    BY <2>1, AskedBefore
  <2> QED
    BY <1>2, <1>3, <2>2
<1>4. ASSUME NEW i \in DOMAIN op[o].segs PROVE op[o].segs[i] = m /\ i < k
  <2>1. op[o].segs[i] = m /\ <<m, i>> \in Call /\ sRuns[<<m, i>>] = 1
    BY <1>1 DEF OpOK, Orderly
  <2>2. i \in 0 .. Last(m)
    <3>1. <<m, i>>[2] \in 0 .. Last(<<m, i>>[1])
      BY <2>1, CallParts
    <3> QED
      BY <3>1
  <2>3. i <= k
    BY <1>3, <2>1, <2>2
  <2>4. i # k
    <3>1. ~ Has(o, <<m, k>>[1], <<m, k>>[2])
      BY <1>2 DEF Holds
    <3> QED
      BY <2>1, <3>1 DEF Has
  <2> QED
    BY <1>2, <2>1, <2>2, <2>3, <2>4
<1>5. k - 1 \in 0 .. Last(m) /\ k - 1 < k /\ k - 1 \in Nat
  BY <1>2
<1>6. sAnswer[<<m, k - 1>>] = {"result"}
  BY <1>5, AskedBefore
<1>7. k - 1 \in DOMAIN op[o].segs
  <2>1. Has(o, m, k - 1)
    BY <1>5, <1>6, AnsweredHeld
  <2> QED
    BY <2>1 DEF Has
<1>8. /\ d \in Call /\ sRuns[d] = 1 /\ d[1] = m /\ d = <<m, d[2]>>
      /\ d[2] \in 0 .. Last(m) /\ d # <<m, k>>
  <2>1. d \in Call /\ sRuns[d] = 1 /\ d[1] = m
    BY <1>1 DEF OpOK, Orderly
  <2>2. d # <<m, k>>
    BY <1>2 DEF Holds
  <2> QED
    BY <2>1, <2>2, CallParts
<1>9. d[2] <= k
  <2>1. PICK i : i = d[2]
    OBVIOUS
  <2>2. i \in 0 .. Last(m) /\ sRuns[<<m, i>>] = 1
    BY <1>8, <2>1
  <2> QED
    BY <1>3, <2>1, <2>2
<1>10. d[2] = k - 1
  <2>1. k - 1 <= d[2]
    BY <1>1, <1>7, <1>8 DEF Orderly
  <2>2. d[2] # k
    BY <1>8
  <2> QED
    BY <1>2, <1>8, <1>9, <2>1, <2>2
<1> QED
  BY <1>4, <1>6, <1>7, <1>8, <1>10

\* What waits for an operation that is handed another segment.
LEMMA ShapeHanded ==
    ASSUME NEW st \in {"s1", "s2"}, NEW told, NEW t \in Shapes(st, TRUE, TRUE, told)
    PROVE  Append(t, I) \in Shapes(st, FALSE, FALSE, <<>>)
<1>0. F \in Event /\ R \in Event /\ I \in Event
  BY DEF F, R, I, Event
<1> HIDE DEF F, R, I
<1>1. /\ Append(<<>>, I) = <<I>> /\ Append(<<R>>, I) = <<R, I>>
      /\ Append(<<F>>, I) = <<F, I>>
  BY <1>0, ShortQueues
<1>2. CASE st = "s1"
  BY <1>1, <1>2 DEF Shapes
<1>3. CASE st = "s2"
  BY <1>1, <1>3 DEF Shapes
<1> QED
  BY <1>2, <1>3

\* Another segment of a message goes to the operation with its sequence id.
LEMMA HandedKeeps ==
    ASSUME SubmissionInv, NEW c \in Call, mts_invokeIndication(c), c[2] # 0
    PROVE  SubmissionInv'
<1>a. PICK o : o = findOperationBySequenceId(seqOf[c[1]])
  OBVIOUS
<1>0. /\ Typed /\ ActiveOK /\ Room /\ Verified /\ op \in [OpId -> OpRec]
      /\ active \in Seq(OpId) /\ tasks \in Seq(OpId \X Event)
  BY DEF SubmissionInv, Typed
<1>b. PICK k, m : c = <<m, k>> /\ m \in Msg /\ k \in 0 .. Last(m) /\ k > 0
                  /\ Last(m) \in Nat
  <2>1. /\ c = <<c[1], c[2]>> /\ c[1] \in Msg /\ c[2] \in 0 .. Last(c[1])
        /\ Last(c[1]) \in Nat
    BY CallParts
  <2> QED
    BY <2>1
<1>1. /\ S!Perform(c)
      /\ o # 0
      /\ op' = [op EXCEPT ![o].call = c, ![o].st = IF @ = "none" THEN "s1" ELSE @]
      /\ active' = active
      /\ FSM_generateEvent(o, "invoke")
      /\ UNCHANGED <<vVars, uaVars, wild, resultId, restarts, faults>>
  BY <1>a DEF mts_invokeIndication
<1>2. /\ STyped' /\ Served' /\ Kept /\ sAsked' = sAsked /\ sOutcome' = sOutcome
      /\ sAnswer' = sAnswer /\ sTold' = sTold
      /\ c \in sAsked /\ sRuns[c] = 0 /\ sRuns'[c] = 1
      /\ \A d \in Call : d # c => sRuns'[d] = sRuns[d]
      /\ \A p \in OpId : ~ Holds(p, c)
      /\ sAnswer[c] = {} /\ sTold[c] = <<>> /\ resultId[c] = 0
  BY <1>1, Performed
<1>3. /\ o \in OpId /\ op[o].st \in Live /\ op[o].seq = seqOf[m]
      /\ seqOf[m] \in Nat /\ seqOf[m] # 0
  <2>1. o \in OpId /\ op[o].seq = seqOf[m] /\ \E i \in 1 .. Len(active) : active[i] = o
    <3>1. PICK q : q = seqOf[c[1]]
      OBVIOUS
    <3>2. o = findOperationBySequenceId(q)
      BY <1>a, <3>1
    <3>3. /\ o \in {p \in OpId : op[p].seq = q /\ \E i \in 1 .. Len(active) : active[i] = p}
      BY <1>0, <1>1, <3>2, FoundBySequenceId
    <3> QED
      BY <1>b, <3>1, <3>3
  <2>2. op[o].st \in Live
    BY <1>0, <2>1 DEF ActiveOK
  <2>3. seqOf[m] \in Nat
    BY <1>0, <1>b DEF Typed
  <2>4. seqOf[m] > 0
    BY <1>2, <1>b, AskedBefore
  <2> QED
    BY <2>1, <2>2, <2>3, <2>4
<1>4. OpOK(o) /\ Single(o)
  BY <1>3, Singles DEF SubmissionInv, Ops
<1>5. PICK r, q : /\ r = op[o] /\ op' = [op EXCEPT ![o] = q] /\ q \in OpRec /\ r \in OpRec
                  /\ q.st = r.st /\ q.call = c /\ q.segs = r.segs /\ q.seq = r.seq
                  /\ q.last = r.last /\ q.complete = r.complete /\ q.timer = r.timer
                  /\ q.verdict = r.verdict /\ q.fate = r.fate
  <2>1. PICK r, q : r = op[o] /\ q = [r EXCEPT !.call = c, !.st = r.st]
    OBVIOUS
  <2>2. op' = [op EXCEPT ![o] = q]
    <3>1. op[o].st # "none"
      BY <1>3 DEF Live
    <3> QED
      BY <1>1, <1>3, <2>1, <3>1
  <2>3. r \in OpRec /\ q = [r EXCEPT !.call = c, !.st = r.st] /\ c \in Call
    BY <1>0, <1>3, <2>1
  <2>4. /\ q \in OpRec /\ q.st = r.st /\ q.call = c /\ q.segs = r.segs /\ q.seq = r.seq
        /\ q.last = r.last /\ q.complete = r.complete /\ q.timer = r.timer
        /\ q.verdict = r.verdict /\ q.fate = r.fate
    BY ONLY <2>3 DEF OpRec
  <2> QED
    BY <2>1, <2>2, <2>3, <2>4, ZenonT(60)
<1>6. op'[o] = q /\ op' \in [OpId -> OpRec] /\ \A p \in OpId \ {o} : op'[p] = op[p]
  BY <1>0, <1>3, <1>5
<1>7. 0 \notin OpId /\ tasks' = Append(tasks, <<o, I>>) /\ I \in Event
  BY <1>1, <1>3 DEF FSM_generateEvent, I, Event, OpId
<1>8. QueueStep(o)
  BY <1>3, <1>7 DEF QueueStep
<1>9. /\ wild' = wild /\ faults' = faults /\ resultId' = resultId
      /\ vAsked' = vAsked /\ vAnswer' = vAnswer /\ vOutcome' = vOutcome
      /\ seqOf' = seqOf
  BY <1>1 DEF vVars, uaVars
<1>10. MtsFrame
  BY <1>1, <1>2 DEF MtsFrame, uaVars
<1>11. tasks' \in Seq(OpId \X Event)
  BY <1>0, <1>8, QueueTyped
<1>12. Typed'
  BY <1>0, <1>1, <1>2, <1>6, <1>9, <1>11 DEF Typed, STyped, vVars, uaVars
<1>13. ActiveOK'
  <2>1. \A p \in OpId : op'[p].st = op[p].st
    BY <1>5, <1>6
  <2> QED
    BY <1>0, <1>1, <2>1 DEF ActiveOK
<1>14. Room'
  <2>1. \A p \in OpId : op'[p].st = "none" <=> op[p].st = "none"
    BY <1>5, <1>6
  <2> QED
    BY <1>2, <2>1, RoomKeeps
<1>15. OneHolder' /\ Answers'
  <2>1. q.call = c /\ q.segs = op[o].segs
    BY <1>5
  <2> QED
    BY <1>2, <1>3, <1>6, <1>9, <2>1, CallHanded
<1>16. r.fate = "none"
  BY <1>3, <1>4, <1>5 DEF OpOK, Live
<1>17. OpOK(o)'
  <2>1. \A p \in OpId : c = <<p>> => p = o
    BY QuestionNoCall
  <2>2. q.st \in Live /\ q.fate = "none" /\ q.seq # 0 /\ q.seq = seqOf[m] /\ c[1] = m
    BY <1>3, <1>5, <1>16, <1>b
  <2>3. q.st \in {"s1", "s2", "s3"} => 0 \in DOMAIN q.segs
    BY <1>3, <1>4, <1>5 DEF OpOK
  <2>4. ASSUME NEW i \in DOMAIN q.segs
        PROVE  /\ <<q.segs[i], i>> \in Call /\ sRuns'[<<q.segs[i], i>>] = 1
               /\ 0 \in DOMAIN q.segs /\ seqOf'[q.segs[i]] = q.seq
    <3>1. /\ <<q.segs[i], i>> \in Call /\ sRuns[<<q.segs[i], i>>] = 1
          /\ 0 \in DOMAIN q.segs /\ seqOf[q.segs[i]] = q.seq
      BY <1>4, <1>5 DEF OpOK
    <3>2. <<q.segs[i], i>> # c
      BY <1>2, <3>1
    <3> QED
      BY <1>2, <1>9, <3>1, <3>2
  <2>5. 0 \in DOMAIN q.segs => q.last = Last(q.segs[0])
    BY <1>4, <1>5 DEF OpOK
  <2>6. /\ q.complete <=> q.segs # <<>> /\ DOMAIN q.segs = 0 .. q.last
        /\ q.complete => ~ q.timer
        /\ q.st = "s3" => q.complete
    BY <1>4, <1>5 DEF OpOK
  <2>7. q.st \in {"s1", "s2"} => c \in Call /\ (c[2] > 0 => 0 \in DOMAIN q.segs)
    BY <2>3
  <2>8. /\ seqOf'[c[1]] = q.seq /\ sRuns'[c] = 1 /\ c[2] # 0
    BY <1>2, <1>9, <2>2
  <2>9. q.call = c
    BY <1>5
  <2> QED
    BY <1>3, <1>6, <2>1, <2>2, <2>3, <2>4, <2>5, <2>6, <2>7, <2>8, <2>9, OpSound
<1>18. ASSUME NEW n \in Msg, Alone(n)', Has(o, n, 0) PROVE n = m /\ Alone(m)
  <2>1. Alone(n)
    BY <1>9, <1>18 DEF Alone
  <2>2. seqOf[n] = op[o].seq
    BY <1>4, <1>18 DEF OpOK, Has
  <2> QED
    BY <1>3, <1>b, <2>1, <2>2 DEF Alone
<1>19. ASSUME NEW n \in Msg, Alone(n)', Owns(o, n)' PROVE Orderly(o, n)'
  <2>1. Has(o, n, 0) /\ Owns(o, n)
    <3>1. c # <<n, 0>>
      OBVIOUS
    <3>2. Has(o, n, 0)
      BY <1>5, <1>6, <1>19, <3>1 DEF Owns, Holds, Has
    <3> QED
      BY <3>2 DEF Owns, Holds
  <2>2. n = m /\ Alone(m)
    BY <1>18, <1>19, <2>1
  <2>3. Orderly(o, m) /\ Owns(o, m)
    BY <1>3, <1>b, <2>1, <2>2 DEF SubmissionInv, Order
  <2>4. \A i \in DOMAIN q.segs : q.segs[i] = n /\ i <= k
    <3>1. ASSUME NEW i \in DOMAIN op[o].segs PROVE op[o].segs[i] = m /\ i <= k
      <4>1. op[o].segs[i] = m /\ <<m, i>> \in Call /\ sRuns[<<m, i>>] = 1
        BY <1>4, <2>3 DEF OpOK, Orderly
      <4>2. i \in 0 .. Last(m) /\ <<m, i>> \in sAsked
        <5>1. <<m, i>>[2] \in 0 .. Last(<<m, i>>[1])
          BY <4>1, CallParts
        <5> QED
          BY <4>1, <5>1 DEF SubmissionInv, Served
      <4>3. k < i => sAnswer[<<m, k>>] = {"result"}
        BY <1>b, <4>2, AskedBefore
      <4>4. sAnswer[<<m, k>>] = {}
        BY <1>2, <1>b
      <4> QED
        BY <1>b, <4>1, <4>2, <4>3, <4>4
    <3> QED
      BY <1>5, <2>2, <3>1
  <2>5. k \notin DOMAIN q.segs
    <3>1. ~ Has(o, m, k)
      BY <1>2, <1>3, <1>b DEF Holds
    <3> QED
      BY <1>5, <2>2, <2>4, <3>1 DEF Has
  <2>6. PICK X : X = Shapes(q.st, c[2] \in DOMAIN q.segs, sAnswer'[c] = {"result"}, sTold'[c])
    OBVIOUS
  <2>7. ASSUME q.st \in {"s1", "s2"} PROVE \E t \in X : Waiting(tasks', o, t)
    <3>1. PICK d : d = op[o].call
      OBVIOUS
    <3>2. /\ op[o].st \in {"s1", "s2"} /\ op[o].st = q.st
      BY <1>5, <2>7
    <3>3. d \in Call /\ d[2] \in DOMAIN op[o].segs /\ sAnswer[d] = {"result"}
      BY <1>2, <1>3, <1>b, <2>2, <2>3, <3>1, <3>2, SegmentBefore
    <3>4. PICK t \in Shapes(op[o].st, d[2] \in DOMAIN op[o].segs,
                            sAnswer[d] = {"result"}, sTold[d]) : Waiting(tasks, o, t)
      BY <2>3, <3>1, <3>2 DEF Orderly
    <3>5. (d[2] \in DOMAIN op[o].segs) = TRUE /\ (sAnswer[d] = {"result"}) = TRUE
      BY <3>3
    <3>6. t \in Shapes(q.st, TRUE, TRUE, sTold[d])
      BY <3>2, <3>4, <3>5
    <3>7. Append(t, I) \in Shapes(q.st, FALSE, FALSE, <<>>)
      BY <2>7, <3>6, ShapeHanded
    <3>8. t \in Seq(Event)
      BY <3>4, ShapesTyped
    <3>9. Waiting(tasks', o, Append(t, I))
      BY <1>0, <1>3, <1>7, <3>4, <3>8, WaitingAppend
    <3>10. (c[2] \in DOMAIN q.segs) = FALSE /\ (sAnswer'[c] = {"result"}) = FALSE
           /\ sTold'[c] = <<>>
      BY <1>2, <1>b, <2>5
    <3>11. X = Shapes(q.st, FALSE, FALSE, <<>>)
      BY <2>6, <3>10
    <3> QED
      BY <3>7, <3>9, <3>11
  <2>8. \A t : Waiting(tasks', o, t) <=> Waiting(tasks, o, t)'
    BY DEF Waiting
  <2>9. op'[o].call = c /\ op'[o].segs = q.segs /\ op'[o].st = q.st
    BY <1>5, <1>6
  <2>10. X = Shapes(op'[o].st, c[2] \in DOMAIN op'[o].segs, sAnswer'[c] = {"result"}, sTold'[c])
    BY <2>6, <2>9
  <2>11. /\ sAnswer'[c] = {} /\ sTold'[c] = <<>> /\ c[1] = n /\ c[2] = k
    BY <1>2, <1>b, <2>2
  <2>12. sAnswer'[c] # {"error"}
    BY <2>11
  <2> QED
    BY <2>4, <2>7, <2>8, <2>9, <2>10, <2>11, <2>12 DEF Orderly
<1>20. Account(o)'
  <2> SUFFICES ASSUME NEW n \in Msg, Alone(n)', Has(o, n, Last(n))',
                      sAnswer'[<<n, Last(n)>>] = {"result"}
               PROVE  FALSE
    BY DEF Account
  <2>1. Alone(n) /\ Has(o, n, Last(n)) /\ sAnswer[<<n, Last(n)>>] = {"result"}
    BY <1>2, <1>5, <1>6, <1>9 DEF Alone, Has
  <2>2. n = m
    <3>1. Has(o, n, 0)
      BY <1>3, <2>1, OneOperation
    <3> QED
      BY <1>18, <3>1
  <2>3. op[o].segs = Whole(m)
    BY <1>3, <2>1, <2>2 DEF SubmissionInv, Accounted
  <2>4. Has(o, m, k)
    BY <1>b, <2>3 DEF Has, Whole
  <2> QED
    BY <1>2, <1>3, <1>b, <2>4 DEF Holds
<1>21. Pass(o)' /\ op'[o].fate # "spooled"
  BY <1>5, <1>6, <1>16 DEF Pass
<1>22. Single(o)'
  BY <1>17, <1>19, <1>20, <1>21 DEF Single
<1>23. faults' >= faults
  BY <1>0, <1>9, NoMoreFaults
<1>24. /\ vOutcome[o] # <<>> => o \in vAsked
       /\ o \in vAsked => q.st \notin {"none", "s1", "s2"}
       /\ q.verdict = op[o].verdict
  BY <1>0, <1>3, <1>5 DEF Verified
<1>25. vAsked \subseteq vAsked'
  BY <1>9
<1> QED
  BY <1>2, <1>3, <1>6, <1>8, <1>9, <1>10, <1>12, <1>13, <1>14, <1>15, <1>22, <1>23,
     <1>24, <1>25, MtsStep

-----------------------------------------------------------------------------
(* The invariant.                                                          *)

LEMMA SubmissionInit ==
    ASSUME Init
    PROVE  SubmissionInv
<1>0. SubmissionAssumption
  BY SubmissionAssumption
<1>1. /\ sAsked = {} /\ sRuns = [c \in Call |-> 0] /\ sAnswer = [c \in Call |-> {}]
      /\ sOutcome = [c \in Call |-> <<>>] /\ sTold = [c \in Call |-> <<>>]
  BY DEF Init, S!AbsInit
<1>2. /\ vAsked = {} /\ vRuns = [o \in OpId |-> 0] /\ vAnswer = [o \in OpId |-> {}]
      /\ vOutcome = [o \in OpId |-> <<>>] /\ vTold = [o \in OpId |-> <<>>]
  BY DEF Init, V!AbsInit
<1>3. /\ resultId = [c \in Call |-> 0]
      /\ ua = [m \in Msg |-> [st |-> "new", seg |-> 0, ev |-> "none"]]
      /\ seqNo = 0 /\ seqOf = [m \in Msg |-> 0]
      /\ ring = ringInit /\ asking = {}
      /\ user = [m \in Msg |-> {}]
      /\ active = <<>> /\ op = [o \in OpId |-> NoOp]
      /\ tasks = <<>> /\ wild = FALSE
      /\ restarts = 0 /\ faults = 0
  BY DEF Init
<1>4. /\ NoOp \in OpRec /\ NoOp.st = "none" /\ NoOp.call = <<>> /\ NoOp.seq = 0
      /\ NoOp.segs = <<>> /\ NoOp.complete = FALSE /\ NoOp.timer = FALSE
      /\ NoOp.verdict = "none" /\ NoOp.fate = "none"
  <2>1. <<>> \in UNION {[D -> Msg] : D \in SUBSET Nat}
    <3>1. <<>> \in [{} -> Msg]
      BY EmptySeq
    <3> QED
      BY <3>1
  <2>2. "none" \in Fates
    BY DEF Fates
  <2> QED
    BY <2>1, <2>2 DEF NoOp, OpRec
<1>5. \A m \in Msg : Last(m) \in Nat
  BY CallIs
<1>6. ringInit \in [next : [Node -> Node], prev : [Node -> Node], id : [Node -> {0} \cup OpId]]
      /\ \A n \in Node : ringInit.id[n] = 0
  <2>1. VerifySlots \in Nat \ {0}
    BY <1>0 DEF SubmissionAssumption
  <2>2. \A n \in Node : /\ (IF n = Active THEN Active
                              ELSE IF n = Inactive THEN 1 ELSE n + 1) \in Node
                        /\ (IF n = Active THEN Active
                              ELSE IF n = 1 THEN Inactive ELSE n - 1) \in Node
    BY <2>1 DEF Node, Active, Inactive
  <2> QED
    BY <2>2 DEF ringInit
<1>7. Typed
  <2>1. /\ <<>> \in Seq([kind : Kinds, op : Call])
        /\ <<>> \in Seq({"result", "error", "failure"})
        /\ <<>> \in Seq([kind : {"refused", "send", "drop", "garbled",
                                 "error", "failure"}, op : OpId])
        /\ <<>> \in Seq({"send", "drop", "garbled", "error", "failure"})
        /\ <<>> \in Seq(OpId) /\ <<>> \in Seq(OpId \X Event)
    OBVIOUS
  <2>2. /\ sAsked \subseteq Call /\ sRuns \in [Call -> {0, 1}]
        /\ sAnswer \in [Call -> {{}, {"result"}, {"error"}}]
        /\ sOutcome \in [Call -> Seq([kind : Kinds, op : Call])]
        /\ sTold \in [Call -> Seq({"result", "error", "failure"})]
    BY <1>1, <2>1
  <2>3. /\ vAsked \subseteq OpId /\ vRuns \in [OpId -> {0, 1}]
        /\ vAnswer \in [OpId -> SUBSET {"send", "drop", "garbled", "error"}]
        /\ vOutcome \in [OpId -> Seq([kind : {"refused", "send", "drop", "garbled",
                                              "error", "failure"}, op : OpId])]
        /\ vTold \in [OpId -> Seq({"send", "drop", "garbled", "error", "failure"})]
    BY <1>2, <2>1
  <2>4. /\ resultId \in [Call -> {0} \cup OpId]
        /\ ua \in [Msg -> [st : {"new", "wait", "done", "gone"}, seg : Nat,
                           ev : {"none", "result", "error", "failure"}]]
        /\ seqNo \in Nat /\ seqOf \in [Msg -> Nat]
        /\ asking \subseteq vAsked
        /\ user \in [Msg -> SUBSET {"success", "fail"}]
    BY <1>2, <1>3
  <2>5. restarts \in 0 .. MaxRestarts /\ faults \in 0 .. MaxFaults
    BY <1>0, <1>3 DEF SubmissionAssumption
  <2>6. /\ active \in Seq(OpId) /\ op \in [OpId -> OpRec] /\ tasks \in Seq(OpId \X Event)
        /\ wild \in BOOLEAN
    BY <1>3, <1>4, <2>1
  <2> QED
    BY <1>3, <1>6, <2>2, <2>3, <2>4, <2>5, <2>6 DEF Typed
<1>8. Served
  <2>1. \A c \in Call : <<>> # Outcome(c, "result")
    BY DEF Outcome
  <2> QED
    BY <1>1, <2>1 DEF Served
<1>9. Verified
  BY <1>2 DEF Verified
<1>10. Agent
  BY <1>1, <1>3, <1>5 DEF Agent, Asked, Informed
<1>11. Fresh
  BY <1>3 DEF Fresh, Alone
<1>12. Truthful
  BY <1>2, <1>3, <1>4, <1>6 DEF Truthful
<1>13. Room
  <2>1. Begun = {}
    BY <1>3, <1>4 DEF Begun
  <2>2. PICK D : D = {c \in Call : sRuns[c] = 1}
    OBVIOUS
  <2>3. Cardinality(D) \in Nat
    BY <2>2, CallsFinite, FS_Subset, FS_CardinalityType
  <2>4. Cardinality({}) = 0
    BY FS_EmptySet
  <2> QED
    BY <2>1, <2>2, <2>3, <2>4 DEF Room
<1>14. ActiveOK
  BY <1>3, <1>4 DEF ActiveOK, Live
<1>15. \A o \in OpId : DOMAIN op[o].segs = {}
  BY <1>3, <1>4
<1>16. \A o \in OpId : \A m, k : ~ Has(o, m, k)
  BY <1>15 DEF Has
<1>17. \A o \in OpId, c \in Call : ~ Holds(o, c)
  BY <1>3, <1>4, <1>16, QuestionNoCall DEF Holds
<1>18. ASSUME NEW o \in OpId PROVE OpOK(o)
  <2>1. op[o] = NoOp /\ <<>> \notin Call /\ (\A p : <<>> # <<p>>) /\ DOMAIN NoOp.segs = {}
    BY <1>3, <1>15, QuestionNoCall
  <2>2. \A i \in 1 .. Len(tasks) : tasks[i][1] # o
    BY <1>3
  <2> QED
    BY <1>4, <2>1, <2>2 DEF OpOK
<1>19. OneHolder
  BY <1>17 DEF OneHolder
<1>20. Answers
  BY <1>1, <1>3 DEF Answers
<1>21. Order
  BY <1>17, CallIs DEF Order, Owns
<1>22. Accounted /\ Passed /\ SpooledHas
  BY <1>3, <1>4, <1>16 DEF Accounted, Passed, SpooledHas
<1> QED
  BY <1>7, <1>8, <1>9, <1>10, <1>11, <1>12, <1>13, <1>14, <1>18, <1>19, <1>20, <1>21,
     <1>22 DEF SubmissionInv, Ops

LEMMA SubmissionStep ==
    ASSUME SubmissionInv, [Next]_vars
    PROVE  SubmissionInv'
<1>1. ASSUME NEW m \in Msg, UaNext(m) PROVE SubmissionInv'
  BY <1>1, SubmitKeeps, IndicationKeeps, SuccessKeeps, NextSegmentKeeps, FailKeeps DEF UaNext
<1>2. ASSUME NEW c \in Call,
             mts_invokeIndication(c) \/ mts_invokeRefused(c) \/ mts_confirm(c)
      PROVE  SubmissionInv'
  BY <1>2, BegunKeeps, HandedKeeps, TurnedAwayKeeps, ConfirmKeeps
<1>3. ASSUME NEW o \in OpId, Transition(o) PROVE SubmissionInv'
  <2>1. CASE aS1S2a(o) \/ aS1S4a(o)
    BY <2>1, TakenUpKeeps, RefuseKeeps
  <2>2. CASE aS2S1a(o) \/ aS2S2a(o) \/ aS2S3a(o)
    BY <2>2, S2Keeps, EarlyKeeps
  <2>3. CASE aS3S1a(o) \/ aS3S1c(o) \/ aS4S1a(o)
    BY <2>3, AnsweredKeeps, UnansweredKeeps, RefusedKeeps
  <2>4. CASE aUnexpectedEvent(o)
    BY <2>4, UnexpectedKeeps
  <2>5. CASE RunFreed(o)
    BY <2>5, WildKeeps DEF RunFreed
  <2> QED
    BY <1>3, <2>1, <2>2, <2>3, <2>4, <2>5 DEF Transition
<1>4. ASSUME NEW o \in OpId, segmentationTimerExpired(o) PROVE SubmissionInv'
  <2>1. CASE op[o].st = "free"
    <3>1. /\ wild' = TRUE
          /\ UNCHANGED <<sVars, vVars, uaVars, active, op, tasks, resultId, restarts, faults>>
      BY <1>4, <2>1 DEF segmentationTimerExpired
    <3> QED
      BY <3>1, WildKeeps
  <2>2. CASE op[o].st # "free"
    BY <1>4, <2>2, ExpiredKeeps
  <2> QED
    BY <2>1, <2>2
<1>5. ASSUME NEW o \in OpId, mts_indication(o) PROVE SubmissionInv'
  BY <1>5, AnswerKeeps
<1>6. ASSUME NEW o \in OpId, Verification(o) PROVE SubmissionInv'
  BY <1>6, QuestionKeeps DEF Verification
<1>7. CASE UaRestart
  BY <1>7, RestartKeeps
<1>8. CASE UNCHANGED vars
  <2>1. Typed'
    BY <1>8 DEF SubmissionInv, Typed, vars, sVars, vVars, uaVars, mtsVars
  <2>2. Served' /\ MtsFrame /\ Kept
    BY <1>8 DEF SubmissionInv, Served, MtsFrame, Kept, vars, sVars, uaVars
  <2>3. QueueStep(0) /\ 0 \notin OpId
    BY <1>8 DEF QueueStep, vars, mtsVars, OpId
  <2>4. OneHolder' /\ Answers'
    BY <1>8, HoldersStay DEF vars, sVars, mtsVars
  <2>5. ActiveOK'
    BY <1>8 DEF SubmissionInv, ActiveOK, vars, mtsVars
  <2>6. Room'
    BY <1>8, <2>2, RoomKeeps DEF vars, mtsVars
  <2>7. faults' >= faults
    BY <1>8, <2>1, SubmissionAssumption DEF Typed, vars
  <2> QED
    BY <1>8, <2>1, <2>2, <2>3, <2>4, <2>5, <2>6, <2>7, MtsStep
       DEF vars, sVars, vVars, mtsVars
<1> QED
  BY <1>1, <1>2, <1>3, <1>4, <1>5, <1>6, <1>7, <1>8 DEF Next

\* The invariant holds in every reachable state.
THEOREM SubmissionInvariant == Spec => []SubmissionInv
<1>1. Init => SubmissionInv
  BY SubmissionInit
<1>2. SubmissionInv /\ [Next]_vars => SubmissionInv'
  BY SubmissionStep
<1> QED
  BY <1>1, <1>2, PTL DEF Spec

\* The state is of the declared types, and exactly the operations of the MTS
\* that are allocated and not freed are linked among the active ones.
THEOREM SubmissionTypeCorrect == Spec => []SubmissionTypeOK
<1>1. SubmissionInv => SubmissionTypeOK
  <2> SUFFICES ASSUME SubmissionInv PROVE SubmissionTypeOK
    OBVIOUS
  <2>1. Typed /\ ActiveOK
    BY DEF SubmissionInv
  <2>2. ASSUME NEW o \in OpId
        PROVE  op[o].st \in {"none", "free"} <=> \A i \in 1 .. Len(active) : active[i] # o
    <3>1. op[o].st \in {"none", "s1", "s2", "s3", "s4", "free"}
      BY <2>1, OpParts DEF Typed
    <3>2. op[o].st \in Live <=> \E i \in 1 .. Len(active) : active[i] = o
      BY <2>1 DEF ActiveOK
    <3> QED
      BY <3>1, <3>2 DEF Live
  <2>3. \A i \in 1 .. Len(tasks) : tasks[i][1] \in OpId
    BY <2>1 DEF Typed
  <2> QED
    BY <2>1, <2>2, <2>3 DEF Typed, SubmissionTypeOK
<1> QED
  BY <1>1, SubmissionInvariant, PTL

\* The UA tells its user that a submission failed when the answer to one of the
\* segments was no result; the MTS passes a message on only when the UA had a
\* result for the last one.
THEOREM FailsNotSent == Spec => []FailNotSent
<1>1. SubmissionInv => FailNotSent
  <2> SUFFICES ASSUME SubmissionInv, NEW m \in Msg, "fail" \in user[m], Alone(m),
                      NEW o \in Spooled(m)
               PROVE  FALSE
    BY DEF FailNotSent
  <2>1. /\ o \in OpId /\ op[o].fate = "spooled" /\ op[o].segs = Whole(m)
        /\ Last(m) \in Nat /\ <<m, Last(m)>> \in Call
    BY CallIs DEF Spooled
  <2>2. Has(o, m, 0)
    BY <2>1 DEF Has, Whole
  <2>3. sOutcome[<<m, Last(m)>>] = Outcome(<<m, Last(m)>>, "result")
    BY <2>1, <2>2 DEF SubmissionInv, Passed
  <2>4. /\ Asked(m)
        /\ sOutcome[Current(m)] # Outcome(Current(m), "result")
    BY DEF SubmissionInv, Agent, Informed
  <2>5. <<m, Last(m)>> \in sAsked
    <3>1. Outcome(<<m, Last(m)>>, "result") # <<>>
      BY DEF Outcome
    <3> QED
      BY <2>1, <2>3, <3>1 DEF SubmissionInv, Served
  <2>6. ua[m].seg = Last(m)
    BY <2>1, <2>4, <2>5 DEF Asked
  <2> QED
    BY <2>3, <2>4, <2>6 DEF Current
<1> QED
  BY <1>1, SubmissionInvariant, PTL

\* What the user was told is submitted is in one piece in an operation of the
\* MTS that waits for the confirmation, asks the UA, has passed it on, or has
\* dropped or lost it for a reason.
THEOREM SuccessesAccounted == Spec => []SuccessAccounted
<1>1. SubmissionInv => SuccessAccounted
  <2> SUFFICES ASSUME SubmissionInv, restarts = 0, NEW m \in Msg, "success" \in user[m]
               PROVE  \E o \in OpId :
                          /\ op[o].segs = Whole(m)
                          /\ \/ op[o].st \in {"s2", "s3"}
                             \/ op[o].fate = "spooled"
                             \/ op[o].fate = "dropped" /\ o \in vAsked
                             \/ op[o].fate = "lost" /\ faults > 0
    BY DEF SuccessAccounted
  <2>1. ua[m].seg = Last(m) /\ sOutcome[Current(m)] = Outcome(Current(m), "result")
    BY DEF SubmissionInv, Agent, Informed
  <2>2. PICK c : c = <<m, Last(m)>>
    OBVIOUS
  <2>3. c \in Call /\ c[1] = m /\ c[2] = Last(m)
    BY <2>2, CallIs
  <2>4. sOutcome[c] = Outcome(c, "result")
    BY <2>1, <2>2 DEF Current
  <2>5. sAnswer[c] = {"result"}
    BY <2>3, <2>4 DEF SubmissionInv, Served
  <2>6. PICK o \in OpId : Has(o, m, Last(m))
    BY <2>3, <2>5 DEF SubmissionInv, Ops, Answers
  <2>7. Alone(m)
    BY DEF SubmissionInv, Fresh
  <2> QED
    BY <2>2, <2>5, <2>6, <2>7 DEF SubmissionInv, Accounted
<1> QED
  BY <1>1, SubmissionInvariant, PTL

\* While the UA is not restarted, what the MTS passes on is one whole message,
\* and it passes it on once.
THEOREM SpooledAreWhole == Spec => []SpooledWhole
<1>1. SubmissionInv => SpooledWhole
  <2> SUFFICES ASSUME SubmissionInv, restarts = 0 PROVE SpooledWhole
    BY DEF SpooledWhole
  <2>1. ASSUME NEW o \in OpId, op[o].fate = "spooled"
        PROVE  \E m \in Msg : op[o].segs = Whole(m)
    <3>1. 0 \in DOMAIN op[o].segs
      BY <2>1 DEF SubmissionInv, SpooledHas
    <3>2. PICK m : m = op[o].segs[0]
      OBVIOUS
    <3>3. <<m, 0>> \in Call
      BY <3>1, <3>2 DEF SubmissionInv, Ops, OpOK
    <3>4. m \in Msg
      BY <3>3, CallParts
    <3>5. Has(o, m, 0) /\ Alone(m)
      BY <3>1, <3>2, <3>4 DEF Has, SubmissionInv, Fresh
    <3> QED
      BY <2>1, <3>4, <3>5 DEF SubmissionInv, Passed
  <2>2. ASSUME NEW m \in Msg PROVE Cardinality(Spooled(m)) <= 1
    <3>1. ASSUME NEW o \in Spooled(m) PROVE o \in OpId /\ Holds(o, <<m, 0>>)
      <4>1. o \in OpId /\ op[o].segs = [k \in 0 .. Last(m) |-> m] /\ Last(m) \in Nat
        BY CallIs DEF Spooled, Whole
      <4>2. 0 \in DOMAIN op[o].segs /\ op[o].segs[0] = m
        BY <4>1
      <4> QED
        BY <4>1, <4>2 DEF Holds, Has
    <3>2. \A o, p \in Spooled(m) : o = p
      BY <3>1, CallIs DEF SubmissionInv, Ops, OneHolder
    <3>3. CASE Spooled(m) = {}
      <4>1. Cardinality(Spooled(m)) = 0
        BY <3>3, FS_EmptySet
      <4> QED
        BY <4>1
    <3>4. CASE Spooled(m) # {}
      <4>1. PICK o : Spooled(m) = {o}
        BY <3>2, <3>4
      <4>2. Cardinality(Spooled(m)) = 1
        BY <4>1, FS_Singleton
      <4> QED
        BY <4>2
    <3> QED
      BY <3>3, <3>4
  <2> QED
    BY <2>1, <2>2 DEF SpooledWhole
<1> QED
  BY <1>1, SubmissionInvariant, PTL
=============================================================================
