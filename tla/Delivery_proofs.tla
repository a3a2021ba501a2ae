-------------------------- MODULE Delivery_proofs --------------------------
(***************************************************************************)
(* Proofs about Delivery, for any number of messages, segments, tries and  *)
(* retries, and any number of failures.                                    *)
(***************************************************************************)
EXTENDS Delivery, FiniteSetTheorems, SequenceTheorems, WellFoundedInduction,
        TLAPS

Kinds == {"refused", "result", "error", "failure"}

Outcome(c, kind) == <<[kind |-> kind, op |-> c]>>

\* What an operation of the UA may look like.
OpRec == [st : {"none", "s1", "s2", "s4", "leaked", "free"}, call : Call \cup {<<>>},
          pending : Seq(Call), seq : Nat, last : Nat,
          segs : UNION {[S -> Msg] : S \in SUBSET Nat},
          complete : BOOLEAN, timer : BOOLEAN]

\* Those that are allocated.
Live == {"s1", "s2", "s4", "leaked"}

MtsRec == [st : {"idle", "wait", "blocked"}, msg : Nat, try : Nat, seg : Nat,
           next : Nat, buf : {"none", "whole", "spoilt"}, complete : BOOLEAN, retryCount : Nat,
           ev : {"none", "result", "error", "failure"}]

\* DeliveryTypeOK, with the types of what it leaves out.
Typed ==
    /\ asked \subseteq Call
    /\ runs \in [Call -> {0, 1}]
    /\ answer \in [Call -> {{}, {"result"}, {"error"}}]
    /\ outcome \in [Call -> Seq([kind : Kinds, op : Call])]
    /\ told \in [Call -> Seq({"result", "error", "failure"})]
    /\ status \in [Msg -> {"queued", "delivered", "ndr"}]
    /\ tries \in [Msg -> 0 .. MaxTries]
    /\ mts \in MtsRec
    /\ seqNo \in Nat /\ seqOf \in [Msg -> [1 .. MaxTries -> Nat]]
    /\ active \in Seq(OpId)
    /\ op \in [OpId -> OpRec]
    /\ tasks \in Seq(OpId \X {"invoke", "resultCon", "errorCon", "failure"})
    /\ acked \subseteq Msg
    /\ wild \in BOOLEAN /\ faults \in 0 .. MaxFaults

\* What the ESRO service says of a call.
Served ==
    \A c \in Call :
        /\ runs[c] = 1 => c \in asked
        /\ answer[c] # {} => runs[c] = 1
        /\ c \notin asked => outcome[c] = <<>>
        /\ outcome[c] = Outcome(c, "result") => answer[c] = {"result"}
        /\ told[c] = <<"result">> => outcome[c] = Outcome(c, "result")

-----------------------------------------------------------------------------
(* The message transfer system.                                            *)

Current == Invocation(mts, mts.seg)

Seq2(c) == seqOf[c[1]][c[2]]

\* A segment too many.
Surplus(c) == c[3] > Last(c[1])

\* The MTS's operation.  Its PDU may never have been issued, if its last event
\* is a failure.
MtsOK ==
    /\ mts.retryCount < MaxRetries
    /\ mts.ev # "none" => mts.st = "wait"
    /\ mts.st = "wait" =>
          /\ mts.msg \in Msg /\ mts.try = tries[mts.msg] /\ mts.try \in 1 .. MaxTries
          /\ status[mts.msg] = "queued"
          /\ mts.seg <= Last(mts.msg) + 1
          /\ mts.seg > Last(mts.msg) => Last(mts.msg) = 0 /\ mts.complete
          /\ mts.complete => mts.seg >= Last(mts.msg)
          /\ ~ mts.complete => mts.seg < Last(mts.msg) \/ Last(mts.msg) = 0
          /\ mts.next = mts.seg + 1
          /\ mts.ev # "failure" => Current \in asked
          /\ mts.ev = "none" => outcome[Current] = <<>>
          /\ mts.ev # "none" /\ Current \in asked => outcome[Current] # <<>>
          /\ mts.ev = "result" <=> outcome[Current] = Outcome(Current, "result")
          /\ \A k \in 0 .. mts.seg - 1 : \E a \in 1 .. MaxRetries :
                LET b == <<mts.msg, mts.try, k, a>>
                IN  b \in asked /\ outcome[b] = Outcome(b, "result")

\* It knows that message m is delivered.
Known(m) ==
    \/ status[m] = "delivered"
    \/ mts.st = "wait" /\ mts.msg = m /\ mts.complete /\ mts.ev = "result"

\* What it has asked for.
AskedOK ==
    \A c \in asked :
        /\ c[2] <= tries[c[1]]
        /\ outcome[c] # <<>> \/ (mts.st = "wait" /\ c = Current)
        /\ Surplus(c) => Last(c[1]) = 0
        /\ \A k \in 0 .. c[3] - 1 : \E a \in 1 .. MaxRetries :
              LET b == <<c[1], c[2], k, a>>
              IN  b \in asked /\ outcome[b] = Outcome(b, "result")
        /\ mts.st = "wait" /\ c[1] = mts.msg /\ c[2] = mts.try =>
              /\ c[3] < mts.seg \/ (c[3] = mts.seg /\ c[4] <= mts.retryCount + 1)
              /\ outcome[c] = Outcome(c, "result") => c[3] < mts.seg \/ c = Current
        /\ outcome[c] = Outcome(c, "result") /\ Last(c[1]) > 0 /\ c[3] = Last(c[1]) =>
              Known(c[1])

\* A message in segments gets a new sequence id each time it is tried.
SeqOK ==
    \A m \in Msg : \A t \in 1 .. MaxTries :
        /\ seqOf[m][t] <= seqNo
        /\ seqOf[m][t] > 0 <=> Last(m) > 0 /\ t <= tries[m]
        /\ \A n \in Msg : \A u \in 1 .. MaxTries :
              seqOf[m][t] > 0 /\ seqOf[m][t] = seqOf[n][u] => m = n /\ t = u

-----------------------------------------------------------------------------
(* Operations of the UA.                                                   *)

Begun == {o \in OpId : op[o].st # "none"}

\* There is always an operation left to allocate.
Room ==
    Cardinality(Begun) <= Cardinality({c \in Call : runs[c] = 1 /\ c[3] = 0})

\* The operations that are allocated are linked, each once.
ActiveOK ==
    /\ \A o \in OpId : op[o].st \in Live <=> \E i \in 1 .. Len(active) : active[i] = o
    /\ \A i, j \in 1 .. Len(active) : active[i] = active[j] => i = j
    /\ Len(active) <= Inbound

\* Operation o has taken call c, or it waits there.
Holds(o, c) ==
    op[o].call = c \/ \E i \in 1 .. Len(op[o].pending) : op[o].pending[i] = c

\* Each call that was performed waits once or was taken once.
HeldOnce ==
    /\ \A o \in OpId : \A c \in Call : Holds(o, c) => runs[c] = 1
    /\ \A o, p \in OpId : \A c \in Call : Holds(o, c) /\ Holds(p, c) => o = p
    /\ \A o \in OpId : \A i \in 1 .. Len(op[o].pending) :
          /\ answer[op[o].pending[i]] = {}
          /\ op[o].pending[i] # op[o].call
          /\ \A j \in 1 .. Len(op[o].pending) :
                op[o].pending[i] = op[o].pending[j] => i = j

\* The MTS has given up the invocation.
Dead(c) == outcome[c] # <<>> /\ outcome[c] # Outcome(c, "result")

\* The invocations that wait for operation o: the first one if it has not taken
\* it up yet, others of its sequence id and, while it had none, any segment too
\* many.
PendingOK(o) ==
    LET r == op[o]
    IN  /\ r.st = "none" => r = NoOp
        /\ r.st = "free" => r.pending = <<>>
        /\ r.call = <<>> =>
              r.seq = 0 /\ r.segs = <<>> /\ r.st \in {"none", "s1", "leaked", "free"}
        /\ r.st = "leaked" => r.call = <<>>
        /\ r.call = <<>> /\ r.st = "s1" => r.pending # <<>> /\ r.pending[1][3] = 0
        /\ \A i \in 1 .. Len(r.pending) :
              LET c == r.pending[i]
              IN  /\ c[3] = 0 => i = 1 /\ r.call = <<>>
                  /\ c[3] > 0 /\ ~ Surplus(c) => r.seq = Seq2(c)
                  /\ Surplus(c) /\ r.call = <<>> /\ Last(r.pending[1][1]) > 0 =>
                        Dead(c) \/ Dead(r.pending[1])
                  /\ Surplus(c) /\ r.seq > 0 =>
                        Dead(c) \/ (r.call[3] = 0 /\ Dead(r.call))
        /\ r.call # <<>> /\ Surplus(r.call) /\ r.seq > 0 => Dead(r.call)

\* The segments of operation o.
SegsOK(o) ==
    LET r == op[o]
    IN  /\ r.segs # <<>> =>
              /\ r.call # <<>>
              /\ 0 \in DOMAIN r.segs /\ r.last = Last(r.segs[0])
              /\ \E t \in 1 .. MaxTries :
                    t <= tries[r.segs[0]] /\ r.seq = seqOf[r.segs[0]][t]
              /\ \A k \in DOMAIN r.segs :
                    k <= r.last /\ (r.segs[k] = r.segs[0] \/ k > Last(r.segs[k]))
              /\ \A k \in DOMAIN r.segs : k > 0 => r.call[3] > 0
              /\ r.call[3] = 0 => r.segs[0] = r.call[1] /\ r.seq = Seq2(r.call)
        /\ r.complete => r.segs # <<>> /\ DOMAIN r.segs = 0 .. r.last
        /\ r.complete => ~ r.timer /\ r.st \in {"s2", "s4", "free"}
        /\ r.st = "s1" /\ r.call # <<>> => told[r.call] = <<"result">>
        /\ r.st = "s2" => r.call # <<>>
        /\ r.st \in {"s1", "s2"} /\ r.call # <<>> =>
              /\ r.call[3] \in DOMAIN r.segs /\ r.segs[r.call[3]] = r.call[1]
              /\ \A k \in DOMAIN r.segs : k <= r.call[3]
              /\ ~ Surplus(r.call) => r.segs[0] = r.call[1] /\ r.seq = Seq2(r.call)

\* A confirmation that waits is that of the call taken last, and it is the only
\* one.
Confirmed ==
    /\ \A i \in 1 .. Len(tasks) : \A o \in OpId :
          tasks[i] = <<o, "resultCon">> =>
              \/ op[o].st = "free"
              \/ /\ op[o].st \in {"s2", "s4"} /\ op[o].call # <<>>
                 /\ told[op[o].call] = <<"result">>
    /\ \A i, j \in 1 .. Len(tasks) :
          tasks[i] = tasks[j] /\ tasks[i][2] = "resultCon" => i = j

\* The MTS knows that o has its first segment.
Advanced(o) ==
    /\ op[o].segs # <<>> /\ Last(op[o].segs[0]) > 0
    /\ \/ op[o].call[3] > 0
       \/ outcome[op[o].call] = Outcome(op[o].call, "result")

\* ... from the invocation of that segment that had a result.
Begins(o) ==
    Advanced(o) => \E c \in asked :
        /\ c[1] = op[o].segs[0] /\ c[3] = 0 /\ Seq2(c) = op[o].seq
        /\ outcome[c] = Outcome(c, "result")

\* There is one such operation for each try.
OneAdvances ==
    \A o, p \in OpId :
        Advanced(o) /\ Advanced(p) /\ op[o].seq = op[p].seq => o = p

\* Operation o has the segment of call c.
Took(o, c) ==
    LET r == op[o]
    IN  /\ c[3] \in DOMAIN r.segs /\ r.segs[c[3]] = c[1]
        /\ ~ Surplus(c) => r.segs[0] = c[1] /\ r.seq = Seq2(c)
        /\ r.call = c \/ r.call[3] > 0

\* What the UA has answered with a result it has, and has shown if it was the
\* last segment.
Answers ==
    \A c \in Call : answer[c] = {"result"} =>
        /\ ~ Surplus(c) => \E o \in OpId : Took(o, c)
        /\ c[3] = Last(c[1]) => \E s \in shown : s[2] = Whole(c[1])

\* What is delivered was shown.
DeliveredHeld ==
    \A m \in Msg : status[m] = "delivered" => \E s \in shown : s[2] = Whole(m)

\* What holds as long as no segment was skipped.
DeliveryInv ==
    /\ Typed /\ Served /\ MtsOK /\ AskedOK /\ SeqOK
    /\ Room /\ ActiveOK /\ HeldOnce
    /\ \A o \in OpId : PendingOK(o) /\ SegsOK(o) /\ Begins(o)
    /\ Confirmed /\ OneAdvances /\ Answers
    /\ ShownWhole /\ DeliveredHeld /\ AckedFinal

-----------------------------------------------------------------------------
(* Queues, and operations of the UA that are looked up.                    *)

LEMMA AppendFacts ==
    ASSUME NEW T, NEW s \in Seq(T), NEW e \in T, NEW n, n = Len(s)
    PROVE  /\ n \in Nat /\ Append(s, e) \in Seq(T) /\ Len(Append(s, e)) = n + 1
           /\ Append(s, e)[n + 1] = e
           /\ \A i \in 1 .. n : Append(s, e)[i] = s[i]
OBVIOUS

LEMMA TailFacts ==
    ASSUME NEW T, NEW s \in Seq(T), s # <<>>, NEW n, n = Len(s)
    PROVE  /\ n \in Nat \ {0} /\ Tail(s) \in Seq(T) /\ Len(Tail(s)) = n - 1
           /\ s[1] = Head(s)
           /\ \A i \in 1 .. n - 1 : Tail(s)[i] = s[i + 1]
OBVIOUS

LEMMA SmallestIndex ==
    ASSUME NEW n, NEW X \in SUBSET (1 .. n), X # {}
    PROVE  \E i \in X : \A j \in X : i <= j
<1> DEFINE Less == {ss \in Nat \X Nat : ss[1] < ss[2]}
<1>1. IsWellFoundedOn(Less, Nat)
  BY NatLessThanWellFounded, Zenon DEF OpToRel
<1>2. X \in SUBSET Nat
  OBVIOUS
<1>3. PICK i \in X : \A j \in X : ~ (<<j, i>> \in Less)
  BY <1>1, <1>2, WFMin, Zenon
<1>4. ASSUME NEW j \in X PROVE i <= j
  <2>1. j \in Nat /\ i \in Nat /\ ~ (<<j, i>> \in Less)
    BY <1>2, <1>3
  <2> QED
    BY <2>1
<1> QED
  BY <1>4

\* findOperationByInvokeId finds an operation that has taken the call, if
\* there is one.
LEMMA FoundByInvokeId ==
    ASSUME Typed, NEW c
    PROVE  LET o == findOperationByInvokeId(c)
               X == {p \in OpId : op[p].call = c /\ \E i \in 1 .. Len(active) : active[i] = p}
           IN  IF X = {} THEN o = 0 ELSE o \in X
<1> DEFINE Y == {i \in 1 .. Len(active) : op[active[i]].call = c}
<1>1. findOperationByInvokeId(c) = IF Y = {} THEN 0 ELSE First(Y)
  BY DEF findOperationByInvokeId, Occupied
<1>2. \A i \in 1 .. Len(active) : active[i] \in OpId
  BY DEF Typed
<1>3. CASE Y = {}
  BY <1>1, <1>2, <1>3
<1>4. CASE Y # {}
  <2>1. PICK i \in Y : \A j \in Y : i <= j
    BY <1>4, SmallestIndex
  <2>2. First(Y) \in {active[j] : j \in Y}
    BY <2>1 DEF First
  <2> QED
    BY <1>1, <1>2, <1>4, <2>2
<1> QED
  BY <1>3, <1>4

\* findOperationBySequenceId finds one that has the sequence id.
LEMMA FoundBySequenceId ==
    ASSUME Typed, NEW q
    PROVE  LET o == findOperationBySequenceId(q)
               X == {p \in OpId : op[p].seq = q /\ \E i \in 1 .. Len(active) : active[i] = p}
           IN  IF X = {} THEN o = 0 ELSE o \in X
<1> DEFINE Y == {i \in 1 .. Len(active) : op[active[i]].seq = q}
<1>1. findOperationBySequenceId(q) = IF Y = {} THEN 0 ELSE First(Y)
  BY DEF findOperationBySequenceId, Occupied
<1>2. \A i \in 1 .. Len(active) : active[i] \in OpId
  BY DEF Typed
<1>3. CASE Y = {}
  BY <1>1, <1>2, <1>3
<1>4. CASE Y # {}
  <2>1. PICK i \in Y : \A j \in Y : i <= j
    BY <1>4, SmallestIndex
  <2>2. First(Y) \in {active[j] : j \in Y}
    BY <2>1 DEF First
  <2> QED
    BY <1>1, <1>2, <1>4, <2>2
<1> QED
  BY <1>3, <1>4

\* The parts of a call.
LEMMA LastNat ==
    /\ \A m \in Msg : Last(m) \in Nat
    /\ Msg \subseteq Nat /\ IsFiniteSet(Msg)
<1>1. \A m \in Msg : Last(m) \in Nat
  BY DeliveryAssumption DEF Last
<1>2. IsFiniteSet(Msg) /\ Msg \subseteq Nat
  BY DeliveryAssumption, FS_Interval DEF Msg
<1> QED
  BY <1>1, <1>2

LEMMA CallParts ==
    ASSUME NEW c \in Call
    PROVE  /\ c[1] \in Msg /\ c[2] \in 1 .. MaxTries /\ c[3] \in Nat
           /\ c[4] \in 1 .. MaxRetries /\ c[3] <= Last(c[1]) + 1
           /\ c = <<c[1], c[2], c[3], c[4]>> /\ c # <<>>
           /\ Last(c[1]) \in Nat /\ c[2] \in Nat /\ c[4] \in Nat
<1>1. /\ c[1] \in Msg /\ c[2] \in 1 .. MaxTries
      /\ c[3] \in 0 .. Cardinality(UNION {0 .. Last(n) : n \in Msg})
      /\ c[4] \in 1 .. MaxRetries /\ c[3] <= Last(c[1]) + 1
      /\ c = <<c[1], c[2], c[3], c[4]>>
  BY DEF Call
<1>2. c # <<>>
  <2>1. ASSUME NEW w, NEW x, NEW y, NEW z PROVE <<w, x, y, z>> # <<>>
    OBVIOUS
  <2> QED
    BY <1>1, <2>1
<1>3. \A n \in Nat \ {0} : \A k \in 1 .. n : k \in Nat
  OBVIOUS
<1>4. c[2] \in Nat /\ c[4] \in Nat
  BY ONLY <1>1, <1>3, DeliveryAssumption
<1>5. c[3] \in Nat
  BY ONLY <1>1, SMT
<1> QED
  BY ONLY <1>1, <1>2, <1>4, <1>5, LastNat

\* No segment number is too high to be asked for.
LEMMA SegmentsFinite ==
    LET U == UNION {0 .. Last(n) : n \in Msg}
    IN  /\ IsFiniteSet(U) /\ Cardinality(U) \in Nat
        /\ \A m \in Msg : Last(m) + 1 <= Cardinality(U)
<1> DEFINE P == {0 .. Last(n) : n \in Msg}
           U == UNION P
           part == [n \in Msg |-> 0 .. Last(n)]
<1>1. IsFiniteSet(P)
  <2>1. part \in Surjection(Msg, P)
    BY DEF Surjection
  <2> HIDE DEF part, P
  <2> QED
    BY <2>1, FS_Surjection, LastNat
<1>2. ASSUME NEW T \in P PROVE IsFiniteSet(T)
  <2>1. PICK n \in Msg : T = 0 .. Last(n)
    BY <1>2
  <2>2. 0 \in Int /\ Last(n) \in Int
    BY LastNat
  <2> QED
    BY <2>1, <2>2, FS_Interval
<1>3. \A n \in Msg : 0 .. Last(n) \subseteq U
  OBVIOUS
<1> HIDE DEF P
<1>4. IsFiniteSet(U)
  BY <1>1, <1>2, FS_UNION
<1> HIDE DEF U
<1>5. Cardinality(U) \in Nat
  BY <1>4, FS_CardinalityType
<1>6. ASSUME NEW m \in Msg PROVE Last(m) + 1 <= Cardinality(U)
  <2>1. 0 .. Last(m) \subseteq U
    BY <1>3
  <2>2. Cardinality(0 .. Last(m)) <= Cardinality(U)
    BY <2>1, <1>4, FS_Subset
  <2>3. Last(m) \in Nat /\ 0 \in Int /\ Last(m) \in Int
    BY LastNat
  <2>4. Cardinality(0 .. Last(m)) = Last(m) - 0 + 1
    BY <2>3, FS_Interval
  <2> QED
    BY <2>2, <2>3, <2>4
<1> QED
  BY <1>4, <1>5, <1>6 DEF U, P

LEMMA CallIs ==
    ASSUME NEW m \in Msg, NEW t \in 1 .. MaxTries, NEW k \in Nat,
           k <= Last(m) + 1, NEW a \in 1 .. MaxRetries
    PROVE  <<m, t, k, a>> \in Call
<1>1. k \in 0 .. Cardinality(UNION {0 .. Last(n) : n \in Msg})
  BY SegmentsFinite, LastNat
<1> QED
  BY <1>1 DEF Call

\* The calls can be counted.
LEMMA CallsFinite == IsFiniteSet(Call)
<1> DEFINE C == Msg \X (1 .. MaxTries)
                \X (0 .. Cardinality(UNION {0 .. Last(n) : n \in Msg}))
                \X (1 .. MaxRetries)
           Z == 0 .. Cardinality(UNION {0 .. Last(n) : n \in Msg})
           P3 == ((Msg \X (1 .. MaxTries)) \X Z) \X (1 .. MaxRetries)
           f == [x \in P3 |-> <<x[1][1][1], x[1][1][2], x[1][2], x[2]>>]
<1>1. IsFiniteSet(Z) /\ IsFiniteSet(1 .. MaxTries) /\ IsFiniteSet(1 .. MaxRetries)
  <2>1. /\ 0 \in Int /\ 1 \in Int /\ MaxTries \in Int /\ MaxRetries \in Int
        /\ Cardinality(UNION {0 .. Last(n) : n \in Msg}) \in Int
    BY SegmentsFinite, DeliveryAssumption
  <2> QED
    BY <2>1, FS_Interval
<1>2. IsFiniteSet(P3)
  <2>1. IsFiniteSet(Msg \X (1 .. MaxTries))
    BY <1>1, LastNat, FS_Product
  <2> HIDE DEF Z
  <2>2. IsFiniteSet((Msg \X (1 .. MaxTries)) \X Z)
    BY <1>1, <2>1, FS_Product
  <2> QED
    BY <1>1, <2>2, FS_Product
<1>3. f \in Surjection(P3, C)
  <2>1. ASSUME NEW y \in C PROVE \E x \in P3 : f[x] = y
    <3> DEFINE x == <<<<<<y[1], y[2]>>, y[3]>>, y[4]>>
    <3>1. x \in P3
      OBVIOUS
    <3>2. f[x] = y
      BY <3>1
    <3> QED
      BY <3>1, <3>2
  <2>2. f \in [P3 -> C]
    OBVIOUS
  <2> HIDE DEF f, P3, C
  <2> QED
    BY <2>1, <2>2 DEF Surjection
<1> HIDE DEF f, P3
<1>4. IsFiniteSet(C)
  BY <1>2, <1>3, FS_Surjection
<1>5. Call \subseteq C
  BY DEF Call
<1> QED
  BY <1>4, <1>5, FS_Subset

Begins0 == {c \in Call : c[3] = 0}

LEMMA OpIdFinite ==
    /\ IsFiniteSet(OpId) /\ OpId \subseteq Nat /\ 0 \notin OpId
    /\ IsFiniteSet(Begins0)
    /\ Cardinality(OpId) = Cardinality(Begins0) /\ Cardinality(Begins0) \in Nat
<1>1. IsFiniteSet(Begins0)
  BY CallsFinite, FS_Subset DEF Begins0
<1>2. Cardinality(Begins0) \in Nat
  BY <1>1, FS_CardinalityType
<1>3. OpId = 1 .. Cardinality(Begins0)
  BY DEF OpId, Begins0
<1> QED
  BY <1>1, <1>2, <1>3, FS_Interval, SMTT(40)

\* An operation for a first segment, before it is allocated.
Fresh == CHOOSE o \in OpId : /\ op[o].st = "none"
                             /\ \A p \in OpId : p < o => op[p].st # "none"

\* While a first segment is not yet performed there is an operation left for
\* it.
LEMMA FreshLeft ==
    ASSUME Room, NEW c \in Call, c[3] = 0, runs[c] = 0
    PROVE  Fresh \in OpId /\ op[Fresh].st = "none"
<1> DEFINE done == {d \in Call : runs[d] = 1 /\ d[3] = 0}
           spare == {o \in OpId : op[o].st = "none"}
<1>1. Cardinality(done) < Cardinality(Begins0) /\ Cardinality(done) \in Nat
  <2>1. done \in SUBSET Begins0 /\ c \in Begins0 /\ c \notin done
    BY DEF Begins0
  <2>2. /\ Cardinality(done) <= Cardinality(Begins0)
        /\ Cardinality(Begins0) = Cardinality(done) => Begins0 = done
        /\ IsFiniteSet(done)
    BY <2>1, OpIdFinite, FS_Subset
  <2>3. Cardinality(done) \in Nat
    BY <2>2, FS_CardinalityType
  <2> QED
    BY <2>1, <2>2, <2>3, OpIdFinite
<1>2. spare # {}
  <2> SUFFICES ASSUME spare = {} PROVE FALSE
    OBVIOUS
  <2>1. Begun = OpId
    BY DEF Begun
  <2> QED
    BY <1>1, <2>1, OpIdFinite DEF Room
<1>3. PICK o \in spare : \A p \in spare : o <= p
  BY <1>2, SmallestIndex DEF OpId
<1>4. \A p \in OpId : p < o => op[p].st # "none"
  BY <1>3, OpIdFinite
<1> QED
  BY <1>3, <1>4 DEF Fresh

-----------------------------------------------------------------------------
(* Steps of the service.                                                   *)

ServiceTyped ==
    /\ asked \subseteq Call
    /\ runs \in [Call -> {0, 1}]
    /\ answer \in [Call -> {{}, {"result"}, {"error"}}]
    /\ outcome \in [Call -> Seq([kind : Kinds, op : Call])]
    /\ told \in [Call -> Seq({"result", "error", "failure"})]

\* What has happened to a call stays.
Kept ==
    \A c \in Call :
        /\ c \in asked => c \in asked'
        /\ runs[c] = 1 => runs'[c] = 1
        /\ answer[c] # {} => answer'[c] = answer[c]
        /\ outcome[c] # <<>> => outcome'[c] = outcome[c]
        /\ told[c] # <<>> => told'[c] = told[c]

\* A step that tells the invoking user's side.
LEMMA InvokerStep ==
    ASSUME ServiceTyped, Served, NEW c \in Call,
           \/ D!Request(c) \/ D!Decline(c)
           \/ \E kind \in {"result", "error", "failure"} : D!Indicate(c, kind)
    PROVE  /\ ServiceTyped' /\ Served' /\ Kept
           /\ runs' = runs /\ answer' = answer /\ told' = told
<1>1. CASE D!Request(c)
  BY <1>1 DEF D!Request, ServiceTyped, Served, Kept
<1>2. CASE D!Decline(c)
  <2>1. /\ c \notin asked /\ asked' = asked \cup {c} /\ outcome[c] = <<>>
        /\ outcome' = [outcome EXCEPT ![c] = Outcome(c, "refused")]
        /\ UNCHANGED <<runs, answer, told>>
    BY <1>2 DEF D!Decline, Outcome, Served
  <2>2. /\ Outcome(c, "refused") \in Seq([kind : Kinds, op : Call])
        /\ Outcome(c, "refused") # Outcome(c, "result")
    BY DEF Outcome, Kinds
  <2> QED
    BY <2>1, <2>2 DEF ServiceTyped, Served, Kept
<1>3. CASE \E kind \in {"result", "error", "failure"} : D!Indicate(c, kind)
  <2>1. PICK kind \in {"result", "error", "failure"} :
          /\ c \in asked /\ outcome[c] = <<>>
          /\ kind \in answer[c] \cup {"failure"}
          /\ outcome' = [outcome EXCEPT ![c] = Outcome(c, kind)]
          /\ UNCHANGED <<asked, runs, answer, told>>
    BY <1>3 DEF D!Indicate, Outcome
  <2>2. /\ Outcome(c, kind) \in Seq([kind : Kinds, op : Call])
        /\ Outcome(c, kind) = Outcome(c, "result") => kind = "result"
        /\ Outcome(c, "result") # <<>>
    BY DEF Outcome, Kinds
  <2>3. kind = "result" => answer[c] = {"result"}
    BY <2>1 DEF ServiceTyped
  <2>4. ServiceTyped' /\ Kept
    BY <2>1, <2>2 DEF ServiceTyped, Kept
  <2>5. ASSUME NEW d \in Call
        PROVE  outcome'[d] = IF d = c THEN Outcome(c, kind) ELSE outcome[d]
    BY <2>1 DEF ServiceTyped
  <2>6. told[c] # <<"result">>
    BY <2>1, <2>2 DEF Served
  <2>7. Served'
    BY <2>1, <2>2, <2>3, <2>5, <2>6 DEF Served
  <2> QED
    BY <2>1, <2>4, <2>7
<1> QED
  BY <1>1, <1>2, <1>3

\* A step that tells the performing user's side.
LEMMA PerformerStep ==
    ASSUME ServiceTyped, Served, NEW c \in Call,
           \/ D!Perform(c) \/ D!PerformAndAnswer(c, "error")
           \/ D!Answer(c, "result") \/ D!Answer(c, "error")
           \/ \E kind \in {"result", "error", "failure"} : D!Tell(c, kind)
    PROVE  /\ ServiceTyped' /\ Served' /\ Kept
           /\ asked' = asked /\ outcome' = outcome
<1>1. CASE D!Perform(c)
  BY <1>1 DEF D!Perform, ServiceTyped, Served, Kept
<1>2. CASE D!PerformAndAnswer(c, "error")
  <2>1. /\ c \in asked /\ runs[c] = 0 /\ answer[c] = {}
        /\ runs' = [runs EXCEPT ![c] = 1]
        /\ answer' = [answer EXCEPT ![c] = {"error"}]
        /\ UNCHANGED <<asked, outcome, told>>
    BY <1>2 DEF D!PerformAndAnswer, Served
  <2> QED
    BY <2>1 DEF ServiceTyped, Served, Kept
<1>3. CASE D!Answer(c, "result")
  BY <1>3 DEF D!Answer, ServiceTyped, Served, Kept
<1>4. CASE D!Answer(c, "error")
  BY <1>4 DEF D!Answer, ServiceTyped, Served, Kept
<1>5. CASE \E kind \in {"result", "error", "failure"} : D!Tell(c, kind)
  <2>1. PICK kind \in {"result", "error", "failure"} :
          /\ runs[c] = 1 /\ told[c] = <<>>
          /\ kind = "failure" \/ (kind \in answer[c] /\ outcome[c] = Outcome(c, kind))
          /\ told' = [told EXCEPT ![c] = <<kind>>]
          /\ UNCHANGED <<asked, runs, answer, outcome>>
    BY <1>5 DEF D!Tell, Outcome
  <2>2. /\ <<kind>> \in Seq({"result", "error", "failure"})
        /\ <<kind>> = <<"result">> => kind = "result"
    OBVIOUS
  <2> QED
    BY <2>1, <2>2 DEF ServiceTyped, Served, Kept
<1> QED
  BY <1>1, <1>2, <1>3, <1>4, <1>5

-----------------------------------------------------------------------------
(* The steps of the message transfer system.                               *)

MtsInv == Typed /\ Served /\ MtsOK /\ AskedOK /\ SeqOK

\* What such a step does to the rest.
MtsFrame ==
    /\ UNCHANGED <<uaVars, runs, answer, told>>
    /\ Kept
    /\ \A m \in Msg : \A t \in 1 .. MaxTries :
          t <= tries[m] => t <= tries'[m] /\ seqOf'[m][t] = seqOf[m][t]
    /\ \A c \in Call :
          outcome'[c] = Outcome(c, "result") /\ outcome[c] # Outcome(c, "result") =>
              mts.st = "wait" /\ mts.ev = "none" /\ c = Current
    /\ \A m \in Msg : Known(m) => Known(m)'
    /\ \A m \in Msg : status'[m] = "delivered" =>
          \/ status[m] = "delivered"
          \/ \E c \in asked : /\ c[1] = m /\ c[3] >= Last(m)
                              /\ outcome[c] = Outcome(c, "result")

LEMMA OutcomeFacts ==
    ASSUME NEW c \in Call
    PROVE  /\ \A kind : Outcome(c, kind) # <<>>
           /\ \A kind \in Kinds : Outcome(c, kind) \in Seq([kind : Kinds, op : Call])
           /\ \A k1, k2 : Outcome(c, k1) = Outcome(c, k2) => k1 = k2
<1>1. ASSUME NEW kind PROVE Outcome(c, kind) # <<>>
  BY DEF Outcome
<1>2. ASSUME NEW kind \in Kinds PROVE Outcome(c, kind) \in Seq([kind : Kinds, op : Call])
  BY DEF Outcome
<1>3. ASSUME NEW k1, NEW k2, Outcome(c, k1) = Outcome(c, k2) PROVE k1 = k2
  <2>1. Outcome(c, k1)[1].kind = Outcome(c, k2)[1].kind
    BY <1>3
  <2> QED
    BY <2>1 DEF Outcome
<1> QED
  BY <1>1, <1>2, <1>3

\* An invocation that is requested, or declined.
LEMMA Issued ==
    ASSUME Typed, Served, NEW r \in MtsRec, NEW s \in MtsRec,
           r.st = "wait", s.st = "wait", r.msg = s.msg, r.try = s.try,
           r.seg = s.seg, r.retryCount = s.retryCount, r.next = s.next,
           NEW c, c = Invocation(r, r.seg), c \in Call, c \notin asked,
           mts_issueInvoke(c, r, s)
    PROVE  /\ ServiceTyped' /\ Served' /\ Kept
           /\ runs' = runs /\ answer' = answer /\ told' = told
           /\ asked' = asked \cup {c} /\ outcome[c] = <<>>
           /\ \A d \in Call : d # c => outcome'[d] = outcome[d]
           /\ mts' \in MtsRec /\ mts'.st = "wait" /\ Current' = c
           /\ mts'.msg = r.msg /\ mts'.try = r.try /\ mts'.seg = r.seg
           /\ mts'.retryCount = r.retryCount /\ mts'.next = r.next
           /\ \/ mts'.ev = "none" /\ outcome'[c] = <<>> /\ mts'.complete = r.complete
              \/ /\ mts'.ev = "failure" /\ outcome'[c] = Outcome(c, "refused")
                 /\ mts'.complete = s.complete
           /\ faults' \in 0 .. MaxFaults
<1>0. ServiceTyped
  BY DEF Typed, ServiceTyped
<1>1. outcome[c] = <<>>
  BY DEF Served
<1>2. CASE D!Request(c) /\ mts' = [r EXCEPT !.ev = "none"] /\ NoFault
  <2>1. ServiceTyped' /\ Served' /\ Kept /\ runs' = runs /\ answer' = answer /\ told' = told
    BY <1>0, <1>2, InvokerStep
  <2>2. asked' = asked \cup {c} /\ outcome' = outcome
    BY <1>2 DEF D!Request
  <2>3. mts' \in MtsRec /\ mts'.ev = "none" /\ mts'.complete = r.complete /\ mts'.st = "wait"
        /\ mts'.msg = r.msg /\ mts'.try = r.try /\ mts'.seg = r.seg
        /\ mts'.retryCount = r.retryCount /\ mts'.next = r.next
    BY <1>2 DEF MtsRec
  <2>4. Current' = c
    BY <2>3 DEF Current, Invocation
  <2> QED
    BY <1>1, <1>2, <2>1, <2>2, <2>3, <2>4 DEF NoFault, Typed
<1>3. CASE Fault /\ D!Decline(c) /\ mts' = [s EXCEPT !.ev = "failure"]
  <2>1. ServiceTyped' /\ Served' /\ Kept /\ runs' = runs /\ answer' = answer /\ told' = told
    BY <1>0, <1>3, InvokerStep
  <2>2. asked' = asked \cup {c} /\ outcome' = [outcome EXCEPT ![c] = Outcome(c, "refused")]
    BY <1>3 DEF D!Decline, Outcome
  <2>3. mts' \in MtsRec /\ mts'.ev = "failure" /\ mts'.complete = s.complete /\ mts'.st = "wait"
        /\ mts'.msg = r.msg /\ mts'.try = r.try /\ mts'.seg = r.seg
        /\ mts'.retryCount = r.retryCount /\ mts'.next = r.next
    BY <1>3 DEF MtsRec
  <2>4. Current' = c
    BY <2>3 DEF Current, Invocation
  <2>5. faults' \in 0 .. MaxFaults
    BY <1>3, DeliveryAssumption DEF Fault, Typed
  <2>6. outcome'[c] = Outcome(c, "refused") /\ \A d \in Call : d # c => outcome'[d] = outcome[d]
    BY <2>2 DEF Typed
  <2> QED
    BY <1>1, <2>1, <2>2, <2>3, <2>4, <2>5, <2>6
<1> QED
  BY <1>2, <1>3 DEF mts_issueInvoke

\* A PDU that is built and issued, or is not.
LEMMA Formed ==
    ASSUME Typed, Served, NEW r \in MtsRec, NEW s \in MtsRec,
           r.st = "wait", s.st = "wait", r.msg = s.msg, r.try = s.try,
           r.retryCount = s.retryCount, r.next = s.next,
           NEW c \in Call, c = Invocation(r, c[3]), c \notin asked,
           formatAndInvoke(c, r, s), skipped' = {}
    PROVE  /\ ServiceTyped' /\ Served' /\ Kept
           /\ runs' = runs /\ answer' = answer /\ told' = told
           /\ asked' \in {asked, asked \cup {c}} /\ outcome[c] = <<>>
           /\ outcome'[c] # Outcome(c, "result")
           /\ \A d \in Call : d # c => outcome'[d] = outcome[d]
           /\ mts' \in MtsRec /\ mts'.st = "wait" /\ Current' = c
           /\ mts'.msg = r.msg /\ mts'.try = r.try /\ mts'.seg = c[3]
           /\ mts'.retryCount = r.retryCount /\ mts'.next = r.next
           /\ \/ /\ mts'.ev = "none" /\ c \in asked' /\ outcome'[c] = <<>>
                 /\ mts'.complete = r.complete
              \/ /\ mts'.ev = "failure" /\ mts'.complete = s.complete
                 /\ c \in asked' => outcome'[c] # <<>>
           /\ faults' \in 0 .. MaxFaults
<1>0. ServiceTyped /\ c[3] \in Nat /\ outcome[c] = <<>> /\ <<>> # Outcome(c, "result")
  BY CallParts, OutcomeFacts DEF Typed, ServiceTyped, Served
<1>1. CASE mts_issueInvoke(c, [r EXCEPT !.seg = c[3], !.buf = "whole"],
                             [s EXCEPT !.seg = c[3], !.buf = "whole"])
  <2>1. PICK r1 : r1 = [r EXCEPT !.seg = c[3], !.buf = "whole"]
    OBVIOUS
  <2>2. PICK s1 : s1 = [s EXCEPT !.seg = c[3], !.buf = "whole"]
    OBVIOUS
  <2>3. /\ r1 \in MtsRec /\ r1.st = "wait" /\ r1.msg = r.msg /\ r1.try = r.try
        /\ r1.seg = c[3] /\ r1.retryCount = r.retryCount /\ r1.next = r.next
        /\ r1.complete = r.complete
    BY ONLY <1>0, <2>1, r \in MtsRec, r.st = "wait" DEF MtsRec
  <2>4. /\ s1 \in MtsRec /\ s1.st = "wait" /\ s1.msg = s.msg /\ s1.try = s.try
        /\ s1.seg = c[3] /\ s1.retryCount = s.retryCount /\ s1.next = s.next
        /\ s1.complete = s.complete
    BY ONLY <1>0, <2>2, s \in MtsRec, s.st = "wait" DEF MtsRec
  <2>5. c = Invocation(r1, r1.seg)
    BY <2>3 DEF Invocation
  <2>6. mts_issueInvoke(c, r1, s1)
    BY <1>1, <2>1, <2>2
  <2>7. /\ ServiceTyped' /\ Served' /\ Kept
        /\ runs' = runs /\ answer' = answer /\ told' = told
        /\ asked' = asked \cup {c} /\ outcome[c] = <<>>
        /\ \A d \in Call : d # c => outcome'[d] = outcome[d]
        /\ mts' \in MtsRec /\ mts'.st = "wait" /\ Current' = c
        /\ mts'.msg = r1.msg /\ mts'.try = r1.try /\ mts'.seg = r1.seg
        /\ mts'.retryCount = r1.retryCount /\ mts'.next = r1.next
        /\ \/ mts'.ev = "none" /\ outcome'[c] = <<>> /\ mts'.complete = r1.complete
           \/ /\ mts'.ev = "failure" /\ outcome'[c] = Outcome(c, "refused")
              /\ mts'.complete = s1.complete
        /\ faults' \in 0 .. MaxFaults
    BY <2>3, <2>4, <2>5, <2>6, Issued
  <2>8. /\ Outcome(c, "refused") # Outcome(c, "result") /\ Outcome(c, "refused") # <<>>
        /\ <<>> # Outcome(c, "result")
    BY OutcomeFacts
  <2> QED
    BY ONLY <2>3, <2>4, <2>7, <2>8
<1>2. CASE Fault /\ \E buf \in {"none", "spoilt"} :
              /\ mts' = [s EXCEPT !.seg = c[3], !.buf = buf, !.ev = "failure"]
              /\ UNCHANGED <<esroVars, pduVars>>
  <2>1. UNCHANGED <<asked, runs, answer, outcome, told>>
    BY <1>2 DEF esroVars
  <2>2. ServiceTyped' /\ Served' /\ Kept
    BY <1>0, <2>1 DEF ServiceTyped, Served, Kept
  <2>3. PICK buf \in {"none", "spoilt"} :
           mts' = [s EXCEPT !.seg = c[3], !.buf = buf, !.ev = "failure"]
    BY <1>2
  <2>4. /\ mts' \in MtsRec /\ mts'.st = "wait" /\ mts'.msg = s.msg /\ mts'.try = s.try
        /\ mts'.seg = c[3] /\ mts'.retryCount = s.retryCount /\ mts'.next = s.next
        /\ mts'.ev = "failure" /\ mts'.complete = s.complete
    BY ONLY <1>0, <2>3, s \in MtsRec, s.st = "wait" DEF MtsRec
  <2>5. Current' = c
    BY <2>4 DEF Current, Invocation
  <2>6. faults' \in 0 .. MaxFaults
    BY <1>2, DeliveryAssumption DEF Fault, Typed
  <2> QED
    BY <1>0, <2>1, <2>2, <2>4, <2>5, <2>6
<1>3. skipped' # skipped \cup {<<c[1], c[3]>>}
  OBVIOUS
<1> QED
  BY <1>1, <1>2, <1>3 DEF formatAndInvoke

\* The types of a step of the MTS.
LEMMA MtsTyped ==
    ASSUME Typed, ServiceTyped', UNCHANGED uaVars,
           status' \in [Msg -> {"queued", "delivered", "ndr"}],
           tries' \in [Msg -> 0 .. MaxTries], mts' \in MtsRec,
           seqNo' \in Nat, seqOf' \in [Msg -> [1 .. MaxTries -> Nat]],
           faults' \in 0 .. MaxFaults
    PROVE  Typed'
BY DEF Typed, ServiceTyped, uaVars

\* What has been asked for stays in order, when a new invocation c of the
\* operation is asked for.
LEMMA AskedGrows ==
    ASSUME MtsInv, ServiceTyped', Served', Kept, tries' \in [Msg -> 0 .. MaxTries],
           \A m \in Msg : tries[m] <= tries'[m],
           NEW c \in Call, c \notin asked, asked' \in {asked, asked \cup {c}},
           outcome'[c] # Outcome(c, "result"),
           \A d \in Call : d # c => outcome'[d] = outcome[d],
           mts'.st = "wait", c = Current',
           \* the operation of c, and what it has asked for before
           c[1] = mts'.msg, c[2] = mts'.try, c[3] = mts'.seg, c[4] = mts'.retryCount + 1,
           c[2] <= tries'[c[1]], Surplus(c) => Last(c[1]) = 0,
           \A k \in 0 .. c[3] - 1 : \E a \in 1 .. MaxRetries :
              LET b == <<c[1], c[2], k, a>>
              IN  b \in asked /\ outcome[b] = Outcome(b, "result"),
           \A d \in asked : d[1] = c[1] /\ d[2] = c[2] =>
              /\ d[3] < c[3] \/ (d[3] = c[3] /\ d[4] <= c[4])
              /\ outcome[d] = Outcome(d, "result") => d[3] < c[3],
           \A d \in asked : outcome[d] # <<>>,
           \A m \in Msg : Known(m) => Known(m)'
    PROVE  AskedOK'
<1> SUFFICES ASSUME NEW d \in asked'
             PROVE  /\ d[2] <= tries'[d[1]]
                    /\ outcome'[d] # <<>> \/ (mts'.st = "wait" /\ d = Current')
                    /\ Surplus(d) => Last(d[1]) = 0
                    /\ \A k \in 0 .. d[3] - 1 : \E a \in 1 .. MaxRetries :
                          LET b == <<d[1], d[2], k, a>>
                          IN  b \in asked' /\ outcome'[b] = Outcome(b, "result")
                    /\ mts'.st = "wait" /\ d[1] = mts'.msg /\ d[2] = mts'.try =>
                          /\ d[3] < mts'.seg \/ (d[3] = mts'.seg /\ d[4] <= mts'.retryCount + 1)
                          /\ outcome'[d] = Outcome(d, "result") => d[3] < mts'.seg \/ d = Current'
                    /\ outcome'[d] = Outcome(d, "result") /\ Last(d[1]) > 0 /\ d[3] = Last(d[1]) =>
                          Known(d[1])'
  BY DEF AskedOK, Surplus
<1>0. asked \subseteq Call /\ d \in Call
  BY DEF MtsInv, Typed
<1>1. \A b \in asked : outcome[b] = Outcome(b, "result") =>
          b \in asked' /\ outcome'[b] = Outcome(b, "result")
  BY <1>0
<1>2. CASE d = c
  <2>1. \A k \in 0 .. d[3] - 1 : \E a \in 1 .. MaxRetries :
           LET b == <<d[1], d[2], k, a>>
           IN  b \in asked' /\ outcome'[b] = Outcome(b, "result")
    BY <1>1, <1>2, ZenonT(60)
  <2>2. d = Current' /\ mts'.st = "wait" /\ outcome'[d] # Outcome(d, "result")
    BY <1>2
  <2>3. d[2] <= tries'[d[1]] /\ (Surplus(d) => Last(d[1]) = 0)
    BY <1>2
  <2>4. d[3] = mts'.seg /\ d[4] <= mts'.retryCount + 1
    <3>1. d[4] \in Nat
      BY <1>0, CallParts
    <3> QED
      BY <1>2, <3>1
  <2> QED
    BY <2>1, <2>2, <2>3, <2>4
<1>3. CASE d # c
  <2>1. /\ d \in asked /\ outcome'[d] = outcome[d] /\ outcome[d] # <<>>
    BY <1>0, <1>3
  <2>2. /\ d[2] <= tries[d[1]]
        /\ Surplus(d) => Last(d[1]) = 0
        /\ \A k \in 0 .. d[3] - 1 : \E a \in 1 .. MaxRetries :
              LET b == <<d[1], d[2], k, a>>
              IN  b \in asked /\ outcome[b] = Outcome(b, "result")
        /\ outcome[d] = Outcome(d, "result") /\ Last(d[1]) > 0 /\ d[3] = Last(d[1]) =>
              Known(d[1])
    BY <2>1 DEF MtsInv, AskedOK
  <2>3. d[1] \in Msg
    BY <1>0, CallParts
  <2>4. d[2] <= tries'[d[1]]
    <3>1. /\ tries[d[1]] \in Nat /\ tries'[d[1]] \in Nat /\ d[2] \in Nat
      <4>1. tries \in [Msg -> 0 .. MaxTries] /\ MaxTries \in Nat
        BY DeliveryAssumption DEF MtsInv, Typed
      <4> QED
        BY <1>0, <2>3, <4>1, CallParts
    <3> QED
      BY <2>2, <2>3, <3>1
  <2>5. \A k \in 0 .. d[3] - 1 : \E a \in 1 .. MaxRetries :
              LET b == <<d[1], d[2], k, a>>
              IN  b \in asked' /\ outcome'[b] = Outcome(b, "result")
    BY <1>1, <2>2
  <2> QED
    BY <2>1, <2>2, <2>3, <2>4, <2>5
<1> QED
  BY <1>2, <1>3

\* The first segment.
LEMMA TryKeeps ==
    ASSUME MtsInv, NEW m \in Msg, mts_tryDelivery(m), skipped' = {}
    PROVE  MtsInv' /\ MtsFrame
<1> DEFINE r == [Idle EXCEPT !.st = "wait", !.msg = m, !.try = tries[m] + 1, !.next = 1]
           s == [r EXCEPT !.complete = Last(m) = 0]
           c == Invocation(r, 0)
<1>0. /\ Typed /\ Served /\ MtsOK /\ AskedOK /\ SeqOK
      /\ mts.st = "idle" /\ status[m] = "queued"
      /\ tries' = [tries EXCEPT ![m] = @ + 1]
      /\ seqNo' = IF Last(m) > 0 THEN seqNo + 1 ELSE seqNo
      /\ seqOf' = [seqOf EXCEPT ![m][r.try] = IF Last(m) > 0 THEN seqNo' ELSE 0]
      /\ formatAndInvoke(c, s, r)
      /\ UNCHANGED <<status, uaVars>>
  BY DEF mts_tryDelivery, MtsInv
<1>1. /\ tries[m] \in 0 .. MaxTries /\ tries[m] < MaxTries /\ tries[m] \in Nat
      /\ tries[m] + 1 \in 1 .. MaxTries /\ MaxTries \in Nat \ {0}
      /\ MaxRetries \in Nat \ {0} /\ m \in Nat /\ Last(m) \in Nat
  BY <1>0, LastNat, DeliveryAssumption, SMTT(40) DEF mts_tryDelivery, Typed
<1>2. /\ r \in MtsRec /\ s \in MtsRec /\ r.st = "wait" /\ s.st = "wait"
      /\ r.msg = m /\ s.msg = m /\ r.try = tries[m] + 1 /\ s.try = tries[m] + 1
      /\ r.seg = 0 /\ s.seg = 0 /\ r.retryCount = 0 /\ s.retryCount = 0
      /\ r.complete = FALSE /\ s.complete = (Last(m) = 0)
      /\ r.next = 1 /\ s.next = 1
  <2>1. Idle \in MtsRec /\ Idle.seg = 0 /\ Idle.retryCount = 0 /\ Idle.complete = FALSE
    BY DEF MtsRec, Idle
  <2>2. PICK r1 : r1 = [Idle EXCEPT !.st = "wait"]
    OBVIOUS
  <2>3. /\ r1 \in MtsRec /\ r1.st = "wait" /\ r1.seg = 0 /\ r1.retryCount = 0
        /\ r1.complete = FALSE
    BY ONLY <2>1, <2>2 DEF MtsRec
  <2>4. PICK r2 : r2 = [r1 EXCEPT !.msg = m]
    OBVIOUS
  <2>5. /\ r2 \in MtsRec /\ r2.st = "wait" /\ r2.seg = 0 /\ r2.retryCount = 0
        /\ r2.complete = FALSE /\ r2.msg = m
    BY ONLY <1>1, <2>3, <2>4 DEF MtsRec
  <2>6. PICK r3 : r3 = [r2 EXCEPT !.try = tries[m] + 1]
    OBVIOUS
  <2>t. /\ r3 \in MtsRec /\ r3.st = "wait" /\ r3.seg = 0 /\ r3.retryCount = 0
        /\ r3.complete = FALSE /\ r3.msg = m /\ r3.try = tries[m] + 1
    BY ONLY <1>1, <2>5, <2>6 DEF MtsRec
  <2>n. r = [r3 EXCEPT !.next = 1]
    BY <2>2, <2>4, <2>6
  <2> HIDE DEF r
  <2>7. /\ r \in MtsRec /\ r.st = "wait" /\ r.seg = 0 /\ r.retryCount = 0
        /\ r.complete = FALSE /\ r.msg = m /\ r.try = tries[m] + 1 /\ r.next = 1
    BY ONLY <2>t, <2>n DEF MtsRec
  <2>8. PICK b \in BOOLEAN : b = (Last(m) = 0)
    OBVIOUS
  <2>9. s = [r EXCEPT !.complete = b]
    BY <2>8
  <2> HIDE DEF s
  <2>10. /\ s \in MtsRec /\ s.st = "wait" /\ s.seg = 0 /\ s.retryCount = 0
         /\ s.complete = b /\ s.msg = m /\ s.try = tries[m] + 1 /\ s.next = 1
    BY ONLY <2>7, <2>8, <2>9 DEF MtsRec
  <2> QED
    BY <2>7, <2>8, <2>10
<1>3. /\ c = Invocation(s, c[3]) /\ c = <<m, tries[m] + 1, 0, 1>>
      /\ c[1] = m /\ c[2] = tries[m] + 1 /\ c[3] = 0 /\ c[4] = 1
  BY <1>2 DEF Invocation
<1>4. c \in Call
  BY <1>1, <1>3, CallIs
<1>5. c \notin asked
  <2> SUFFICES ASSUME c \in asked PROVE FALSE
    OBVIOUS
  <2>1. tries[m] + 1 <= tries[m]
    BY <1>0, <1>3 DEF AskedOK
  <2> QED
    BY <1>1, <2>1
<1>r. r.try = tries[m] + 1
  BY <1>2
<1> HIDE DEF r, s, c
<1>6. /\ ServiceTyped' /\ Served' /\ Kept
      /\ runs' = runs /\ answer' = answer /\ told' = told
      /\ asked' \in {asked, asked \cup {c}} /\ outcome[c] = <<>>
      /\ outcome'[c] # Outcome(c, "result")
      /\ \A d \in Call : d # c => outcome'[d] = outcome[d]
      /\ mts' \in MtsRec /\ mts'.st = "wait" /\ Current' = c
      /\ mts'.msg = m /\ mts'.try = tries[m] + 1 /\ mts'.seg = 0
      /\ mts'.retryCount = 0 /\ mts'.next = 1
      /\ \/ /\ mts'.ev = "none" /\ c \in asked' /\ outcome'[c] = <<>>
            /\ mts'.complete = (Last(m) = 0)
         \/ /\ mts'.ev = "failure" /\ mts'.complete = FALSE
            /\ c \in asked' => outcome'[c] # <<>>
      /\ faults' \in 0 .. MaxFaults
  BY <1>0, <1>2, <1>3, <1>4, <1>5, Formed
<1>7. /\ tries' \in [Msg -> 0 .. MaxTries]
      /\ \A n \in Msg : tries[n] <= tries'[n]
      /\ tries'[m] = tries[m] + 1
      /\ \A n \in Msg \ {m} : tries'[n] = tries[n]
  <2>1. tries \in [Msg -> 0 .. MaxTries]
    BY <1>0 DEF Typed
  <2>2. tries' \in [Msg -> 0 .. MaxTries] /\ tries'[m] = tries[m] + 1
        /\ \A n \in Msg \ {m} : tries'[n] = tries[n]
    BY <1>0, <1>1, <2>1
  <2>3. ASSUME NEW n \in Msg PROVE tries[n] <= tries'[n]
    <3>1. tries[n] \in Nat
      BY <1>1, <2>1
    <3> QED
      BY <1>1, <2>2, <3>1
  <2> QED
    BY <2>2, <2>3
<1>8. /\ seqNo' \in Nat /\ seqNo' >= seqNo
      /\ seqOf' \in [Msg -> [1 .. MaxTries -> Nat]]
      /\ seqOf'[m][tries[m] + 1] = (IF Last(m) > 0 THEN seqNo + 1 ELSE 0)
      /\ \A n \in Msg : \A t \in 1 .. MaxTries :
            n # m \/ t # tries[m] + 1 => seqOf'[n][t] = seqOf[n][t]
  <2>1. seqNo \in Nat /\ seqOf \in [Msg -> [1 .. MaxTries -> Nat]]
    BY <1>0 DEF Typed
  <2>2. seqNo' \in Nat /\ seqNo' >= seqNo /\ (Last(m) > 0 => seqNo' = seqNo + 1)
    BY <1>0, <2>1
  <2>3. PICK v \in Nat : v = (IF Last(m) > 0 THEN seqNo + 1 ELSE 0)
    BY <2>1
  <2>4. seqOf' = [seqOf EXCEPT ![m][tries[m] + 1] = v]
    BY <1>0, <1>r, <2>2, <2>3
  <2> QED
    BY <1>1, <2>1, <2>2, <2>3, <2>4
<1>9. Typed'
  <2>1. status' \in [Msg -> {"queued", "delivered", "ndr"}]
    BY <1>0 DEF Typed
  <2> QED
    BY <1>0, <1>6, <1>7, <1>8, <2>1, MtsTyped
<1>10. MtsOK'
  <2>1. status'[m] = "queued"
    BY <1>0
  <2>2. mts'.ev = "result" <=> outcome'[c] = Outcome(c, "result")
    BY <1>6
  <2>3. /\ mts'.ev # "failure" => c \in asked'
        /\ mts'.ev # "none" /\ c \in asked' => outcome'[c] # <<>>
        /\ mts'.next = mts'.seg + 1 /\ 0 .. mts'.seg - 1 = {}
    BY <1>6
  <2>4. /\ mts'.retryCount < MaxRetries /\ mts'.try = tries'[m]
        /\ mts'.try \in 1 .. MaxTries /\ mts'.seg <= Last(m) + 1
        /\ ~ (mts'.seg > Last(m)) /\ (Last(m) = 0 => mts'.seg >= Last(m))
        /\ mts'.seg < Last(m) \/ Last(m) = 0
    BY <1>1, <1>6, <1>7
  <2>5. mts'.complete => Last(m) = 0
    BY <1>6
  <2>6. /\ mts'.st = "wait" /\ mts'.msg = m /\ Current' = c
        /\ mts'.ev = "none" => outcome'[c] = <<>>
    BY <1>6
  <2>7. /\ ~ (mts'.seg > Last(m)) /\ (mts'.complete => mts'.seg >= Last(m))
        /\ (~ mts'.complete => mts'.seg < Last(m) \/ Last(m) = 0)
    BY <2>4, <2>5, Zenon
  <2> HIDE DEF c
  <2> QED
    BY <2>1, <2>2, <2>3, <2>4, <2>6, <2>7 DEF MtsOK
<1>11. \A n \in Msg : Known(n) => Known(n)'
  BY <1>0 DEF Known
<1>12. AskedOK'
  <2>1. outcome'[c] # Outcome(c, "result")
    BY <1>6
  <2>2. \A d \in asked : outcome[d] # <<>> /\ ~ (d[1] = c[1] /\ d[2] = c[2])
    <3> SUFFICES ASSUME NEW d \in asked
                 PROVE  outcome[d] # <<>> /\ ~ (d[1] = c[1] /\ d[2] = c[2])
      OBVIOUS
    <3>1. d[2] <= tries[d[1]] /\ outcome[d] # <<>>
      BY <1>0 DEF AskedOK
    <3> QED
      BY <1>1, <1>3, <3>1
  <2>3. ~ Surplus(c) /\ 0 .. c[3] - 1 = {}
    BY <1>1, <1>3 DEF Surplus
  <2>4. c[1] = mts'.msg /\ c[2] = mts'.try /\ c[3] = mts'.seg
        /\ c[4] = mts'.retryCount + 1 /\ c[2] <= tries'[c[1]]
    BY <1>1, <1>3, <1>6, <1>7
  <2> QED
    BY <1>4, <1>5, <1>6, <1>7, <1>11, <2>1, <2>2, <2>3, <2>4, AskedGrows
<1>13. SeqOK'
  <2>1. \A n \in Msg : \A t \in 1 .. MaxTries :
          /\ seqOf[n][t] <= seqNo /\ seqOf[n][t] \in Nat
          /\ seqOf[n][t] > 0 <=> Last(n) > 0 /\ t <= tries[n]
          /\ \A x \in Msg : \A u \in 1 .. MaxTries :
                seqOf[n][t] > 0 /\ seqOf[n][t] = seqOf[x][u] => n = x /\ t = u
    <3>1. \A n \in Msg : \A t \in 1 .. MaxTries : seqOf[n][t] \in Nat
      BY <1>0 DEF Typed
    <3> QED
      BY <1>0, <3>1 DEF SeqOK
  <2>2. seqNo \in Nat /\ (Last(m) > 0 => seqNo' = seqNo + 1)
    BY <1>0 DEF Typed
  <2>3. ASSUME NEW n \in Msg, NEW t \in 1 .. MaxTries
        PROVE  /\ seqOf'[n][t] <= seqNo'
               /\ seqOf'[n][t] > 0 <=> Last(n) > 0 /\ t <= tries'[n]
    <3>1. CASE n = m /\ t = tries[m] + 1
      BY <1>1, <1>7, <1>8, <2>2, <3>1
    <3>2. CASE ~ (n = m /\ t = tries[m] + 1)
      <4>1. seqOf'[n][t] = seqOf[n][t]
        BY <1>8, <3>2
      <4>2. t <= tries'[n] <=> t <= tries[n]
        BY <1>1, <1>7, <3>2
      <4> QED
        BY <1>8, <2>1, <2>2, <4>1, <4>2
    <3> QED
      BY <3>1, <3>2
  <2>4. ASSUME NEW n \in Msg, NEW t \in 1 .. MaxTries, NEW x \in Msg, NEW u \in 1 .. MaxTries,
               seqOf'[n][t] > 0, seqOf'[n][t] = seqOf'[x][u]
        PROVE  n = x /\ t = u
    <3>1. CASE n = m /\ t = tries[m] + 1
      <4>1. seqOf'[n][t] = seqNo + 1
        BY <1>1, <1>8, <2>4, <3>1, SMTT(40)
      <4> QED
        BY <1>8, <2>1, <2>2, <2>4, <3>1, <4>1
    <3>2. CASE x = m /\ u = tries[m] + 1
      <4>1. seqOf'[x][u] = seqNo + 1
        BY <1>1, <1>8, <2>4, <3>2, SMTT(40)
      <4> QED
        BY <1>8, <2>1, <2>2, <2>4, <3>2, <4>1
    <3>3. CASE ~ (n = m /\ t = tries[m] + 1) /\ ~ (x = m /\ u = tries[m] + 1)
      BY <1>8, <2>1, <2>4, <3>3
    <3> QED
      BY <3>1, <3>2, <3>3
  <2> QED
    BY <2>3, <2>4 DEF SeqOK
<1>14. MtsFrame
  <2>1. \A n \in Msg : \A t \in 1 .. MaxTries :
          t <= tries[n] => t <= tries'[n] /\ seqOf'[n][t] = seqOf[n][t]
    <3>1. tries \in [Msg -> 0 .. MaxTries]
      BY <1>0 DEF Typed
    <3>2. \A n \in Msg : tries[n] \in Nat /\ tries'[n] \in Nat
      BY <1>1, <1>7, <3>1
    <3>3. \A t \in 1 .. MaxTries : t \in Nat
      BY <1>1
    <3>4. ASSUME NEW n \in Msg, NEW t \in 1 .. MaxTries, t <= tries[n]
          PROVE  t <= tries'[n] /\ (n # m \/ t # tries[m] + 1)
      BY <1>1, <1>7, <3>2, <3>3, <3>4
    <3> QED
      BY <1>8, <3>4
  <2>2. \A d \in Call : outcome'[d] = Outcome(d, "result") => outcome[d] = Outcome(d, "result")
    BY <1>6
  <2>3. status' = status /\ UNCHANGED uaVars
    BY <1>0
  <2> QED
    BY <1>6, <1>11, <2>1, <2>2, <2>3 DEF MtsFrame
<1> QED
  BY <1>6, <1>9, <1>10, <1>12, <1>13, <1>14 DEF MtsInv

\* The operation that waits.
LEMMA WaitFacts ==
    ASSUME MtsInv, mts.st = "wait"
    PROVE  /\ mts.msg \in Msg /\ mts.msg \in Nat /\ mts.try \in 1 .. MaxTries
           /\ mts.try = tries[mts.msg] /\ mts.try \in Nat
           /\ mts.seg \in Nat /\ Last(mts.msg) \in Nat
           /\ mts.retryCount \in Nat /\ mts.retryCount + 1 \in 1 .. MaxRetries
           /\ MaxRetries \in Nat
           /\ Current = <<mts.msg, mts.try, mts.seg, mts.retryCount + 1>>
           /\ Current[1] = mts.msg /\ Current[2] = mts.try /\ Current[3] = mts.seg
           /\ Current[4] = mts.retryCount + 1
           /\ Current \in Call /\ (mts.ev # "failure" => Current \in asked)
           /\ mts.next = mts.seg + 1
           /\ status[mts.msg] = "queued"
<1>1. mts \in MtsRec /\ asked \subseteq Call
  BY DEF MtsInv, Typed
<1>2. /\ mts.msg \in Msg /\ mts.try = tries[mts.msg] /\ mts.try \in 1 .. MaxTries
      /\ mts.retryCount < MaxRetries /\ status[mts.msg] = "queued"
      /\ (mts.ev # "failure" => Current \in asked) /\ mts.seg <= Last(mts.msg) + 1
      /\ mts.next = mts.seg + 1
  BY DEF MtsInv, MtsOK
<1>3. mts.msg \in Nat /\ mts.seg \in Nat /\ mts.retryCount \in Nat /\ mts.try \in Nat
  BY <1>1 DEF MtsRec
<1>4. MaxRetries \in Nat /\ mts.retryCount + 1 \in 1 .. MaxRetries
  BY <1>2, <1>3, DeliveryAssumption
<1>5. Current = <<mts.msg, mts.try, mts.seg, mts.retryCount + 1>>
  BY DEF Current, Invocation
<1>6. Current \in Call
  BY <1>2, <1>3, <1>4, <1>5, CallIs
<1> QED
  BY <1>1, <1>2, <1>3, <1>4, <1>5, <1>6, LastNat

\* What was known stays known, and what is delivered stays so, in a step of an
\* operation that waits and has not had the result for its last segment.
LEMMA KnownStays ==
    ASSUME MtsInv, mts.st = "wait", mts.ev # "result" \/ mts.complete # TRUE,
           \A m \in Msg : status[m] = "delivered" => status'[m] = "delivered",
           NEW m \in Msg, Known(m)
    PROVE  Known(m)'
BY DEF Known

LEMMA NextKeeps ==
    ASSUME MtsInv, mts.st = "wait", NextSegment, ~ wild', skipped' = {}
    PROVE  MtsInv' /\ MtsFrame
<1> DEFINE k == mts.next
           m == mts.msg
           r == [mts EXCEPT !.next = k + 1, !.complete = k >= Last(m)]
           c == Invocation(mts, k)
<1>0. /\ Typed /\ Served /\ MtsOK /\ AskedOK /\ SeqOK
      /\ mts.ev = "result" /\ ~ mts.complete
      /\ formatAndInvoke(c, r, r)
      /\ UNCHANGED <<status, tries, seqNo, seqOf, uaVars>>
  BY DEF NextSegment, MtsInv, uaVars
<1>1. /\ m \in Msg /\ m \in Nat /\ mts.try \in 1 .. MaxTries
      /\ mts.try = tries[m] /\ mts.try \in Nat
      /\ mts.seg \in Nat /\ Last(m) \in Nat /\ k \in Nat /\ k = mts.seg + 1
      /\ mts.retryCount \in Nat /\ mts.retryCount + 1 \in 1 .. MaxRetries
      /\ Current = <<m, mts.try, mts.seg, mts.retryCount + 1>>
      /\ Current[1] = m /\ Current[2] = mts.try /\ Current[3] = mts.seg
      /\ Current \in Call /\ Current \in asked
      /\ status[m] = "queued"
  BY <1>0, WaitFacts
<1>2. /\ mts.seg < Last(m) \/ (Last(m) = 0 /\ mts.seg = 0)
      /\ outcome[Current] = Outcome(Current, "result")
  BY <1>0, <1>1 DEF MtsOK
<1>3. /\ r \in MtsRec /\ r.st = "wait" /\ r.msg = m /\ r.try = mts.try /\ r.next = k + 1
      /\ r.retryCount = mts.retryCount /\ (r.complete <=> k >= Last(m))
  <2>1. mts \in MtsRec
    BY <1>0 DEF Typed
  <2>2. PICK b \in BOOLEAN : b = (k >= Last(m))
    <3> HIDE DEF k
    <3>1. CASE k >= Last(m)
      <4>1. TRUE = (k >= Last(m))
        BY <3>1, Zenon
      <4> QED
        BY <4>1, Zenon
    <3>2. CASE ~ (k >= Last(m))
      <4>1. FALSE = (k >= Last(m))
        BY <1>1, <3>2, SMT
      <4> QED
        BY <4>1, Zenon
    <3> QED
      BY <3>1, <3>2
  <2>n. PICK v \in Nat : v = k + 1
    BY <1>1
  <2>3. r = [mts EXCEPT !.next = v, !.complete = b]
    BY <2>2, <2>n
  <2> HIDE DEF r
  <2>4. /\ r \in MtsRec /\ r.st = mts.st /\ r.msg = m /\ r.try = mts.try /\ r.next = v
        /\ r.retryCount = mts.retryCount /\ r.complete = b
    BY ONLY <2>1, <2>2, <2>3, <2>n DEF MtsRec
  <2> QED
    BY <2>2, <2>4, <2>n
<1>4. /\ c = Invocation(r, c[3]) /\ c = <<m, mts.try, k, mts.retryCount + 1>>
      /\ c[1] = m /\ c[2] = mts.try /\ c[3] = k /\ c[4] = mts.retryCount + 1
  BY <1>3 DEF Invocation
<1> HIDE DEF r, c, k
<1>5. k <= Last(m) + 1 /\ c \in Call
  BY <1>1, <1>2, <1>4, CallIs
<1>6. \A d \in asked : d[1] = m /\ d[2] = mts.try => d[3] \in Nat /\ d[3] < k
  <2> SUFFICES ASSUME NEW d \in asked, d[1] = m, d[2] = mts.try PROVE d[3] \in Nat /\ d[3] < k
    OBVIOUS
  <2>1. d[3] \in Nat
    BY <1>0, CallParts DEF Typed
  <2>2. d[3] <= mts.seg
    BY <1>0, <1>1, <2>1, SMTT(40) DEF AskedOK
  <2> QED
    BY <1>1, <2>1, <2>2
<1>7. c \notin asked
  BY <1>1, <1>4, <1>6
<1>8. /\ ServiceTyped' /\ Served' /\ Kept
      /\ runs' = runs /\ answer' = answer /\ told' = told
      /\ asked' \in {asked, asked \cup {c}} /\ outcome[c] = <<>>
      /\ outcome'[c] # Outcome(c, "result")
      /\ \A d \in Call : d # c => outcome'[d] = outcome[d]
      /\ mts' \in MtsRec /\ mts'.st = "wait" /\ Current' = c
      /\ mts'.msg = m /\ mts'.try = mts.try /\ mts'.seg = k
      /\ mts'.retryCount = mts.retryCount /\ mts'.next = k + 1
      /\ mts'.complete = r.complete
      /\ \/ mts'.ev = "none" /\ c \in asked' /\ outcome'[c] = <<>>
         \/ mts'.ev = "failure" /\ (c \in asked' => outcome'[c] # <<>>)
      /\ faults' \in 0 .. MaxFaults
  BY <1>0, <1>3, <1>4, <1>5, <1>7, Formed
<1>e. ASSUME NEW j \in 0 .. k - 1
      PROVE  \E a \in 1 .. MaxRetries :
                LET b == <<m, mts.try, j, a>>
                IN  /\ b \in asked /\ outcome[b] = Outcome(b, "result")
                    /\ b \in asked' /\ outcome'[b] = Outcome(b, "result")
  <2>1. PICK a \in 1 .. MaxRetries :
           <<m, mts.try, j, a>> \in asked
           /\ outcome[<<m, mts.try, j, a>>] = Outcome(<<m, mts.try, j, a>>, "result")
    <3>1. CASE j = mts.seg
      BY <1>0, <1>1, <1>2, <3>1
    <3>2. CASE j # mts.seg
      <4>1. j \in 0 .. mts.seg - 1
        BY <1>1, <3>2
      <4> QED
        BY <1>0, <4>1 DEF MtsOK
    <3> QED
      BY <3>1, <3>2
  <2>2. PICK b : b = <<m, mts.try, j, a>>
    OBVIOUS
  <2>3. b \in asked /\ b \in Call /\ b # c
    BY <1>0, <1>7, <2>1, <2>2 DEF Typed
  <2>4. b \in asked' /\ outcome'[b] = outcome[b]
    BY <1>8, <2>3
  <2> QED
    BY <2>1, <2>2, <2>4
<1>9. /\ status' = status /\ tries' = tries /\ seqNo' = seqNo /\ seqOf' = seqOf
      /\ UNCHANGED uaVars
      /\ tries \in [Msg -> 0 .. MaxTries] /\ MaxTries \in Nat
      /\ \A n \in Msg : tries[n] <= tries'[n]
  <2>1. tries \in [Msg -> 0 .. MaxTries] /\ MaxTries \in Nat
    BY <1>0, DeliveryAssumption DEF Typed
  <2>2. \A n \in Msg : tries[n] \in Nat
    BY <2>1
  <2> QED
    BY <1>0, <2>1, <2>2
<1>10. Typed'
  BY <1>0, <1>8, <1>9, MtsTyped DEF Typed
<1>11. MtsOK'
  <2>1. mts'.ev = "result" <=> outcome'[c] = Outcome(c, "result")
    BY <1>8
  <2>2. /\ mts'.ev # "failure" => c \in asked'
        /\ mts'.ev # "none" /\ c \in asked' => outcome'[c] # <<>>
        /\ mts'.next = mts'.seg + 1
    BY <1>8
  <2>3. mts'.complete <=> k >= Last(m)
    BY <1>3, <1>8
  <2>4. /\ mts'.seg > Last(m) => Last(m) = 0 /\ mts'.complete
        /\ mts'.complete => mts'.seg >= Last(m)
        /\ ~ mts'.complete => mts'.seg < Last(m) \/ Last(m) = 0
    <3>1. mts'.seg = k
      BY <1>8
    <3>2. /\ k > Last(m) => Last(m) = 0
          /\ k > Last(m) => k >= Last(m)
          /\ ~ (k >= Last(m)) => k < Last(m)
      BY ONLY <1>1, <1>2, SMT
    <3> QED
      BY ONLY <2>3, <3>1, <3>2, Zenon
  <2>5. /\ mts'.retryCount < MaxRetries /\ mts'.try = tries'[m]
        /\ mts'.try \in 1 .. MaxTries /\ mts'.seg <= Last(m) + 1
        /\ status'[m] = "queued"
    BY <1>0, <1>1, <1>5, <1>8, <1>9 DEF MtsOK
  <2>6. /\ mts'.st = "wait" /\ mts'.msg = m /\ Current' = c
        /\ mts'.ev = "none" => outcome'[c] = <<>>
    BY <1>8
  <2>7. \A j \in 0 .. mts'.seg - 1 : \E a \in 1 .. MaxRetries :
           LET b == <<mts'.msg, mts'.try, j, a>>
           IN  b \in asked' /\ outcome'[b] = Outcome(b, "result")
    BY <1>4, <1>8, <1>e
  <2> QED
    BY <1>1, <2>1, <2>2, <2>4, <2>5, <2>6, <2>7 DEF MtsOK
<1>12. \A n \in Msg : Known(n) => Known(n)'
  BY <1>0, <1>9, KnownStays
<1>13. AskedOK'
  <2>1. outcome'[c] # Outcome(c, "result")
    BY <1>8
  <2>2. \A d \in asked : outcome[d] # <<>>
    <3>1. outcome[Current] # <<>>
      BY <1>1, <1>2, OutcomeFacts
    <3> QED
      BY <1>0, <3>1 DEF AskedOK
  <2>3. Surplus(c) => Last(c[1]) = 0
    BY <1>1, <1>2, <1>4 DEF Surplus
  <2>4. \A j \in 0 .. c[3] - 1 : \E a \in 1 .. MaxRetries :
              LET b == <<c[1], c[2], j, a>>
              IN  b \in asked /\ outcome[b] = Outcome(b, "result")
    BY <1>4, <1>e
  <2>5. c[1] = mts'.msg /\ c[2] = mts'.try /\ c[3] = mts'.seg
        /\ c[4] = mts'.retryCount + 1 /\ c[2] <= tries'[c[1]]
    BY <1>1, <1>4, <1>8, <1>9
  <2>6. \A d \in asked : d[1] = c[1] /\ d[2] = c[2] =>
              /\ d[3] < c[3] \/ (d[3] = c[3] /\ d[4] <= c[4])
              /\ outcome[d] = Outcome(d, "result") => d[3] < c[3]
    BY <1>4, <1>6
  <2>7. tries' \in [Msg -> 0 .. MaxTries]
    BY <1>9
  <2> QED
    BY <1>5, <1>7, <1>8, <1>9, <1>12, <2>1, <2>2, <2>3, <2>4, <2>5, <2>6, <2>7, AskedGrows
<1>14. SeqOK'
  BY <1>0, <1>9 DEF SeqOK
<1>15. MtsFrame
  <2>1. \A n \in Msg : \A t \in 1 .. MaxTries :
          t <= tries[n] => t <= tries'[n] /\ seqOf'[n][t] = seqOf[n][t]
    BY <1>9
  <2>2. \A d \in Call : outcome'[d] = Outcome(d, "result") => outcome[d] = Outcome(d, "result")
    BY <1>8
  <2> QED
    BY <1>8, <1>9, <1>12, <2>1, <2>2 DEF MtsFrame
<1> QED
  BY <1>8, <1>10, <1>11, <1>13, <1>14, <1>15 DEF MtsInv

LEMMA RetryKeeps ==
    ASSUME MtsInv, mts.st = "wait", Retry, ~ wild'
    PROVE  MtsInv' /\ MtsFrame
<1> DEFINE m == mts.msg
           r == [mts EXCEPT !.retryCount = @ + 1]
           c == Invocation(r, r.seg)
<1>0. /\ Typed /\ Served /\ MtsOK /\ AskedOK /\ SeqOK
      /\ mts.ev = "failure" /\ r.retryCount < MaxRetries
      /\ mts_issueInvoke(c, r, r)
      /\ UNCHANGED <<status, tries, seqNo, seqOf, uaVars>>
  BY DEF Retry, MtsInv, uaVars
<1>1. /\ m \in Msg /\ m \in Nat /\ mts.try \in 1 .. MaxTries
      /\ mts.try = tries[m] /\ mts.try \in Nat
      /\ mts.seg \in Nat /\ Last(m) \in Nat
      /\ mts.retryCount \in Nat /\ mts.retryCount + 1 \in 1 .. MaxRetries
      /\ MaxRetries \in Nat
      /\ Current = <<m, mts.try, mts.seg, mts.retryCount + 1>>
      /\ Current[1] = m /\ Current[2] = mts.try /\ Current[3] = mts.seg
      /\ Current \in Call /\ mts.next = mts.seg + 1
      /\ status[m] = "queued"
  BY WaitFacts
<1>2. /\ outcome[Current] # Outcome(Current, "result")
      /\ Current \in asked => outcome[Current] # <<>>
      /\ \A k \in 0 .. mts.seg - 1 : \E a \in 1 .. MaxRetries :
            LET b == <<m, mts.try, k, a>>
            IN  b \in asked /\ outcome[b] = Outcome(b, "result")
  BY <1>0 DEF MtsOK
<1>3. /\ r \in MtsRec /\ r.st = "wait" /\ r.msg = m /\ r.try = mts.try /\ r.seg = mts.seg
      /\ r.retryCount = mts.retryCount + 1 /\ r.complete = mts.complete
      /\ r.next = mts.next
  <2>1. mts \in MtsRec
    BY <1>0 DEF Typed
  <2>2. PICK v \in Nat : v = mts.retryCount + 1
    BY <1>1
  <2>3. r = [mts EXCEPT !.retryCount = v]
    BY <2>2
  <2> HIDE DEF r
  <2>4. /\ r \in MtsRec /\ r.st = mts.st /\ r.msg = m /\ r.try = mts.try /\ r.seg = mts.seg
        /\ r.retryCount = v /\ r.complete = mts.complete /\ r.next = mts.next
    BY ONLY <2>1, <2>2, <2>3 DEF MtsRec
  <2> QED
    BY <2>2, <2>4
<1>4. /\ c = <<m, mts.try, mts.seg, (mts.retryCount + 1) + 1>>
      /\ c[1] = m /\ c[2] = mts.try /\ c[3] = mts.seg /\ c[4] = (mts.retryCount + 1) + 1
  BY <1>3 DEF Invocation
<1>r. c = Invocation(r, r.seg)
  OBVIOUS
<1> HIDE DEF r, c
<1>5. c \in Call
  <2>1. mts.seg <= Last(m) + 1 /\ (mts.retryCount + 1) + 1 \in 1 .. MaxRetries
    BY <1>0, <1>1, <1>3, SMTT(40) DEF MtsOK
  <2> QED
    BY <1>1, <1>4, <2>1, CallIs
<1>6. ASSUME NEW d \in asked, d[1] = m, d[2] = mts.try
      PROVE  /\ d[3] \in Nat /\ d[4] \in Nat
             /\ d[3] < mts.seg \/ (d[3] = mts.seg /\ d[4] <= mts.retryCount + 1)
             /\ outcome[d] = Outcome(d, "result") => d[3] < mts.seg
  <2>1. d[3] \in Nat /\ d[4] \in Nat
    BY <1>0, CallParts DEF Typed
  <2> QED
    BY <1>0, <1>2, <1>6, <2>1 DEF AskedOK
<1>7. c \notin asked
  BY <1>1, <1>4, <1>6
<1>8. /\ ServiceTyped' /\ Served' /\ Kept
      /\ runs' = runs /\ answer' = answer /\ told' = told
      /\ asked' = asked \cup {c} /\ outcome[c] = <<>>
      /\ \A d \in Call : d # c => outcome'[d] = outcome[d]
      /\ mts' \in MtsRec /\ mts'.st = "wait" /\ Current' = c
      /\ mts'.msg = m /\ mts'.try = mts.try /\ mts'.seg = mts.seg
      /\ mts'.retryCount = mts.retryCount + 1 /\ mts'.next = mts.next
      /\ \/ mts'.ev = "none" /\ outcome'[c] = <<>> /\ mts'.complete = r.complete
         \/ /\ mts'.ev = "failure" /\ outcome'[c] = Outcome(c, "refused")
            /\ mts'.complete = r.complete
      /\ faults' \in 0 .. MaxFaults
  BY <1>0, <1>3, <1>r, <1>5, <1>7, Issued
<1>9. /\ status' = status /\ tries' = tries /\ seqNo' = seqNo /\ seqOf' = seqOf
      /\ UNCHANGED uaVars
      /\ tries \in [Msg -> 0 .. MaxTries] /\ MaxTries \in Nat
      /\ \A n \in Msg : tries[n] <= tries'[n]
  <2>1. tries \in [Msg -> 0 .. MaxTries] /\ MaxTries \in Nat
    BY <1>0, DeliveryAssumption DEF Typed
  <2>2. \A n \in Msg : tries[n] \in Nat
    BY <2>1
  <2> QED
    BY <1>0, <2>1, <2>2
<1>10. Typed'
  BY <1>0, <1>8, <1>9, MtsTyped DEF Typed
<1>11. MtsOK'
  <2>1. mts'.ev = "result" <=> outcome'[c] = Outcome(c, "result")
    BY <1>5, <1>8, OutcomeFacts
  <2>2. mts'.ev # "none" => outcome'[c] # <<>>
    BY <1>5, <1>8, OutcomeFacts
  <2>3. /\ mts'.complete = mts.complete /\ mts'.seg = mts.seg /\ mts'.msg = mts.msg
        /\ mts'.try = mts.try /\ mts'.next = mts'.seg + 1
    BY <1>1, <1>3, <1>8
  <2>4. /\ mts'.retryCount < MaxRetries /\ mts'.try = tries'[m]
        /\ mts'.try \in 1 .. MaxTries
        /\ status'[m] = "queued"
    BY <1>0, <1>1, <1>3, <1>8, <1>9
  <2>5. /\ mts'.st = "wait" /\ mts'.msg = m /\ Current' = c /\ c \in asked'
        /\ mts'.ev = "none" => outcome'[c] = <<>>
    BY <1>8
  <2>6. \A j \in 0 .. mts'.seg - 1 : \E a \in 1 .. MaxRetries :
           LET b == <<mts'.msg, mts'.try, j, a>>
           IN  b \in asked' /\ outcome'[b] = Outcome(b, "result")
    <3>1. asked \subseteq Call /\ asked' = asked \cup {c} /\ c \notin asked
      BY <1>0, <1>7, <1>8 DEF Typed
    <3>2. \A b \in asked : b \in asked' /\ outcome'[b] = outcome[b]
      BY <1>8, <3>1
    <3> QED
      BY <1>2, <2>3, <3>2
  <2> QED
    BY <1>0, <1>1, <2>1, <2>2, <2>3, <2>4, <2>5, <2>6 DEF MtsOK
<1>12. \A n \in Msg : Known(n) => Known(n)'
  BY <1>0, <1>9, KnownStays
<1>13. AskedOK'
  <2>1. outcome'[c] # Outcome(c, "result")
    BY <1>5, <1>8, OutcomeFacts
  <2>2. \A d \in asked : outcome[d] # <<>>
    BY <1>0, <1>2 DEF AskedOK
  <2>3. Surplus(c) => Last(c[1]) = 0
    BY <1>0, <1>1, <1>4 DEF Surplus, MtsOK
  <2>4. \A k \in 0 .. c[3] - 1 : \E a \in 1 .. MaxRetries :
              LET b == <<c[1], c[2], k, a>>
              IN  b \in asked /\ outcome[b] = Outcome(b, "result")
    BY <1>2, <1>4
  <2>5. c[1] = mts'.msg /\ c[2] = mts'.try /\ c[3] = mts'.seg
        /\ c[4] = mts'.retryCount + 1 /\ c[2] <= tries'[c[1]]
    BY <1>1, <1>4, <1>8, <1>9
  <2>6. \A d \in asked : d[1] = c[1] /\ d[2] = c[2] =>
              /\ d[3] < c[3] \/ (d[3] = c[3] /\ d[4] <= c[4])
              /\ outcome[d] = Outcome(d, "result") => d[3] < c[3]
    BY <1>1, <1>4, <1>6
  <2>7. tries' \in [Msg -> 0 .. MaxTries]
    BY <1>9
  <2> QED
    BY <1>5, <1>7, <1>8, <1>9, <1>12, <2>1, <2>2, <2>3, <2>4, <2>5, <2>6, <2>7, AskedGrows
<1>14. SeqOK'
  BY <1>0, <1>9 DEF SeqOK
<1>15. MtsFrame
  <2>1. \A n \in Msg : \A t \in 1 .. MaxTries :
          t <= tries[n] => t <= tries'[n] /\ seqOf'[n][t] = seqOf[n][t]
    BY <1>9
  <2>2. \A d \in Call : outcome'[d] = Outcome(d, "result") => outcome[d] = Outcome(d, "result")
    BY <1>5, <1>8, OutcomeFacts
  <2> QED
    BY <1>8, <1>9, <1>12, <2>1, <2>2 DEF MtsFrame
<1> QED
  BY <1>8, <1>10, <1>11, <1>13, <1>14, <1>15 DEF MtsInv

LEMMA IndicationKeeps ==
    ASSUME MtsInv, mts_indication
    PROVE  MtsInv' /\ MtsFrame
<1> DEFINE m == mts.msg
           c == Current
<1>0. /\ Typed /\ Served /\ MtsOK /\ AskedOK /\ SeqOK
      /\ mts.st = "wait" /\ mts.ev = "none"
      /\ UNCHANGED <<status, tries, seqNo, seqOf, uaVars, faults>>
  BY DEF mts_indication, MtsInv
<1>1. PICK kind \in {"result", "error", "failure"} :
          D!Indicate(c, kind) /\ mts' = [mts EXCEPT !.ev = kind]
  BY DEF mts_indication, Current
<1>2. /\ m \in Msg /\ mts.seg \in Nat /\ Last(m) \in Nat /\ c \in Call /\ c \in asked
      /\ c[1] = m /\ c[2] = mts.try /\ c[3] = mts.seg /\ outcome[c] = <<>>
  BY <1>0, WaitFacts DEF MtsOK
<1>3. /\ ServiceTyped' /\ Served' /\ Kept
      /\ runs' = runs /\ answer' = answer /\ told' = told
  <2>1. ServiceTyped
    BY <1>0 DEF Typed, ServiceTyped
  <2> HIDE DEF c
  <2> QED
    BY <1>0, <1>1, <1>2, <2>1, InvokerStep
<1>4. /\ asked' = asked /\ outcome'[c] = Outcome(c, kind)
      /\ \A d \in Call : d # c => outcome'[d] = outcome[d]
  <2>1. asked' = asked /\ outcome' = [outcome EXCEPT ![c] = Outcome(c, kind)]
    BY <1>1 DEF D!Indicate, Outcome
  <2> HIDE DEF c
  <2> QED
    BY <1>0, <1>2, <2>1 DEF Typed
<1>5. /\ mts' \in MtsRec /\ mts'.st = "wait" /\ mts'.msg = m /\ mts'.try = mts.try
      /\ mts'.seg = mts.seg /\ mts'.retryCount = mts.retryCount
      /\ mts'.complete = mts.complete /\ mts'.ev = kind /\ mts'.next = mts.next
  BY <1>0, <1>1 DEF Typed, MtsRec
<1>6. Current' = c
  BY <1>5 DEF Current, Invocation
<1> HIDE DEF c
<1>7. Typed'
  BY <1>0, <1>3, <1>5, MtsTyped DEF Typed
<1>8. /\ outcome'[c] # <<>> /\ (kind = "result" <=> outcome'[c] = Outcome(c, "result"))
  BY <1>2, <1>4, OutcomeFacts
<1>9. MtsOK'
  <2>1. \A b \in asked : outcome[b] = Outcome(b, "result") =>
              outcome'[b] = Outcome(b, "result")
    <3>1. asked \subseteq Call
      BY <1>0 DEF Typed
    <3>2. outcome[c] # Outcome(c, "result")
      BY <1>2, OutcomeFacts
    <3> QED
      BY <1>4, <3>1, <3>2
  <2>2. \A j \in 0 .. mts'.seg - 1 : \E a \in 1 .. MaxRetries :
           LET b == <<mts'.msg, mts'.try, j, a>>
           IN  b \in asked' /\ outcome'[b] = Outcome(b, "result")
    <3>1. \A j \in 0 .. mts.seg - 1 : \E a \in 1 .. MaxRetries :
             LET b == <<mts.msg, mts.try, j, a>>
             IN  b \in asked /\ outcome[b] = Outcome(b, "result")
      BY <1>0 DEF MtsOK
    <3> QED
      BY <1>4, <1>5, <2>1, <3>1
  <2> QED
    BY <1>0, <1>2, <1>4, <1>5, <1>6, <1>8, <2>2 DEF MtsOK
<1>10. \A n \in Msg : Known(n) => Known(n)'
  BY <1>0, KnownStays
<1>11. AskedOK'
  <2> SUFFICES ASSUME NEW d \in asked
               PROVE  /\ d[2] <= tries'[d[1]]
                      /\ outcome'[d] # <<>> \/ (mts'.st = "wait" /\ d = Current')
                      /\ Surplus(d) => Last(d[1]) = 0
                      /\ \A k \in 0 .. d[3] - 1 : \E a \in 1 .. MaxRetries :
                            LET b == <<d[1], d[2], k, a>>
                            IN  b \in asked' /\ outcome'[b] = Outcome(b, "result")
                      /\ mts'.st = "wait" /\ d[1] = mts'.msg /\ d[2] = mts'.try =>
                            /\ d[3] < mts'.seg \/ (d[3] = mts'.seg /\ d[4] <= mts'.retryCount + 1)
                            /\ outcome'[d] = Outcome(d, "result") => d[3] < mts'.seg \/ d = Current'
                      /\ outcome'[d] = Outcome(d, "result") /\ Last(d[1]) > 0 /\ d[3] = Last(d[1]) =>
                            Known(d[1])'
    BY <1>4 DEF AskedOK, Surplus
  <2>1. d \in Call /\ d[1] \in Msg
    BY <1>0, CallParts DEF Typed
  <2>2. /\ d[2] <= tries[d[1]]
        /\ outcome[d] # <<>> \/ (mts.st = "wait" /\ d = c)
        /\ Surplus(d) => Last(d[1]) = 0
        /\ \A k \in 0 .. d[3] - 1 : \E a \in 1 .. MaxRetries :
              LET b == <<d[1], d[2], k, a>>
              IN  b \in asked /\ outcome[b] = Outcome(b, "result")
        /\ mts.st = "wait" /\ d[1] = mts.msg /\ d[2] = mts.try =>
              /\ d[3] < mts.seg \/ (d[3] = mts.seg /\ d[4] <= mts.retryCount + 1)
              /\ outcome[d] = Outcome(d, "result") => d[3] < mts.seg \/ d = c
        /\ outcome[d] = Outcome(d, "result") /\ Last(d[1]) > 0 /\ d[3] = Last(d[1]) =>
              Known(d[1])
    BY <1>0 DEF AskedOK, c
  <2>3. \A b \in asked : outcome[b] = Outcome(b, "result") =>
              outcome'[b] = Outcome(b, "result")
    <3>1. asked \subseteq Call
      BY <1>0 DEF Typed
    <3>2. outcome[c] # Outcome(c, "result")
      BY <1>2, OutcomeFacts
    <3> QED
      BY <1>4, <3>1, <3>2
  <2>4. \A k \in 0 .. d[3] - 1 : \E a \in 1 .. MaxRetries :
              LET b == <<d[1], d[2], k, a>>
              IN  b \in asked' /\ outcome'[b] = Outcome(b, "result")
    BY <1>4, <2>2, <2>3
  <2>5. outcome'[d] # <<>> \/ d = c
    BY <1>4, <2>1, <2>2
  <2>6. outcome'[d] = Outcome(d, "result") /\ Last(d[1]) > 0 /\ d[3] = Last(d[1]) => Known(d[1])'
    <3>1. CASE d = c
      <4>1. outcome'[d] = Outcome(d, "result") => kind = "result"
        BY <1>8, <3>1
      <4>2. Last(d[1]) > 0 /\ d[3] = Last(d[1]) => mts.complete /\ d[1] = m
        BY <1>0, <1>2, <3>1 DEF MtsOK
      <4> QED
        BY <1>5, <4>1, <4>2 DEF Known
    <3>2. CASE d # c
      <4>1. outcome'[d] = outcome[d]
        BY <1>4, <2>1, <3>2
      <4>2. PICK n \in Msg : n = d[1]
        BY <2>1
      <4>3. Known(n) => Known(n)'
        BY <1>10
      <4> QED
        BY <2>2, <4>1, <4>2, <4>3 DEF Known
    <3> QED
      BY <3>1, <3>2
  <2>7. mts'.st = "wait" /\ d[1] = mts'.msg /\ d[2] = mts'.try =>
              /\ d[3] < mts'.seg \/ (d[3] = mts'.seg /\ d[4] <= mts'.retryCount + 1)
              /\ outcome'[d] = Outcome(d, "result") => d[3] < mts'.seg \/ d = c
    BY <1>0, <1>4, <1>5, <2>1, <2>2
  <2> QED
    BY <1>0, <1>5, <1>6, <2>2, <2>4, <2>5, <2>6, <2>7
<1>12. SeqOK'
  BY <1>0 DEF SeqOK
<1>13. MtsFrame
  <2>1. \A n \in Msg : \A t \in 1 .. MaxTries :
          t <= tries[n] => t <= tries'[n] /\ seqOf'[n][t] = seqOf[n][t]
    BY <1>0
  <2>2. \A d \in Call : outcome'[d] = Outcome(d, "result") /\ outcome[d] # Outcome(d, "result") =>
              mts.st = "wait" /\ mts.ev = "none" /\ d = Current
    BY <1>0, <1>4 DEF c
  <2> QED
    BY <1>0, <1>3, <1>10, <2>1, <2>2 DEF MtsFrame
<1> QED
  BY <1>3, <1>7, <1>9, <1>11, <1>12, <1>13 DEF MtsInv

\* The three ends of an operation.
LEMMA EndKeeps ==
    ASSUME MtsInv, mts.st = "wait", DeliverySucceeded \/ Reject \/ Respool
    PROVE  MtsInv' /\ MtsFrame
<1> DEFINE m == mts.msg
<1>0. /\ Typed /\ Served /\ MtsOK /\ AskedOK /\ SeqOK
      /\ UNCHANGED <<esroVars, tries, seqNo, seqOf, uaVars, faults>>
      /\ mts.ev # "none"
  BY DEF DeliverySucceeded, Reject, Respool, MtsInv
<1>1. mts' \in MtsRec /\ mts'.st # "wait" /\ mts'.ev = "none" /\ mts'.retryCount = 0
  <2>1. mts' = Idle \/ mts' = [Idle EXCEPT !.st = "blocked"]
    BY DEF DeliverySucceeded, Reject, Respool
  <2>2. Idle \in MtsRec /\ Idle.st = "idle" /\ Idle.ev = "none" /\ Idle.retryCount = 0
    BY DEF MtsRec, Idle
  <2>3. CASE mts' = [Idle EXCEPT !.st = "blocked"]
    BY ONLY <2>2, <2>3 DEF MtsRec
  <2> QED
    BY <2>1, <2>2, <2>3
<1>2. /\ m \in Msg /\ mts.seg \in Nat /\ Last(m) \in Nat /\ Current \in Call
      /\ mts.ev # "failure" => Current \in asked
      /\ Current[1] = m /\ Current[2] = mts.try /\ Current[3] = mts.seg
      /\ Current \in asked => outcome[Current] # <<>>
      /\ status[m] = "queued"
  BY <1>0, WaitFacts DEF MtsOK
<1>3. /\ status' \in [Msg -> {"queued", "delivered", "ndr"}]
      /\ \A n \in Msg : n # m => status'[n] = status[n]
      /\ status'[m] = "delivered" <=> mts.ev = "result" /\ mts.complete
  <2>1. CASE DeliverySucceeded
    BY <1>0, <1>2, <2>1 DEF DeliverySucceeded, Typed
  <2>2. CASE Reject
    BY <1>0, <1>2, <2>2 DEF Reject, Typed
  <2>3. CASE Respool
    BY <1>0, <1>2, <2>3 DEF Respool, Typed
  <2> QED
    BY <2>1, <2>2, <2>3
<1>4. UNCHANGED <<asked, runs, answer, outcome, told>> /\ Served' /\ ServiceTyped' /\ Kept
  BY <1>0 DEF esroVars, Served, ServiceTyped, Typed, Kept
<1>5. Typed'
  <2>1. UNCHANGED <<uaVars, tries, seqNo, seqOf, faults>>
    BY <1>0
  <2> QED
    BY <1>0, <1>1, <1>3, <1>4, <2>1, MtsTyped DEF Typed
<1>6. MtsOK'
  BY <1>1, DeliveryAssumption DEF MtsOK
<1>7. \A n \in Msg : Known(n) => Known(n)'
  <2> SUFFICES ASSUME NEW n \in Msg, Known(n) PROVE status'[n] = "delivered"
    BY DEF Known
  <2>1. CASE status[n] = "delivered"
    BY <1>2, <1>3, <2>1
  <2>2. CASE mts.msg = n /\ mts.complete /\ mts.ev = "result"
    BY <1>3, <2>2
  <2> QED
    BY <2>1, <2>2 DEF Known
<1>8. AskedOK'
  <2> SUFFICES ASSUME NEW d \in asked
               PROVE  /\ outcome[d] # <<>>
                      /\ outcome[d] = Outcome(d, "result") /\ Last(d[1]) > 0 /\ d[3] = Last(d[1]) =>
                            Known(d[1])'
    BY <1>0, <1>1, <1>4 DEF AskedOK
  <2>1. d[1] \in Msg
    BY <1>0, CallParts DEF Typed
  <2> QED
    BY <1>0, <1>2, <1>7, <2>1 DEF AskedOK
<1>9. SeqOK'
  BY <1>0 DEF SeqOK
<1>10. MtsFrame
  <2>1. \A n \in Msg : \A t \in 1 .. MaxTries :
          t <= tries[n] => t <= tries'[n] /\ seqOf'[n][t] = seqOf[n][t]
    BY <1>0
  <2>2. ASSUME NEW n \in Msg, status'[n] = "delivered"
        PROVE  \/ status[n] = "delivered"
               \/ \E c \in asked : /\ c[1] = n /\ c[3] >= Last(n)
                                   /\ outcome[c] = Outcome(c, "result")
    <3>1. CASE n # m
      BY <1>3, <2>2, <3>1
    <3>2. CASE n = m
      <4>1. mts.ev = "result" /\ mts.complete
        BY <1>3, <2>2, <3>2
      <4>2. mts.seg >= Last(m) /\ outcome[Current] = Outcome(Current, "result")
        BY <1>0, <4>1 DEF MtsOK
      <4>3. Current \in asked /\ Current[1] = m /\ Current[3] = mts.seg
        BY <1>2, <4>1
      <4> QED
        BY <3>2, <4>2, <4>3
    <3> QED
      BY <3>1, <3>2
  <2> QED
    BY <1>0, <1>4, <1>7, <2>1, <2>2 DEF MtsFrame
<1> QED
  BY <1>4, <1>5, <1>6, <1>8, <1>9, <1>10 DEF MtsInv

LEMMA MtsKeeps ==
    ASSUME MtsInv, ~ wild', skipped' = {},
           \/ \E m \in Msg : mts_tryDelivery(m)
           \/ mts_indication \/ MtsTransition
    PROVE  MtsInv' /\ MtsFrame
<1>1. MtsTransition => mts.st = "wait"
  BY DEF MtsTransition, DeliverySucceeded, NextSegment, Reject, Retry, Respool, MtsInv, MtsOK
<1> QED
  BY <1>1, TryKeeps, NextKeeps, RetryKeeps, IndicationKeeps, EndKeeps DEF MtsTransition

-----------------------------------------------------------------------------
(* The user agent while the MTS takes a step.                              *)

LEMMA OpParts ==
    ASSUME Typed, NEW o \in OpId
    PROVE  /\ op[o] \in OpRec
           /\ op[o].st \in {"none", "s1", "s2", "s4", "leaked", "free"}
           /\ op[o].call \in Call \cup {<<>>}
           /\ op[o].pending \in Seq(Call) /\ Len(op[o].pending) \in Nat
           /\ \A i \in 1 .. Len(op[o].pending) : op[o].pending[i] \in Call
           /\ op[o].seq \in Nat /\ op[o].last \in Nat
           /\ op[o].segs \in UNION {[S -> Msg] : S \in SUBSET Nat}
           /\ DOMAIN op[o].segs \subseteq Nat
           /\ \A k \in DOMAIN op[o].segs : op[o].segs[k] \in Msg
           /\ op[o].complete \in BOOLEAN /\ op[o].timer \in BOOLEAN
<1>1. op[o] \in OpRec
  BY DEF Typed
<1>2. /\ op[o].st \in {"none", "s1", "s2", "s4", "leaked", "free"}
      /\ op[o].call \in Call \cup {<<>>}
      /\ op[o].pending \in Seq(Call)
      /\ op[o].seq \in Nat /\ op[o].last \in Nat
      /\ op[o].segs \in UNION {[S -> Msg] : S \in SUBSET Nat}
      /\ op[o].complete \in BOOLEAN /\ op[o].timer \in BOOLEAN
  BY ONLY <1>1 DEF OpRec
<1>3. Len(op[o].pending) \in Nat /\ \A i \in 1 .. Len(op[o].pending) : op[o].pending[i] \in Call
  BY <1>2
<1>4. PICK S \in SUBSET Nat : op[o].segs \in [S -> Msg]
  BY <1>2
<1> QED
  BY <1>1, <1>2, <1>3, <1>4

\* A call that an operation holds was asked for, and has its sequence id.
LEMMA HeldAsked ==
    ASSUME DeliveryInv, NEW o \in OpId, NEW c \in Call, Holds(o, c)
    PROVE  /\ c \in asked /\ runs[c] = 1
           /\ c[1] \in Msg /\ c[2] \in 1 .. MaxTries /\ c[2] <= tries[c[1]]
           /\ Seq2(c) \in Nat /\ (Seq2(c) > 0 <=> Last(c[1]) > 0)
<1>1. c \in asked /\ runs[c] = 1
  BY DEF DeliveryInv, HeldOnce, Served
<1>2. c[1] \in Msg /\ c[2] \in 1 .. MaxTries
  BY CallParts
<1>3. c[2] <= tries[c[1]]
  BY <1>1 DEF DeliveryInv, AskedOK
<1>4. Seq2(c) \in Nat
  <2>1. seqOf \in [Msg -> [1 .. MaxTries -> Nat]]
    BY DEF DeliveryInv, Typed
  <2>2. seqOf[c[1]] \in [1 .. MaxTries -> Nat]
    BY ONLY <1>2, <2>1
  <2>3. seqOf[c[1]][c[2]] \in Nat
    BY ONLY <1>2, <2>2
  <2> QED
    BY ONLY <2>3 DEF Seq2
<1>5. Seq2(c) > 0 <=> Last(c[1]) > 0
  BY <1>2, <1>3 DEF DeliveryInv, SeqOK, Seq2
<1> QED
  BY <1>1, <1>2, <1>3, <1>4, <1>5

\* The sequence id says which message and try.
LEMMA SeqTells ==
    ASSUME SeqOK, NEW c \in Call, NEW d \in Call, Seq2(c) > 0, Seq2(c) = Seq2(d)
    PROVE  c[1] = d[1] /\ c[2] = d[2]
BY CallParts DEF SeqOK, Seq2

LEMMA MtsFrameKeeps ==
    ASSUME DeliveryInv, MtsInv', MtsFrame
    PROVE  DeliveryInv'
<1>0. /\ Typed /\ Served /\ MtsOK /\ AskedOK /\ SeqOK /\ HeldOnce /\ MtsInv
      /\ active' = active /\ op' = op /\ tasks' = tasks /\ shown' = shown /\ acked' = acked
      /\ runs' = runs /\ answer' = answer /\ told' = told /\ Kept
      /\ \A o \in OpId : PendingOK(o) /\ SegsOK(o) /\ Begins(o)
  BY DEF DeliveryInv, MtsFrame, uaVars, MtsInv
<1>1. \A o \in OpId : Holds(o, <<>>)' = Holds(o, <<>>) /\ \A c \in Call : Holds(o, c)' = Holds(o, c)
  BY <1>0 DEF Holds
<1>2. Room' /\ ActiveOK' /\ HeldOnce' /\ ShownWhole'
  <2>1. Room' /\ ActiveOK' /\ ShownWhole'
    BY <1>0 DEF DeliveryInv, Room, Begun, ActiveOK, ShownWhole
  <2>2. HeldOnce'
    <3>1. \A o \in OpId : \A c \in Call : Holds(o, c)' <=> Holds(o, c)
      BY ONLY <1>1
    <3>2. HeldOnce /\ op' = op /\ runs' = runs /\ answer' = answer
      BY ONLY <1>0
    <3> QED
      BY ONLY <3>1, <3>2 DEF HeldOnce
  <2> QED
    BY <2>1, <2>2
<1>3. ASSUME NEW c \in asked PROVE c \in Call /\ Seq2(c)' = Seq2(c) /\ c \in asked'
  <2>1. c \in Call /\ c[1] \in Msg /\ c[2] \in 1 .. MaxTries
    BY <1>0, CallParts DEF Typed
  <2>2. c[2] <= tries[c[1]]
    BY <1>0 DEF AskedOK
  <2> QED
    BY <1>0, <2>1, <2>2 DEF MtsFrame, Seq2, Kept
<1>4. ASSUME NEW c \in Call, Dead(c) PROVE Dead(c)'
  BY <1>0, <1>4 DEF Kept, Dead
<1>5. ASSUME NEW o \in OpId, NEW c \in Call, Holds(o, c) PROVE c \in asked
  BY <1>5, HeldAsked
<1>6. ASSUME NEW o \in OpId PROVE PendingOK(o)'
  <2>1. PendingOK(o)
    BY <1>0
  <2>2. ASSUME NEW i \in 1 .. Len(op[o].pending)
        PROVE  op[o].pending[i] \in Call /\ op[o].pending[i] \in asked
    <3>1. op[o].pending[i] \in Call
      BY <1>0, OpParts
    <3>2. Holds(o, op[o].pending[i])
      BY DEF Holds
    <3> QED
      BY <1>5, <3>1, <3>2
  <2>3. ASSUME NEW i \in 1 .. Len(op[o].pending)
        PROVE  /\ op[o].pending[i][3] = 0 => i = 1 /\ op[o].call = <<>>
               /\ op[o].pending[i][3] > 0 /\ ~ Surplus(op[o].pending[i]) =>
                     op[o].seq = Seq2(op[o].pending[i])'
               /\ Surplus(op[o].pending[i]) /\ op[o].call = <<>> /\ Last(op[o].pending[1][1]) > 0 =>
                     Dead(op[o].pending[i])' \/ Dead(op[o].pending[1])'
               /\ Surplus(op[o].pending[i]) /\ op[o].seq > 0 =>
                     Dead(op[o].pending[i])' \/ (op[o].call[3] = 0 /\ Dead(op[o].call)')
    <3>1. op[o].pending[i] \in Call /\ Seq2(op[o].pending[i])' = Seq2(op[o].pending[i])
      BY <1>0, <1>3, <2>2
    <3>2. op[o].pending[1] \in Call
      <4>1. 1 \in 1 .. Len(op[o].pending)
        BY <1>0, OpParts
      <4> QED
        BY <2>2, <4>1
    <3>3. op[o].seq > 0 => op[o].call \in Call
      BY <1>0, <2>1, OpParts DEF PendingOK
    <3>4. /\ op[o].pending[i][3] = 0 => i = 1 /\ op[o].call = <<>>
          /\ op[o].pending[i][3] > 0 /\ ~ Surplus(op[o].pending[i]) =>
                op[o].seq = Seq2(op[o].pending[i])
          /\ Surplus(op[o].pending[i]) /\ op[o].call = <<>> /\ Last(op[o].pending[1][1]) > 0 =>
                Dead(op[o].pending[i]) \/ Dead(op[o].pending[1])
          /\ Surplus(op[o].pending[i]) /\ op[o].seq > 0 =>
                Dead(op[o].pending[i]) \/ (op[o].call[3] = 0 /\ Dead(op[o].call))
      BY <2>1 DEF PendingOK
    <3>5. /\ Dead(op[o].pending[i]) => Dead(op[o].pending[i])'
          /\ Dead(op[o].pending[1]) => Dead(op[o].pending[1])'
          /\ op[o].seq > 0 /\ Dead(op[o].call) => Dead(op[o].call)'
      BY <1>0, <1>4, <3>1, <3>2, <3>3 DEF Dead
    <3> QED
      BY <3>1, <3>4, <3>5, Zenon
  <2>4. op[o].call # <<>> /\ Surplus(op[o].call) /\ op[o].seq > 0 => Dead(op[o].call)'
    BY <1>0, <1>4, <2>1, OpParts DEF PendingOK
  <2>5. op[o].st = "free" => op[o].pending = <<>>
    BY ONLY <2>1 DEF PendingOK
  <2>6. /\ op[o].st = "none" => op[o] = NoOp
        /\ op[o].st = "leaked" => op[o].call = <<>>
    BY ONLY <2>1 DEF PendingOK
  <2>7. op[o].call = <<>> =>
           /\ op[o].seq = 0 /\ op[o].segs = <<>> /\ op[o].st \in {"none", "s1", "leaked", "free"}
           /\ op[o].st = "s1" => op[o].pending # <<>> /\ op[o].pending[1][3] = 0
    BY ONLY <2>1 DEF PendingOK
  <2>8. op' = op
    BY <1>0
  <2>9. \A c : Surplus(c)' <=> Surplus(c)
    BY DEF Surplus
  <2> QED
    BY ONLY <2>3, <2>4, <2>5, <2>6, <2>7, <2>8, <2>9 DEF PendingOK
<1>7. ASSUME NEW o \in OpId, op[o].call # <<>>
      PROVE  op[o].call \in Call /\ op[o].call \in asked /\ Seq2(op[o].call)' = Seq2(op[o].call)
  <2>1. op[o].call \in Call /\ Holds(o, op[o].call)
    BY <1>0, <1>7, OpParts DEF Holds
  <2> QED
    BY <1>0, <1>3, <1>5, <2>1
<1>8. ASSUME NEW o \in OpId PROVE SegsOK(o)'
  <2>1. SegsOK(o)
    BY <1>0
  <2>2. ASSUME op[o].segs # <<>>
        PROVE  \E t \in 1 .. MaxTries :
                  t <= tries'[op[o].segs[0]] /\ op[o].seq = seqOf'[op[o].segs[0]][t]
    <3>1. PICK t \in 1 .. MaxTries :
             t <= tries[op[o].segs[0]] /\ op[o].seq = seqOf[op[o].segs[0]][t]
      BY <2>1, <2>2 DEF SegsOK
    <3>2. op[o].segs[0] \in Msg
      BY <1>0, <2>1, <2>2, OpParts DEF SegsOK
    <3> QED
      BY <3>1, <3>2 DEF MtsFrame
  <2> QED
    BY <1>0, <1>7, <2>1, <2>2 DEF SegsOK, Surplus, Seq2
<1>9. ASSUME NEW o \in OpId, Advanced(o)', ~ Advanced(o)
      PROVE  /\ op[o].segs # <<>> /\ Last(op[o].segs[0]) > 0
             /\ op[o].call # <<>> /\ op[o].call[3] = 0 /\ op[o].call = Current
             /\ mts.st = "wait" /\ mts.ev = "none"
             /\ outcome'[op[o].call] = Outcome(op[o].call, "result")
             /\ op[o].segs[0] = op[o].call[1] /\ op[o].seq = Seq2(op[o].call)
  <2>1. op[o].segs # <<>> /\ Last(op[o].segs[0]) > 0 /\ op[o].call # <<>>
    BY <1>0, <1>9 DEF Advanced, SegsOK
  <2>2. op[o].call \in Call /\ op[o].call[3] = 0
    BY <1>0, <1>9, <1>7, <2>1, CallParts DEF Advanced
  <2>3. /\ outcome'[op[o].call] = Outcome(op[o].call, "result")
        /\ outcome[op[o].call] # Outcome(op[o].call, "result")
    BY <1>0, <1>9, <2>1, <2>2 DEF Advanced
  <2> QED
    BY <1>0, <2>1, <2>2, <2>3 DEF MtsFrame, SegsOK
<1>10. ASSUME NEW c \in Call, outcome[c] = Outcome(c, "result")
       PROVE  outcome'[c] = Outcome(c, "result")
  BY <1>0, <1>10, OutcomeFacts DEF Kept
<1>11. ASSUME NEW o \in OpId PROVE Begins(o)'
  <2> SUFFICES ASSUME Advanced(o)'
               PROVE  \E c \in asked' :
                         /\ c[1] = op[o].segs[0] /\ c[3] = 0 /\ Seq2(c)' = op[o].seq
                         /\ outcome'[c] = Outcome(c, "result")
    BY <1>0 DEF Begins, Seq2
  <2>1. CASE Advanced(o)
    <3>1. PICK c \in asked : /\ c[1] = op[o].segs[0] /\ c[3] = 0 /\ Seq2(c) = op[o].seq
                             /\ outcome[c] = Outcome(c, "result")
      BY <1>0, <2>1 DEF Begins
    <3> QED
      BY <1>3, <1>10, <3>1
  <2>2. CASE ~ Advanced(o)
    BY <1>3, <1>7, <1>9, <2>2
  <2> QED
    BY <2>1, <2>2
<1>12. ASSUME NEW o \in OpId, NEW p \in OpId, Advanced(o)', ~ Advanced(o), Advanced(p),
              op[o].seq = op[p].seq
       PROVE  FALSE
  <2>1. PICK c \in asked : /\ c[1] = op[p].segs[0] /\ c[3] = 0 /\ Seq2(c) = op[p].seq
                           /\ outcome[c] = Outcome(c, "result")
    BY <1>0, <1>12 DEF Begins
  <2>2. c \in Call /\ op[o].call \in Call /\ Seq2(c) = Seq2(op[o].call)
    BY <1>3, <1>7, <1>9, <1>12, <2>1
  <2>3. Seq2(op[o].call) > 0
    BY <1>7, <1>9, <1>12, HeldAsked DEF Holds
  <2>4. c[1] = op[o].call[1] /\ c[2] = op[o].call[2]
    BY <1>0, <2>2, <2>3, SeqTells
  <2>5. op[o].call = Current /\ mts.st = "wait" /\ mts.ev = "none" /\ op[o].call[3] = 0
    BY <1>9, <1>12
  <2>6. Current[1] = mts.msg /\ Current[2] = mts.try /\ Current[3] = mts.seg
    BY <1>0, <2>5, WaitFacts
  <2>7. c[3] < mts.seg \/ c = Current
    BY <1>0, <2>1, <2>4, <2>5, <2>6 DEF AskedOK
  <2>8. c = Current
    BY <2>1, <2>5, <2>6, <2>7
  <2>9. outcome[Current] = <<>>
    BY <1>0, <2>5 DEF MtsOK
  <2> QED
    BY <2>1, <2>2, <2>8, <2>9, OutcomeFacts
<1>13. OneAdvances'
  <2> SUFFICES ASSUME NEW o \in OpId, NEW p \in OpId, Advanced(o)', Advanced(p)',
                      op[o].seq = op[p].seq
               PROVE  o = p
    BY <1>0 DEF OneAdvances
  <2>1. CASE Advanced(o) /\ Advanced(p)
    BY <2>1 DEF DeliveryInv, OneAdvances
  <2>2. CASE ~ Advanced(o) /\ Advanced(p)
    BY <1>12, <2>2
  <2>3. CASE Advanced(o) /\ ~ Advanced(p)
    BY <1>12, <2>3
  <2>4. CASE ~ Advanced(o) /\ ~ Advanced(p)
    <3>1. op[o].call = op[p].call /\ op[o].call \in Call
      BY <1>7, <1>9, <2>4
    <3> QED
      BY <1>0, <3>1 DEF HeldOnce, Holds
  <2> QED
    BY <2>1, <2>2, <2>3, <2>4
<1>14. Confirmed'
  BY <1>0 DEF DeliveryInv, Confirmed
<1>15. Answers'
  <2> SUFFICES ASSUME NEW c \in Call, answer[c] = {"result"}
               PROVE  /\ ~ Surplus(c) => \E o \in OpId : Took(o, c)'
                      /\ c[3] = Last(c[1]) => \E s \in shown : s[2] = Whole(c[1])
    BY <1>0 DEF Answers, Surplus
  <2>1. Seq2(c)' = Seq2(c)
    BY <1>0, <1>3 DEF Served
  <2>2. /\ ~ Surplus(c) => \E o \in OpId : Took(o, c)
        /\ c[3] = Last(c[1]) => \E s \in shown : s[2] = Whole(c[1])
    BY DEF DeliveryInv, Answers
  <2>3. \A o \in OpId : Took(o, c) => Took(o, c)'
    BY <1>0, <2>1 DEF Took, Surplus
  <2> QED
    BY <2>2, <2>3
<1>16. DeliveredHeld'
  <2> SUFFICES ASSUME NEW m \in Msg, status'[m] = "delivered"
               PROVE  \E s \in shown : s[2] = Whole(m)
    BY <1>0 DEF DeliveredHeld
  <2>1. CASE status[m] = "delivered"
    BY <2>1 DEF DeliveryInv, DeliveredHeld
  <2>2. CASE \E c \in asked : /\ c[1] = m /\ c[3] >= Last(m)
                              /\ outcome[c] = Outcome(c, "result")
    <3>1. PICK c \in asked : c[1] = m /\ c[3] >= Last(m) /\ outcome[c] = Outcome(c, "result")
      BY <2>2
    <3>2. c \in Call /\ c[3] \in Nat /\ Last(m) \in Nat
      BY <1>3, <3>1, CallParts
    <3>3. PICK b \in asked : b[1] = m /\ b[3] = Last(m) /\ outcome[b] = Outcome(b, "result")
      <4>1. CASE c[3] = Last(m)
        BY <3>1, <4>1
      <4>2. CASE c[3] > Last(m)
        <5>1. Last(m) \in 0 .. c[3] - 1
          BY <3>2, <4>2
        <5>2. PICK a \in 1 .. MaxRetries :
                 LET b == <<c[1], c[2], Last(m), a>>
                 IN  b \in asked /\ outcome[b] = Outcome(b, "result")
          BY <1>0, <5>1 DEF AskedOK
        <5> QED
          BY <3>1, <5>2
      <4> QED
        BY <3>1, <3>2, <4>1, <4>2
    <3>4. b \in Call /\ answer[b] = {"result"}
      BY <1>0, <1>3, <3>3 DEF Served
    <3> QED
      BY <3>3, <3>4 DEF DeliveryInv, Answers
  <2> QED
    BY <2>1, <2>2 DEF MtsFrame
<1>17. AckedFinal'
  <2>1. \A m \in acked : m \in Msg /\ (Last(m) > 0 => Known(m))
    BY <1>0 DEF DeliveryInv, AckedFinal, Known, Typed
  <2>2. \A m \in Msg : Known(m) => Known(m)'
    BY DEF MtsFrame
  <2> QED
    BY <1>0, <2>1, <2>2 DEF AckedFinal, Known
<1> QED
  BY <1>2, <1>6, <1>8, <1>11, <1>13, <1>14, <1>15, <1>16, <1>17 DEF DeliveryInv, MtsInv

-----------------------------------------------------------------------------
(* The steps of the user agent.                                            *)

\* Such a step leaves the message transfer system alone.
UaFrame ==
    /\ UNCHANGED <<mtsVars, asked, outcome>>
    /\ ServiceTyped' /\ Served' /\ Kept

UaTyped ==
    /\ active \in Seq(OpId)
    /\ op \in [OpId -> OpRec]
    /\ tasks \in Seq(OpId \X {"invoke", "resultCon", "errorCon", "failure"})
    /\ acked \subseteq Msg
    /\ wild \in BOOLEAN /\ faults \in 0 .. MaxFaults

\* The segments of operation o stay, and it is not the step that makes the MTS
\* know of them.
Grown(o) ==
    /\ Advanced(o)' => /\ Advanced(o) /\ op'[o].segs[0] = op[o].segs[0]
                       /\ op'[o].seq = op[o].seq
    /\ op[o].segs # <<>> =>
          /\ \A k \in DOMAIN op[o].segs :
                k \in DOMAIN op'[o].segs /\ op'[o].segs[k] = op[o].segs[k]
          /\ 0 \in DOMAIN op[o].segs /\ op'[o].seq = op[o].seq
          /\ op'[o].call = op[o].call \/ op'[o].call[3] > 0

\* What is new about the answers is right.
NewAnswers ==
    \A c \in Call : answer'[c] = {"result"} /\ answer[c] # {"result"} =>
        /\ ~ Surplus(c) => \E o \in OpId : Took(o, c)'
        /\ c[3] = Last(c[1]) => \E s \in shown' : s[2] = Whole(c[1])

LEMMA FrameKeeps ==
    ASSUME DeliveryInv, UaFrame
    PROVE  MtsOK' /\ AskedOK' /\ SeqOK' /\ \A m \in Msg : Known(m)' <=> Known(m)
<1>1. /\ UNCHANGED <<status, tries, mts, seqNo, seqOf, asked, outcome>>
      /\ MtsOK /\ AskedOK /\ SeqOK
  BY DEF UaFrame, mtsVars, DeliveryInv
<1>2. Current' = Current
  BY <1>1 DEF Current, Invocation
<1>3. MtsOK' /\ SeqOK'
  <2>1. MtsOK'
    BY ONLY <1>1, <1>2 DEF MtsOK
  <2> QED
    BY ONLY <1>1, <2>1 DEF SeqOK, Seq2
<1>4. \A m : Known(m)' <=> Known(m)
  BY <1>1 DEF Known
<1>5. AskedOK'
  BY <1>1, <1>2, <1>4 DEF AskedOK
<1> QED
  BY <1>3, <1>4, <1>5

LEMMA OtherKeeps ==
    ASSUME DeliveryInv, UaFrame, NEW o \in OpId, op'[o] = op[o]
    PROVE  PendingOK(o)' /\ SegsOK(o)' /\ Grown(o)
<1>1. /\ UNCHANGED <<tries, seqOf, outcome>> /\ Kept
      /\ PendingOK(o) /\ SegsOK(o) /\ Typed
  BY DEF UaFrame, mtsVars, DeliveryInv
<1>2. PendingOK(o)'
  <2>1. \A c : Seq2(c)' = Seq2(c) /\ (Dead(c)' <=> Dead(c))
    BY ONLY <1>1 DEF Seq2, Dead
  <2>2. op'[o] = op[o]
    OBVIOUS
  <2> QED
    BY ONLY <1>1, <2>1, <2>2 DEF PendingOK
<1>3. op[o].st = "s1" /\ op[o].call # <<>> => told'[op[o].call] = <<"result">>
  <2>1. op[o].call # <<>> => op[o].call \in Call
    BY <1>1, OpParts
  <2>2. op[o].st = "s1" /\ op[o].call # <<>> => told[op[o].call] = <<"result">>
    BY <1>1 DEF SegsOK
  <2>3. <<"result">> # <<>>
    OBVIOUS
  <2> QED
    BY <1>1, <2>1, <2>2, <2>3 DEF Kept
<1>4. SegsOK(o)'
  BY <1>1, <1>3 DEF SegsOK, Seq2, Surplus
<1>5. Grown(o)
  BY <1>1 DEF Grown, Advanced, SegsOK
<1> QED
  BY <1>2, <1>4, <1>5

LEMMA UaKeeps ==
    ASSUME DeliveryInv, UaFrame, UaTyped', shown \subseteq shown',
           \A o \in OpId : op'[o] = op[o] \/ (PendingOK(o)' /\ SegsOK(o)' /\ Grown(o)),
           Room', ActiveOK', HeldOnce', Confirmed', NewAnswers, ShownWhole', AckedFinal'
    PROVE  DeliveryInv'
<1>1. /\ UNCHANGED <<status, tries, mts, seqNo, seqOf, asked, outcome>>
      /\ Typed /\ Answers /\ OneAdvances /\ Kept
  BY DEF UaFrame, mtsVars, DeliveryInv
<1>2. \A o \in OpId : PendingOK(o)' /\ SegsOK(o)' /\ Grown(o)
  BY OtherKeeps
<1>3. Typed'
  BY <1>1 DEF Typed, UaTyped, UaFrame, ServiceTyped
<1>4. ASSUME NEW o \in OpId PROVE Begins(o)'
  <2>1. Begins(o) /\ Grown(o)
    BY <1>2 DEF DeliveryInv
  <2> QED
    BY <1>1, <2>1 DEF Begins, Grown, Seq2
<1>5. OneAdvances'
  BY <1>1, <1>2 DEF OneAdvances, Grown
<1>6. ASSUME NEW c \in Call, NEW o \in OpId, Took(o, c) PROVE Took(o, c)'
  <2>1. op[o].segs # <<>> /\ c[3] \in DOMAIN op[o].segs /\ op[o].segs[c[3]] = c[1]
    BY <1>6 DEF Took
  <2>2. Grown(o)
    BY <1>2
  <2>3. ~ Surplus(c) => op'[o].segs[0] = c[1] /\ op'[o].seq = Seq2(c)
    BY <1>6, <2>1, <2>2 DEF Took, Grown
  <2>4. op'[o].call = c \/ op'[o].call[3] > 0
    BY <1>6, <2>1, <2>2 DEF Took, Grown
  <2> QED
    BY <1>1, <2>1, <2>2, <2>3, <2>4 DEF Took, Grown, Seq2, Surplus
<1>7. Answers'
  <2> SUFFICES ASSUME NEW c \in Call, answer'[c] = {"result"}
               PROVE  /\ ~ Surplus(c) => \E o \in OpId : Took(o, c)'
                      /\ c[3] = Last(c[1]) => \E s \in shown' : s[2] = Whole(c[1])
    BY DEF Answers, Surplus
  <2>1. CASE answer[c] = {"result"}
    BY <1>1, <1>6, <2>1 DEF Answers
  <2>2. CASE answer[c] # {"result"}
    BY <2>2 DEF NewAnswers
  <2> QED
    BY <2>1, <2>2
<1>8. DeliveredHeld'
  BY <1>1 DEF DeliveryInv, DeliveredHeld
<1> QED
  BY <1>2, <1>3, <1>4, <1>5, <1>7, <1>8, FrameKeeps DEF DeliveryInv, UaFrame

\* An operation that a confirmation may wait for.
MayConfirm(o) ==
    \/ op[o].st = "free"
    \/ /\ op[o].st \in {"s2", "s4"} /\ op[o].call # <<>>
       /\ told[op[o].call] = <<"result">>

\* The queue of events, with its first one run and another one generated, if it
\* is no confirmation.
QueueStep ==
    \E base : /\ (tasks # <<>> /\ base = Tail(tasks)) \/ base = tasks
              /\ \/ tasks' = base
                 \/ \E o \in OpId : \E ev \in {"invoke", "errorCon", "failure"} :
                       tasks' = Append(base, <<o, ev>>)

LEMMA QueueTyped ==
    ASSUME Typed, QueueStep
    PROVE  /\ tasks' \in Seq(OpId \X {"invoke", "resultCon", "errorCon", "failure"})
           /\ \A i \in 1 .. Len(tasks') : tasks'[i][2] = "resultCon" =>
                 \/ i \in 1 .. Len(tasks) /\ tasks'[i] = tasks[i]
                 \/ i + 1 \in 2 .. Len(tasks) /\ tasks'[i] = tasks[i + 1]
           /\ \/ \A i \in 1 .. Len(tasks') : tasks'[i][2] = "resultCon" =>
                    i \in 1 .. Len(tasks) /\ tasks'[i] = tasks[i]
              \/ \A i \in 1 .. Len(tasks') : tasks'[i][2] = "resultCon" =>
                    i + 1 \in 2 .. Len(tasks) /\ tasks'[i] = tasks[i + 1]
<1> DEFINE E == OpId \X {"invoke", "resultCon", "errorCon", "failure"}
<1>0. tasks \in Seq(E) /\ Len(tasks) \in Nat
  BY DEF Typed
<1>1. PICK base : /\ (tasks # <<>> /\ base = Tail(tasks)) \/ base = tasks
                  /\ \/ tasks' = base
                     \/ \E o \in OpId : \E ev \in {"invoke", "errorCon", "failure"} :
                           tasks' = Append(base, <<o, ev>>)
  BY DEF QueueStep
<1>2. /\ base \in Seq(E) /\ Len(base) \in Nat
      /\ \/ \A i \in 1 .. Len(base) : i \in 1 .. Len(tasks) /\ base[i] = tasks[i]
         \/ \A i \in 1 .. Len(base) : i + 1 \in 2 .. Len(tasks) /\ base[i] = tasks[i + 1]
  <2>1. CASE tasks # <<>> /\ base = Tail(tasks)
    <3>1. base \in Seq(E) /\ Len(base) = Len(tasks) - 1 /\ Len(base) \in Nat
      BY <1>0, <2>1
    <3>2. \A i \in 1 .. Len(base) : i + 1 \in 2 .. Len(tasks) /\ base[i] = tasks[i + 1]
      BY <1>0, <2>1, <3>1
    <3> QED
      BY <3>1, <3>2
  <2>2. CASE base = tasks
    BY <1>0, <2>2
  <2> QED
    BY <1>1, <2>1, <2>2
<1>3. CASE tasks' = base
  BY <1>2, <1>3
<1>4. ASSUME NEW o \in OpId, NEW ev \in {"invoke", "errorCon", "failure"},
             tasks' = Append(base, <<o, ev>>)
      PROVE  /\ tasks' \in Seq(E)
             /\ \A i \in 1 .. Len(tasks') : tasks'[i][2] = "resultCon" =>
                   i \in 1 .. Len(base) /\ tasks'[i] = base[i]
  <2>1. <<o, ev>> \in E /\ <<o, ev>>[2] # "resultCon"
    OBVIOUS
  <2> DEFINE n == Len(base)
             e == <<o, ev>>
  <2>2. n \in Nat /\ base \in Seq(E) /\ n = Len(base) /\ e \in E /\ tasks' = Append(base, e)
    BY <1>2, <1>4, <2>1
  <2> HIDE DEF n, e
  <2>3. /\ Append(base, e) \in Seq(E) /\ Len(Append(base, e)) = n + 1
        /\ Append(base, e)[n + 1] = e
        /\ \A i \in 1 .. n : Append(base, e)[i] = base[i]
    BY <2>2, AppendFacts
  <2>4. e[2] # "resultCon"
    BY <2>1 DEF e
  <2>5. ASSUME NEW i \in 1 .. n + 1, tasks'[i][2] = "resultCon" PROVE i \in 1 .. n
    BY <2>2, <2>3, <2>4, <2>5
  <2> QED
    BY <2>2, <2>3, <2>5 DEF n
<1>5. CASE \E o \in OpId : \E ev \in {"invoke", "errorCon", "failure"} :
              tasks' = Append(base, <<o, ev>>)
  <2>1. /\ tasks' \in Seq(E)
        /\ \A i \in 1 .. Len(tasks') : tasks'[i][2] = "resultCon" =>
              i \in 1 .. Len(base) /\ tasks'[i] = base[i]
    BY <1>4, <1>5
  <2> QED
    BY <1>2, <2>1
<1> QED
  BY <1>1, <1>3, <1>5

\* A confirmation in the queue was there before.
LEMMA QueueKeeps ==
    ASSUME Typed, Confirmed, QueueStep,
           \A o \in OpId : \A i \in 1 .. Len(tasks) :
              /\ tasks[i] = <<o, "resultCon">>
              /\ i > 1 \/ (tasks' # <<>> /\ tasks'[1] = tasks[1])
              /\ MayConfirm(o)
              => MayConfirm(o)'
    PROVE  Confirmed'
<1>0. Len(tasks) \in Nat
  BY DEF Typed
<1>1. /\ tasks' \in Seq(OpId \X {"invoke", "resultCon", "errorCon", "failure"})
      /\ Len(tasks') \in Nat
      /\ \/ \A i \in 1 .. Len(tasks') : tasks'[i][2] = "resultCon" =>
               i \in 1 .. Len(tasks) /\ tasks'[i] = tasks[i]
         \/ \A i \in 1 .. Len(tasks') : tasks'[i][2] = "resultCon" =>
               i + 1 \in 2 .. Len(tasks) /\ tasks'[i] = tasks[i + 1]
  <2>1. tasks' \in Seq(OpId \X {"invoke", "resultCon", "errorCon", "failure"})
    BY QueueTyped
  <2>2. Len(tasks') \in Nat
    BY <2>1
  <2> QED
    BY <2>1, <2>2, QueueTyped
<1>2. ASSUME NEW i \in 1 .. Len(tasks'), NEW o \in OpId, tasks'[i] = <<o, "resultCon">>
      PROVE  MayConfirm(o)'
  <2>0. tasks'[i][2] = "resultCon"
    BY <1>2
  <2>1. PICK j \in 1 .. Len(tasks) :
           /\ tasks[j] = <<o, "resultCon">>
           /\ j > 1 \/ (tasks' # <<>> /\ tasks'[1] = tasks[1])
    <3>1. CASE i \in 1 .. Len(tasks) /\ tasks'[i] = tasks[i]
      <4>1. i = 1 => tasks' # <<>> /\ tasks'[1] = tasks[1]
        BY <1>1, <3>1
      <4> QED
        BY <1>2, <3>1, <4>1
    <3>2. CASE i + 1 \in 2 .. Len(tasks) /\ tasks'[i] = tasks[i + 1]
      <4>1. i + 1 \in 1 .. Len(tasks) /\ i + 1 > 1
        BY <1>0, <3>2
      <4> QED
        BY <1>2, <3>2, <4>1
    <3> QED
      BY <1>1, <2>0, <3>1, <3>2
  <2>2. MayConfirm(o)
    BY <2>1 DEF Confirmed, MayConfirm
  <2> QED
    BY <2>1, <2>2
<1>3. ASSUME NEW i \in 1 .. Len(tasks'), NEW j \in 1 .. Len(tasks'),
             tasks'[i] = tasks'[j], tasks'[i][2] = "resultCon"
      PROVE  i = j
  <2>1. CASE /\ i \in 1 .. Len(tasks) /\ tasks'[i] = tasks[i]
             /\ j \in 1 .. Len(tasks) /\ tasks'[j] = tasks[j]
    BY <1>3, <2>1 DEF Confirmed
  <2>2. CASE /\ i + 1 \in 2 .. Len(tasks) /\ tasks'[i] = tasks[i + 1]
             /\ j + 1 \in 2 .. Len(tasks) /\ tasks'[j] = tasks[j + 1]
    <3>1. i + 1 \in 1 .. Len(tasks) /\ j + 1 \in 1 .. Len(tasks)
      BY <1>0, <2>2
    <3>2. i + 1 = j + 1
      BY <1>3, <2>2, <3>1 DEF Confirmed
    <3> QED
      BY <3>2, <1>1
  <2>3. tasks'[j][2] = "resultCon"
    BY <1>3
  <2> QED
    BY <1>1, <1>3, <2>1, <2>2, <2>3
<1> QED
  BY <1>2, <1>3 DEF Confirmed, MayConfirm

\* Unlinking an operation.
LEMMA FreeUnlinks ==
    ASSUME Typed, ActiveOK, NEW o \in OpId, Free(o)
    PROVE  /\ active' \in Seq(OpId)
           /\ op[o].st \in Live
           /\ \A p \in OpId : (\E i \in 1 .. Len(active') : active'[i] = p) <=>
                  p # o /\ op[p].st \in Live
           /\ \A i, j \in 1 .. Len(active') : active'[i] = active'[j] => i = j
           /\ Len(active') <= Inbound
<1>1. PICK k \in 1 .. Len(active) :
          /\ active[k] = o
          /\ active' = SubSeq(active, 1, k - 1) \o SubSeq(active, k + 1, Len(active))
  BY DEF Free
<1>2. PICK n \in Nat : n = Len(active)
  BY DEF Typed
<1>3. active \in Seq(OpId) /\ k \in 1 .. n
  BY <1>1, <1>2 DEF Typed
<1>4. /\ active' \in Seq(OpId) /\ Len(active') = n - 1
      /\ \A i \in 1 .. n - 1 : active'[i] = active[IF i < k THEN i ELSE i + 1]
  <2> DEFINE a == SubSeq(active, 1, k - 1)
             b == SubSeq(active, k + 1, n)
  <2>1. a \in Seq(OpId) /\ Len(a) = k - 1 /\ \A i \in 1 .. k - 1 : a[i] = active[i]
    BY <1>2, <1>3
  <2>2. b \in Seq(OpId) /\ Len(b) = n - k /\ \A i \in 1 .. n - k : b[i] = active[k + i]
    BY <1>2, <1>3
  <2>3. active' = a \o b
    BY <1>1, <1>2
  <2> HIDE DEF a, b
  <2>4. active' \in Seq(OpId) /\ Len(active') = n - 1
    BY <1>2, <1>3, <2>1, <2>2, <2>3
  <2>5. ASSUME NEW i \in 1 .. n - 1 PROVE active'[i] = active[IF i < k THEN i ELSE i + 1]
    <3>1. CASE i < k
      BY <1>3, <2>1, <2>2, <2>3, <3>1
    <3>2. CASE i >= k
      <4>1. active'[i] = b[i - (k - 1)]
        BY <1>3, <2>1, <2>2, <2>3, <3>2
      <4>2. i - (k - 1) \in 1 .. n - k
        BY <1>3, <3>2
      <4> QED
        BY <1>3, <2>2, <3>2, <4>1, <4>2
    <3> QED
      BY <1>3, <3>1, <3>2
  <2> QED
    BY <2>4, <2>5
<1>5. \A i, j \in 1 .. n : active[i] = active[j] => i = j
  BY <1>2 DEF ActiveOK
<1>6. \A p \in OpId : op[p].st \in Live <=> \E i \in 1 .. n : active[i] = p
  BY <1>2 DEF ActiveOK
<1>7. op[o].st \in Live
  BY <1>1, <1>2, <1>6
<1>8. ASSUME NEW p \in OpId
      PROVE  (\E i \in 1 .. n - 1 : active'[i] = p) <=> p # o /\ op[p].st \in Live
  <2>1. ASSUME NEW i \in 1 .. n - 1, active'[i] = p PROVE p # o /\ op[p].st \in Live
    <3>1. PICK j \in 1 .. n : j # k /\ active[j] = p
      <4>1. CASE i < k
        BY <1>3, <1>4, <2>1, <4>1
      <4>2. CASE i >= k
        <5>1. i + 1 \in 1 .. n /\ i + 1 # k /\ active[i + 1] = p
          BY <1>3, <1>4, <2>1, <4>2
        <5> QED
          BY <5>1
      <4> QED
        BY <1>3, <4>1, <4>2
    <3> QED
      BY <1>1, <1>3, <1>5, <1>6, <3>1
  <2>2. ASSUME p # o, op[p].st \in Live PROVE \E i \in 1 .. n - 1 : active'[i] = p
    <3>1. PICK j \in 1 .. n : active[j] = p
      BY <1>6, <2>2
    <3>2. j # k
      BY <1>1, <2>2, <3>1
    <3>3. CASE j < k
      <4>1. j \in 1 .. n - 1
        BY <1>3, <3>3
      <4>2. active'[j] = active[j]
        BY <1>4, <3>3, <4>1
      <4> QED
        BY <3>1, <4>1, <4>2
    <3>4. CASE j > k
      <4>1. j - 1 \in 1 .. n - 1 /\ ~ (j - 1 < k) /\ (j - 1) + 1 = j
        BY <1>3, <3>4
      <4>2. active'[j - 1] = active[j]
        BY <1>4, <4>1
      <4> QED
        BY <3>1, <4>1, <4>2
    <3> QED
      BY <1>3, <3>2, <3>3, <3>4
  <2> QED
    BY <2>1, <2>2
<1>9. ASSUME NEW i \in 1 .. n - 1, NEW j \in 1 .. n - 1, active'[i] = active'[j]
      PROVE  i = j
  <2> DEFINE g(x) == IF x < k THEN x ELSE x + 1
  <2>1. g(i) \in 1 .. n /\ g(j) \in 1 .. n /\ active[g(i)] = active[g(j)]
    BY <1>3, <1>4, <1>9, SMTT(40)
  <2>2. g(i) = g(j)
    BY <1>5, <2>1
  <2> QED
    BY <1>3, <2>2
<1>10. Len(active') <= Inbound
  BY <1>2, <1>4, DeliveryAssumption DEF ActiveOK
<1> QED
  BY <1>4, <1>7, <1>8, <1>9, <1>10

\* The operations that are not allocated yet.
LEMMA RoomKeeps ==
    ASSUME DeliveryInv, Kept, ServiceTyped',
           \A o \in OpId : op'[o].st = "none" <=> op[o].st = "none"
    PROVE  Room'
<1> DEFINE R == {c \in Call : runs[c] = 1 /\ c[3] = 0}
           Q == {c \in Call : runs'[c] = 1 /\ c[3] = 0}
<1>1. Begun' = Begun
  BY DEF Begun
<1>2. Room /\ Typed /\ R \subseteq Q
  BY DEF DeliveryInv, Kept
<1>3. IsFiniteSet(Q) /\ IsFiniteSet(R)
  BY CallsFinite, FS_Subset
<1>4. Cardinality(R) <= Cardinality(Q)
  BY <1>2, <1>3, FS_Subset
<1>5. IsFiniteSet(Begun)
  BY OpIdFinite, FS_Subset DEF Begun
<1>6. Cardinality(Q) \in Nat /\ Cardinality(R) \in Nat /\ Cardinality(Begun) \in Nat
  BY <1>3, <1>5, FS_CardinalityType
<1>7. Cardinality(Begun) <= Cardinality(R)
  BY <1>2 DEF Room
<1> HIDE DEF R, Q
<1>8. Cardinality(Begun) <= Cardinality(Q)
  BY <1>4, <1>6, <1>7
<1> QED
  BY <1>1, <1>8 DEF Room, Q

\* What an operation holds after the step it held before.
LEMMA HeldKeeps ==
    ASSUME DeliveryInv, UaFrame,
           \A o \in OpId : op'[o] = op[o] \/ op'[o].pending = <<>> \/
              (op'[o].call = op[o].call /\ op'[o].pending = op[o].pending),
           \A o \in OpId : op'[o].call = op[o].call,
           \A c \in Call : runs[c] = 1 /\ answer[c] = {} =>
              answer'[c] = {} \/ \A o \in OpId : op[o].call = c \/ ~ Holds(o, c)
    PROVE  HeldOnce'
<1>0. HeldOnce /\ Typed /\ Kept
  BY DEF DeliveryInv, UaFrame
<1>1. ASSUME NEW o \in OpId
      PROVE  /\ op'[o].call = op[o].call
             /\ op'[o].pending = <<>> \/ op'[o].pending = op[o].pending
  OBVIOUS
<1>2. ASSUME NEW o \in OpId, NEW c \in Call, Holds(o, c)' PROVE Holds(o, c)
  BY <1>1, <1>2 DEF Holds
<1>3. ASSUME NEW o \in OpId, NEW i \in 1 .. Len(op'[o].pending)
      PROVE  /\ op'[o].pending = op[o].pending /\ i \in 1 .. Len(op[o].pending)
             /\ op[o].pending[i] \in Call /\ Holds(o, op[o].pending[i])
             /\ runs[op[o].pending[i]] = 1 /\ answer[op[o].pending[i]] = {}
             /\ op[o].pending[i] # op[o].call
  <2>1. op'[o].pending = op[o].pending
    BY <1>1, <1>3
  <2>2. op[o].pending[i] \in Call
    BY <1>0, <1>3, <2>1, OpParts
  <2>3. Holds(o, op[o].pending[i])
    BY <1>3, <2>1 DEF Holds
  <2> QED
    BY <1>0, <1>3, <2>1, <2>2, <2>3 DEF HeldOnce
<1>4. ASSUME NEW o \in OpId, NEW i \in 1 .. Len(op'[o].pending)
      PROVE  answer'[op'[o].pending[i]] = {}
  BY <1>3, <1>4
<1>5. \A o \in OpId : \A c \in Call : Holds(o, c)' => runs'[c] = 1
  BY <1>0, <1>2 DEF HeldOnce, Kept
<1>6. \A o, p \in OpId : \A c \in Call : Holds(o, c)' /\ Holds(p, c)' => o = p
  BY <1>0, <1>2 DEF HeldOnce
<1>7. ASSUME NEW o \in OpId, NEW i \in 1 .. Len(op'[o].pending)
      PROVE  /\ op'[o].pending[i] # op'[o].call
             /\ \A j \in 1 .. Len(op'[o].pending) : op'[o].pending[i] = op'[o].pending[j] => i = j
  BY <1>0, <1>1, <1>3, <1>7 DEF HeldOnce
<1> QED
  BY <1>4, <1>5, <1>6, <1>7 DEF HeldOnce

\* The record of an operation that is freed.
LEMMA ReleasedRec ==
    ASSUME Typed, NEW o \in OpId,
           NEW r, r = op[o] \/ r = [op[o] EXCEPT !.timer = FALSE], Release(o, r)
    PROVE  /\ Free(o)
           /\ op' \in [OpId -> OpRec] /\ \A p \in OpId \ {o} : op'[p] = op[p]
           /\ op'[o].st = "free" /\ op'[o].pending = <<>>
           /\ op'[o].call = op[o].call /\ op'[o].seq = op[o].seq
           /\ op'[o].last = op[o].last /\ op'[o].segs = op[o].segs
           /\ op'[o].complete = op[o].complete
           /\ op'[o].timer => op[o].timer
<1>1. op \in [OpId -> OpRec] /\ op[o] \in OpRec
  BY DEF Typed
<1>2. /\ r \in OpRec /\ r.call = op[o].call /\ r.seq = op[o].seq /\ r.last = op[o].last
      /\ r.segs = op[o].segs /\ r.complete = op[o].complete /\ (r.timer => op[o].timer)
  BY ONLY <1>1, r = op[o] \/ r = [op[o] EXCEPT !.timer = FALSE] DEF OpRec
<1>3. PICK q : q = [r EXCEPT !.st = "free", !.pending = <<>>]
  OBVIOUS
<1>4. <<>> \in Seq(Call)
  OBVIOUS
<1>5. /\ q \in OpRec /\ q.st = "free" /\ q.pending = <<>>
      /\ q.call = r.call /\ q.seq = r.seq /\ q.last = r.last /\ q.segs = r.segs
      /\ q.complete = r.complete /\ q.timer = r.timer
  BY ONLY <1>2, <1>3, <1>4 DEF OpRec
<1>6. op' = [op EXCEPT ![o] = q] /\ Free(o)
  BY <1>3 DEF Release
<1>7. op' \in [OpId -> OpRec] /\ op'[o] = q /\ \A p \in OpId \ {o} : op'[p] = op[p]
  BY <1>1, <1>5, <1>6
<1> QED
  BY <1>2, <1>5, <1>6, <1>7

\* A step that frees operation o.
LEMMA ReleaseKeeps ==
    ASSUME DeliveryInv, UaFrame, QueueStep, shown' = shown, acked' \subseteq Msg, AckedFinal',
           wild' \in BOOLEAN, faults' \in 0 .. MaxFaults,
           \A c \in Call : answer'[c] = answer[c] \/ (runs[c] = 0 /\ answer'[c] = {"error"}),
           NEW o \in OpId,
           NEW r, r = op[o] \/ r = [op[o] EXCEPT !.timer = FALSE], Release(o, r)
    PROVE  DeliveryInv'
<1>0. /\ Typed /\ Served /\ ActiveOK /\ Confirmed /\ HeldOnce /\ SegsOK(o) /\ PendingOK(o)
      /\ UNCHANGED <<tries, seqOf, outcome>> /\ Kept /\ ServiceTyped'
  BY DEF DeliveryInv, UaFrame, mtsVars
<1>1. /\ Free(o)
      /\ op' \in [OpId -> OpRec] /\ \A p \in OpId \ {o} : op'[p] = op[p]
      /\ op'[o].st = "free" /\ op'[o].pending = <<>>
      /\ op'[o].call = op[o].call /\ op'[o].seq = op[o].seq
      /\ op'[o].last = op[o].last /\ op'[o].segs = op[o].segs
      /\ op'[o].complete = op[o].complete
      /\ op'[o].timer => op[o].timer
  BY <1>0, ReleasedRec
<1>2. /\ active' \in Seq(OpId)
      /\ op[o].st \in Live
      /\ \A p \in OpId : (\E i \in 1 .. Len(active') : active'[i] = p) <=>
             p # o /\ op[p].st \in Live
      /\ \A i, j \in 1 .. Len(active') : active'[i] = active'[j] => i = j
      /\ Len(active') <= Inbound
  BY <1>0, <1>1, FreeUnlinks
<1>3. ActiveOK'
  BY <1>1, <1>2 DEF ActiveOK, Live
<1>4. Room'
  <2>1. op[o].st # "none"
    BY <1>2 DEF Live
  <2> QED
    BY <1>0, <1>1, <2>1, RoomKeeps
<1>5. HeldOnce'
  <2>1. \A c \in Call : answer'[c] = {} \/ runs[c] = 0 \/ answer[c] # {}
    OBVIOUS
  <2>2. \A p \in OpId : op'[p].call = op[p].call
    BY <1>1
  <2>3. \A p \in OpId : op'[p] = op[p] \/ op'[p].pending = <<>>
    BY <1>1
  <2>4. \A c \in Call : runs[c] = 1 /\ answer[c] = {} => answer'[c] = {}
    BY <2>1
  <2> QED
    BY <2>2, <2>3, <2>4, HeldKeeps
<1>6. Confirmed'
  <2>1. ASSUME NEW p \in OpId, MayConfirm(p) PROVE MayConfirm(p)'
    <3>1. CASE p = o
      BY <1>1, <3>1 DEF MayConfirm
    <3>2. CASE p # o
      <4>1. op'[p] = op[p]
        BY <1>1, <3>2
      <4>2. op[p].call # <<>> => op[p].call \in Call
        BY <1>0, OpParts
      <4>3. <<"result">> # <<>>
        OBVIOUS
      <4> QED
        BY <1>0, <2>1, <4>1, <4>2, <4>3 DEF MayConfirm, Kept
    <3> QED
      BY <3>1, <3>2
  <2> QED
    BY <1>0, <2>1, QueueKeeps
<1>7. PendingOK(o)'
  <2>1. Len(op'[o].pending) = 0
    BY <1>1
  <2> QED
    BY <1>0, <1>1, <1>2, <2>1 DEF PendingOK, Live, Dead, Surplus
<1>8. SegsOK(o)'
  <2>1. SegsOK(o) /\ tries' = tries /\ seqOf' = seqOf /\ \A c : Seq2(c)' = Seq2(c)
    BY ONLY <1>0 DEF Seq2
  <2> QED
    BY ONLY <1>1, <2>1 DEF SegsOK
<1>9. Grown(o)
  BY <1>0, <1>1 DEF Grown, Advanced, SegsOK
<1>10. NewAnswers
  <2>1. {"error"} # {"result"}
    OBVIOUS
  <2> QED
    BY <2>1 DEF NewAnswers
<1>11. UaTyped'
  BY <1>0, <1>1, <1>2, QueueTyped DEF UaTyped
<1>12. ShownWhole'
  BY DEF DeliveryInv, ShownWhole
<1>13. \A p \in OpId : op'[p] = op[p] \/ (PendingOK(p)' /\ SegsOK(p)' /\ Grown(p))
  BY <1>1, <1>7, <1>8, <1>9
<1> QED
  BY <1>3, <1>4, <1>5, <1>6, <1>10, <1>11, <1>12, <1>13, UaKeeps

LEMMA AckedKeeps ==
    ASSUME DeliveryInv, UaFrame, acked' = acked
    PROVE  AckedFinal' /\ acked' \subseteq Msg
BY DEF DeliveryInv, UaFrame, mtsVars, AckedFinal, Typed

\* A step that leaves the operations alone.
LEMMA StayKeeps ==
    ASSUME DeliveryInv, UaFrame, UNCHANGED <<active, op, shown, acked>>, Confirmed',
           tasks' \in Seq(OpId \X {"invoke", "resultCon", "errorCon", "failure"}),
           wild' \in BOOLEAN, faults' \in 0 .. MaxFaults,
           \A c \in Call : answer'[c] = answer[c] \/ (runs[c] = 0 /\ answer'[c] = {"error"})
    PROVE  DeliveryInv'
<1>0. /\ Typed /\ ActiveOK /\ UaTyped'
      /\ Kept /\ ServiceTyped'
  BY DEF DeliveryInv, UaFrame, Typed, UaTyped
<1>1. Room'
  BY <1>0, RoomKeeps
<1>2. HeldOnce'
  <2>1. \A c \in Call : runs[c] = 1 /\ answer[c] = {} => answer'[c] = {}
    OBVIOUS
  <2>2. \A o \in OpId : op'[o] = op[o]
    OBVIOUS
  <2> QED
    BY <2>1, <2>2, HeldKeeps
<1>3. NewAnswers
  <2>1. {"error"} # {"result"}
    OBVIOUS
  <2> QED
    BY <2>1 DEF NewAnswers
<1>4. ActiveOK' /\ ShownWhole'
  BY DEF DeliveryInv, ActiveOK, ShownWhole
<1>5. \A o \in OpId : op'[o] = op[o]
  OBVIOUS
<1> QED
  BY <1>0, <1>1, <1>2, <1>3, <1>4, <1>5, AckedKeeps, UaKeeps

\* The queue of events alone.
LEMMA StayConfirmed ==
    ASSUME DeliveryInv, UaFrame, QueueStep, op' = op
    PROVE  Confirmed'
<1>0. Typed /\ Confirmed /\ Kept
  BY DEF DeliveryInv, UaFrame
<1>1. ASSUME NEW o \in OpId, MayConfirm(o) PROVE MayConfirm(o)'
  <2>1. op[o].call # <<>> => op[o].call \in Call
    BY <1>0, OpParts
  <2>2. <<"result">> # <<>>
    OBVIOUS
  <2> QED
    BY <1>0, <1>1, <2>1, <2>2 DEF MayConfirm, Kept
<1> QED
  BY <1>0, <1>1, QueueKeeps

LEMMA QueueSame == tasks' = tasks => QueueStep
BY DEF QueueStep

LEMMA QueueTail == tasks # <<>> /\ tasks' = Tail(tasks) => QueueStep
BY DEF QueueStep

LEMMA FrameStays ==
    ASSUME DeliveryInv, UNCHANGED <<mtsVars, esroVars>>
    PROVE  UaFrame
<1>1. Typed /\ Served /\ UNCHANGED <<asked, runs, answer, outcome, told, mtsVars>>
  BY DEF DeliveryInv, esroVars
<1>2. ServiceTyped' /\ Kept
  BY <1>1 DEF Typed, ServiceTyped, Kept
<1>3. Served'
  BY <1>1 DEF Served
<1> QED
  BY <1>1, <1>2, <1>3 DEF UaFrame

\* The operation for an invocation, if there is one.
LEMMA OperationIs ==
    ASSUME DeliveryInv, NEW c \in Call, runs[c] = 0, OperationFor(c) # 0
    PROVE  LET o == OperationFor(c)
           IN  /\ o \in OpId
               /\ c[3] = 0 => op[o].st = "none" /\ Len(active) < Inbound
               /\ c[3] > 0 => op[o].st \in Live /\ op[o].seq = Seq2(c)
<1>0. Typed /\ ActiveOK /\ Room /\ c[3] \in Nat
  BY CallParts DEF DeliveryInv
<1>1. CASE c[3] = 0
  <2>1. Fresh \in OpId /\ op[Fresh].st = "none"
    BY <1>0, <1>1, FreshLeft
  <2>2. Len(active) # Inbound /\ OperationFor(c) = Fresh
    BY <1>1 DEF OperationFor, Fresh
  <2>3. Len(active) < Inbound
    BY <1>0, <2>2, DeliveryAssumption DEF ActiveOK, Typed
  <2> QED
    BY <1>1, <2>1, <2>2, <2>3
<1>2. CASE c[3] > 0
  <2>1. OperationFor(c) = findOperationBySequenceId(Seq2(c))
    BY <1>2 DEF OperationFor, Seq2
  <2>2. OperationFor(c) \in {p \in OpId : op[p].seq = Seq2(c) /\ \E i \in 1 .. Len(active) : active[i] = p}
    BY <1>0, <2>1, FoundBySequenceId
  <2> QED
    BY <1>0, <1>2, <2>2 DEF ActiveOK
<1> QED
  BY <1>0, <1>1, <1>2

\* An operation is allocated for a first segment.
LEMMA AllocatedKeeps ==
    ASSUME DeliveryInv, NEW c \in Call, c[3] = 0, runs[c] = 0,
           runs' = [runs EXCEPT ![c] = 1],
           NEW o \in OpId, op[o].st = "none", op'[o].st \in Live,
           \A p \in OpId \ {o} : op'[p] = op[p],
           Len(active) < Inbound, active' = Append(active, o)
    PROVE  ActiveOK' /\ active' \in Seq(OpId) /\ Room'
<1>0. Typed /\ ActiveOK /\ Room
  BY DEF DeliveryInv
<1>1. ActiveOK' /\ active' \in Seq(OpId)
  <2> DEFINE k == Len(active)
  <2>0. active \in Seq(OpId) /\ k = Len(active) /\ k < Inbound
    BY <1>0 DEF Typed
  <2> HIDE DEF k
  <2>1. /\ k \in Nat /\ active' \in Seq(OpId) /\ Len(active') = k + 1 /\ active'[k + 1] = o
        /\ \A i \in 1 .. k : active'[i] = active[i]
    BY <2>0, AppendFacts
  <2>2. \A i \in 1 .. k : active[i] # o
    BY <1>0, <2>0 DEF ActiveOK, Live
  <2>3. \A p \in OpId : op'[p].st \in Live <=> p = o \/ op[p].st \in Live
    OBVIOUS
  <2>4. \A p \in OpId : op[p].st \in Live <=> \E i \in 1 .. k : active[i] = p
    BY <1>0, <2>0 DEF ActiveOK
  <2>5. \A i \in 1 .. k + 1 : i \in 1 .. k \/ i = k + 1
    BY <2>1
  <2>6. k + 1 \in 1 .. k + 1 /\ \A i \in 1 .. k : i \in 1 .. k + 1
    BY <2>1
  <2>7. \A p \in OpId : op'[p].st \in Live <=> \E i \in 1 .. Len(active') : active'[i] = p
    BY <2>1, <2>3, <2>4, <2>5, <2>6
  <2>8. \A i, j \in 1 .. k : active[i] = active[j] => i = j
    BY <1>0, <2>0 DEF ActiveOK
  <2>9. \A i, j \in 1 .. Len(active') : active'[i] = active'[j] => i = j
    BY <2>1, <2>2, <2>5, <2>8
  <2>10. Len(active') <= Inbound
    BY <2>0, <2>1, DeliveryAssumption
  <2> QED
    BY <2>1, <2>7, <2>9, <2>10 DEF ActiveOK
<1>2. Room'
  <2> DEFINE R == {d \in Call : runs[d] = 1 /\ d[3] = 0}
             Q == {d \in Call : runs'[d] = 1 /\ d[3] = 0}
  <2>1. Q = R \cup {c} /\ c \notin R
    BY <1>0 DEF Typed
  <2>2. Begun' = Begun \cup {o} /\ o \notin Begun
    BY DEF Begun, Live
  <2>3. IsFiniteSet(R) /\ IsFiniteSet(Begun)
    BY CallsFinite, OpIdFinite, FS_Subset DEF Begun
  <2>4. Cardinality(Begun) <= Cardinality(R)
    BY <1>0 DEF Room
  <2> HIDE DEF R, Q
  <2>5. Cardinality(R) \in Nat /\ Cardinality(Begun) \in Nat
    BY <2>3, FS_CardinalityType
  <2>6. Cardinality(R \cup {c}) = Cardinality(R) + 1
    BY <2>1, <2>3, FS_AddElement
  <2>7. Cardinality(Begun \cup {o}) = Cardinality(Begun) + 1
    BY <2>2, <2>3, FS_AddElement
  <2>8. Cardinality(Begun') <= Cardinality(Q)
    BY <2>1, <2>2, <2>4, <2>5, <2>6, <2>7
  <2> QED
    BY <2>8 DEF Room, Q
<1> QED
  BY <1>1, <1>2

\* A new operation is left to the loss of the pool.
LEMMA LeakedKeeps ==
    ASSUME DeliveryInv, UaFrame, NEW c \in Call, runs[c] = 0, runs' = [runs EXCEPT ![c] = 1],
           \A d \in Call : answer'[d] = answer[d] \/ (runs[d] = 0 /\ answer'[d] = {"error"}),
           UNCHANGED <<tasks, shown, acked, wild>>, faults' \in 0 .. MaxFaults,
           NEW o, o = OperationFor(c), o # 0, op[o].st = "none",
           op' = [op EXCEPT ![o].st = "leaked"], active' = Append(active, o)
    PROVE  DeliveryInv'
<1>0. Typed /\ Kept /\ ServiceTyped'
  BY DEF DeliveryInv, UaFrame
<1>1. o \in OpId /\ c[3] = 0 /\ Len(active) < Inbound
  <2>1. o \in OpId /\ (c[3] = 0 => Len(active) < Inbound) /\ (c[3] > 0 => op[o].st \in Live)
    BY OperationIs
  <2>2. c[3] \in Nat
    BY CallParts
  <2> QED
    BY <2>1, <2>2 DEF Live
<1>2. PendingOK(o) /\ op[o] = NoOp
  BY <1>1 DEF DeliveryInv, PendingOK
<1>3. PICK q : q = [NoOp EXCEPT !.st = "leaked"]
  OBVIOUS
<1>4. /\ q.st = "leaked" /\ q.call = <<>> /\ q.pending = <<>> /\ q.seq = 0 /\ q.last = 0
      /\ q.segs = <<>> /\ ~ q.complete /\ ~ q.timer
  BY ONLY <1>3 DEF NoOp
<1>5. q \in OpRec
  <2>1. op[o] \in OpRec
    BY <1>0, <1>1 DEF Typed
  <2> QED
    BY ONLY <1>2, <1>3, <2>1 DEF OpRec
<1>6. op' = [op EXCEPT ![o] = q] /\ op \in [OpId -> OpRec]
  BY <1>0, <1>1, <1>2, <1>3 DEF Typed
<1>7. /\ op'[o] = q /\ op' \in [OpId -> OpRec]
      /\ \A p \in OpId \ {o} : op'[p] = op[p]
  BY ONLY <1>1, <1>5, <1>6
<1>8. ActiveOK' /\ active' \in Seq(OpId) /\ Room'
  <2>1. op'[o].st \in Live
    BY <1>4, <1>7 DEF Live
  <2> QED
    BY <1>1, <1>7, <2>1, AllocatedKeeps
<1>9. HeldOnce'
  <2>1. \A p \in OpId : op'[p] = op[p] \/ op'[p].pending = <<>>
    BY <1>4, <1>7
  <2>2. \A p \in OpId : op'[p].call = op[p].call
    BY <1>2, <1>4, <1>7 DEF NoOp
  <2>3. \A d \in Call : runs[d] = 1 /\ answer[d] = {} => answer'[d] = {}
    OBVIOUS
  <2> QED
    BY <2>1, <2>2, <2>3, HeldKeeps
<1>10. Confirmed'
  <2>1. ASSUME NEW p \in OpId, MayConfirm(p) PROVE MayConfirm(p)'
    <3>1. p # o
      BY <1>2, <2>1 DEF MayConfirm, NoOp
    <3>2. op'[p] = op[p]
      BY <1>7, <3>1
    <3>3. op[p].call # <<>> => op[p].call \in Call
      BY <1>0, OpParts
    <3>4. <<"result">> # <<>>
      OBVIOUS
    <3> QED
      BY <1>0, <2>1, <3>2, <3>3, <3>4 DEF MayConfirm, Kept
  <2> QED
    BY <1>0, <2>1, QueueSame, QueueKeeps DEF DeliveryInv
<1>11. PendingOK(o)'
  <2>1. Len(q.pending) = 0
    BY <1>4
  <2> QED
    BY ONLY <1>4, <1>7, <2>1 DEF PendingOK
<1>12. SegsOK(o)' /\ Grown(o)
  <2>1. SegsOK(o)'
    BY ONLY <1>4, <1>7 DEF SegsOK
  <2>2. op[o].segs = <<>> /\ op'[o].segs = <<>>
    BY <1>2, <1>4, <1>7 DEF NoOp
  <2>3. Grown(o)
    BY ONLY <2>2 DEF Grown, Advanced
  <2> QED
    BY <2>1, <2>3
<1>13. NewAnswers
  <2>1. {"error"} # {"result"}
    OBVIOUS
  <2> QED
    BY <2>1 DEF NewAnswers
<1>14. UaTyped'
  BY <1>0, <1>7, <1>8 DEF UaTyped, Typed
<1>15. ShownWhole' /\ AckedFinal'
  BY AckedKeeps DEF DeliveryInv, ShownWhole
<1>16. \A p \in OpId : op'[p] = op[p] \/ (PendingOK(p)' /\ SegsOK(p)' /\ Grown(p))
  BY <1>7, <1>11, <1>12
<1> QED
  BY <1>8, <1>9, <1>10, <1>13, <1>14, <1>15, <1>16, UaKeeps

LEMMA RefusedKeeps ==
    ASSUME DeliveryInv, NEW c \in Call, ua_invokeRefused(c)
    PROVE  DeliveryInv'
<1>o. PICK o : o = OperationFor(c)
  OBVIOUS
<1>1. /\ D!PerformAndAnswer(c, "error")
      /\ UNCHANGED <<mtsVars, tasks, shown, acked, wild>>
      /\ faults' = faults \/ (faults < MaxFaults /\ faults' = faults + 1)
      /\ \/ UNCHANGED <<active, op>>
         \/ o # 0 /\ op[o].st # "none" /\ Release(o, op[o])
         \/ /\ o # 0 /\ op[o].st = "none"
            /\ op' = [op EXCEPT ![o].st = "leaked"]
            /\ active' = Append(active, o)
  BY <1>o DEF ua_invokeRefused, Fault, NoFault
<1>2. /\ Typed /\ ServiceTyped /\ Served
      /\ runs[c] = 0 /\ runs' = [runs EXCEPT ![c] = 1]
      /\ answer' = [answer EXCEPT ![c] = {"error"}]
      /\ UNCHANGED <<asked, outcome, told>>
  BY <1>1 DEF DeliveryInv, Typed, ServiceTyped, D!PerformAndAnswer
<1>3. UaFrame
  BY <1>1, <1>2, PerformerStep DEF UaFrame
<1>4. QueueStep /\ wild' \in BOOLEAN /\ faults' \in 0 .. MaxFaults
  BY <1>1, <1>2, QueueSame, DeliveryAssumption DEF Typed
<1>5. \A d \in Call : answer'[d] = answer[d] \/ (runs[d] = 0 /\ answer'[d] = {"error"})
  BY <1>2 DEF Typed
<1>6. CASE UNCHANGED <<active, op>>
  BY <1>1, <1>2, <1>3, <1>4, <1>5, <1>6, StayConfirmed, StayKeeps DEF Typed
<1>7. CASE o # 0 /\ op[o].st # "none" /\ Release(o, op[o])
  <2>1. o \in OpId
    BY <1>o, <1>2, <1>7, OperationIs
  <2> QED
    BY <1>1, <1>3, <1>4, <1>5, <1>7, <2>1, AckedKeeps, ReleaseKeeps
<1>8. CASE /\ o # 0 /\ op[o].st = "none"
           /\ op' = [op EXCEPT ![o].st = "leaked"] /\ active' = Append(active, o)
  BY <1>o, <1>1, <1>2, <1>3, <1>4, <1>5, <1>8, LeakedKeeps
<1> QED
  BY <1>1, <1>6, <1>7, <1>8

\* A step that uses memory that was freed, or was never set, changes nothing
\* else that is modelled.
LEMMA WildKeeps ==
    ASSUME DeliveryInv, wild' \in BOOLEAN, faults' \in 0 .. MaxFaults,
           UNCHANGED <<mtsVars, esroVars, active, op, tasks, shown, acked>>
    PROVE  DeliveryInv'
<1>1. UaFrame
  BY FrameStays
<1>2. QueueStep
  BY QueueSame
<1>3. Confirmed'
  BY <1>1, <1>2, StayConfirmed
<1>4. tasks' \in Seq(OpId \X {"invoke", "resultCon", "errorCon", "failure"})
  BY DEF DeliveryInv, Typed
<1>5. \A c \in Call : answer'[c] = answer[c]
  BY DEF esroVars
<1>6. UNCHANGED <<active, op, shown, acked>>
  OBVIOUS
<1> QED
  BY <1>1, <1>3, <1>4, <1>5, <1>6, StayKeeps

\* The first event of the queue.
LEMMA FirstTask ==
    ASSUME Typed, NEW o, NEW st, NEW ev, Task(o, st, ev)
    PROVE  /\ tasks # <<>> /\ 1 \in 1 .. Len(tasks) /\ tasks[1] = <<o, ev>>
           /\ op[o].st = st /\ UNCHANGED <<mtsVars, wild>>
<1>1. /\ tasks # <<>> /\ Head(tasks) = <<o, ev>> /\ op[o].st = st
      /\ UNCHANGED <<mtsVars, wild>>
  BY DEF Task
<1>2. tasks \in Seq(OpId \X {"invoke", "resultCon", "errorCon", "failure"})
  BY DEF Typed
<1>3. 1 \in 1 .. Len(tasks) /\ tasks[1] = Head(tasks)
  BY <1>1, <1>2
<1> QED
  BY <1>1, <1>3

\* The MTS knows that a message in segments is delivered when its last segment
\* is confirmed.
LEMMA ConfirmedLast ==
    ASSUME DeliveryInv, NEW o \in OpId, op[o].st = "s2", op[o].complete,
           op[o].call # <<>>, told[op[o].call] = <<"result">>
    PROVE  op[o].segs[0] \in Msg /\ (Last(op[o].segs[0]) > 0 => Known(op[o].segs[0]))
<1> DEFINE c == op[o].call
           m == op[o].segs[0]
<1>0. Typed /\ Served /\ AskedOK /\ SeqOK /\ PendingOK(o) /\ SegsOK(o)
  BY DEF DeliveryInv
<1>1. c \in Call /\ Holds(o, c)
  BY <1>0, OpParts DEF Holds
<1>2. c \in asked /\ outcome[c] = Outcome(c, "result")
  BY <1>0, <1>1, HeldAsked DEF Served
<1>3. /\ op[o].segs # <<>> /\ DOMAIN op[o].segs = 0 .. op[o].last
      /\ 0 \in DOMAIN op[o].segs /\ op[o].last = Last(m)
      /\ c[3] \in DOMAIN op[o].segs /\ \A k \in DOMAIN op[o].segs : k <= c[3]
      /\ ~ Surplus(c) => m = c[1]
      /\ \E t \in 1 .. MaxTries : t <= tries[m] /\ op[o].seq = seqOf[m][t]
  BY <1>0 DEF SegsOK
<1>4. m \in Msg /\ Last(m) \in Nat /\ c[3] \in Nat
  BY <1>0, <1>1, <1>3, OpParts, LastNat, CallParts
<1>5. c[3] = Last(m)
  BY <1>3, <1>4
<1>6. ASSUME Last(m) > 0 PROVE Known(m)
  <2>1. op[o].seq > 0
    <3>1. PICK t \in 1 .. MaxTries : t <= tries[m] /\ op[o].seq = seqOf[m][t]
      BY <1>3
    <3> QED
      BY <1>0, <1>4, <1>6, <3>1 DEF SeqOK
  <2>2. ~ Surplus(c)
    <3>1. Surplus(c) => Dead(c)
      BY <1>0, <2>1 DEF PendingOK
    <3> QED
      BY <1>2, <3>1 DEF Dead
  <2>3. c[1] = m /\ c[3] = Last(c[1]) /\ Last(c[1]) > 0
    BY <1>3, <1>5, <1>6, <2>2
  <2> QED
    BY <1>0, <1>2, <2>3 DEF AskedOK
<1> QED
  BY <1>4, <1>6

\* The transitions that free the operation.
LEMMA FreeingKeeps ==
    ASSUME DeliveryInv, NEW o \in OpId,
           \/ aS2S1a(o) \/ aS2S1e(o) \/ aS2S1d(o) \/ aS4S1a(o) \/ aUnexpectedEvent(o)
           \/ segmentationTimerExpired(o) /\ op[o].st # "free"
    PROVE  DeliveryInv'
<1>0. Typed /\ Confirmed /\ SegsOK(o)
  BY DEF DeliveryInv
<1>1. ASSUME NEW r, r = op[o] \/ r = [op[o] EXCEPT !.timer = FALSE], Release(o, r),
             QueueStep, UNCHANGED <<mtsVars, wild, esroVars, shown, faults>>,
             AckedFinal', acked' \subseteq Msg
      PROVE  DeliveryInv'
  <2>1. UaFrame
    BY <1>1, FrameStays
  <2>2. wild' \in BOOLEAN /\ faults' \in 0 .. MaxFaults
    BY <1>0, <1>1 DEF Typed
  <2>3. \A c \in Call : answer'[c] = answer[c]
    BY <1>1 DEF esroVars
  <2>4. shown' = shown
    BY <1>1
  <2> QED
    BY <1>1, <2>1, <2>2, <2>3, <2>4, ReleaseKeeps
<1>2. ASSUME Release(o, op[o]), tasks # <<>>, tasks' = Tail(tasks),
             UNCHANGED <<mtsVars, wild, esroVars, shown, acked, faults>>
      PROVE  DeliveryInv'
  <2>1. UaFrame
    BY <1>2, FrameStays
  <2> QED
    BY <1>1, <1>2, <2>1, AckedKeeps, QueueTail
<1>3. CASE aS2S1a(o)
  <2>1. /\ Task(o, "s2", "resultCon") /\ op[o].complete
        /\ acked' = acked \cup {op[o].segs[0]}
        /\ Release(o, op[o]) /\ tasks' = Tail(tasks)
        /\ UNCHANGED <<esroVars, shown, faults>>
    BY <1>3 DEF aS2S1a
  <2>2. /\ tasks # <<>> /\ 1 \in 1 .. Len(tasks) /\ tasks[1] = <<o, "resultCon">>
        /\ op[o].st = "s2" /\ UNCHANGED <<mtsVars, wild>>
    BY <1>0, <2>1, FirstTask
  <2>3. op[o].call # <<>> /\ told[op[o].call] = <<"result">>
    BY <1>0, <2>2 DEF Confirmed
  <2>4. op[o].segs[0] \in Msg /\ (Last(op[o].segs[0]) > 0 => Known(op[o].segs[0]))
    BY <2>1, <2>2, <2>3, ConfirmedLast
  <2>5. UNCHANGED <<mts, status>>
    BY <2>2 DEF mtsVars
  <2>6. AckedFinal'
    BY <2>1, <2>4, <2>5 DEF DeliveryInv, AckedFinal, Known
  <2>7. acked' \subseteq Msg
    BY <1>0, <2>1, <2>4 DEF Typed
  <2> QED
    BY <1>1, <2>1, <2>2, <2>6, <2>7, QueueTail
<1>4. CASE aS2S1e(o)
  <2>1. Task(o, "s2", "failure")
    BY <1>4 DEF aS2S1e
  <2> QED
    BY <1>0, <1>2, <1>4, <2>1, FirstTask DEF aS2S1e
<1>5. CASE aS2S1d(o)
  <2>1. Task(o, "s2", "failure") /\ op[o].complete
    BY <1>5 DEF aS2S1d
  <2>2. ~ op[o].timer
    BY <1>0, <2>1 DEF SegsOK
  <2> QED
    BY <1>0, <1>2, <1>5, <2>1, <2>2, FirstTask DEF aS2S1d
<1>6. CASE aS4S1a(o)
  <2>1. Task(o, "s4", "errorCon") \/ Task(o, "s4", "failure")
    BY <1>6 DEF aS4S1a
  <2> QED
    BY <1>0, <1>2, <1>6, <2>1, FirstTask DEF aS4S1a
<1>7. CASE aUnexpectedEvent(o)
  <2>1. PICK st, ev : Task(o, st, ev)
    BY <1>7 DEF aUnexpectedEvent
  <2> QED
    BY <1>0, <1>2, <1>7, <2>1, FirstTask DEF aUnexpectedEvent
<1>8. CASE segmentationTimerExpired(o) /\ op[o].st # "free"
  <2>1. /\ Release(o, [op[o] EXCEPT !.timer = FALSE])
        /\ UNCHANGED <<wild, esroVars, mtsVars, tasks, shown, acked, faults>>
    BY <1>8 DEF segmentationTimerExpired
  <2>2. UaFrame
    BY <2>1, FrameStays
  <2> QED
    BY <1>1, <2>1, <2>2, AckedKeeps, QueueSame
<1> QED
  BY <1>3, <1>4, <1>5, <1>6, <1>7, <1>8

\* The transitions that leave the operations alone.
LEMMA IdleKeeps ==
    ASSUME DeliveryInv, NEW o \in OpId,
           \/ aS2S2a(o) \/ RunFreed(o)
           \/ segmentationTimerExpired(o) /\ op[o].st = "free"
    PROVE  DeliveryInv'
<1>0. Typed
  BY DEF DeliveryInv
<1>1. ASSUME QueueStep, UNCHANGED <<mtsVars, esroVars, op, active, shown, acked, faults>>,
             wild' \in BOOLEAN
      PROVE  DeliveryInv'
  <2>1. UaFrame
    BY <1>1, FrameStays
  <2>2. faults' \in 0 .. MaxFaults
    BY <1>0, <1>1 DEF Typed
  <2>3. \A c \in Call : answer'[c] = answer[c]
    BY <1>1 DEF esroVars
  <2>4. UNCHANGED <<active, op, shown, acked>>
    BY <1>1
  <2>5. Confirmed'
    BY <1>1, <2>1, StayConfirmed
  <2> QED
    BY <1>0, <1>1, <2>1, <2>2, <2>3, <2>4, <2>5, QueueTyped, StayKeeps
<1>2. CASE aS2S2a(o)
  <2>1. Task(o, "s2", "invoke") /\ tasks' = Tail(tasks)
    BY <1>2 DEF aS2S2a
  <2>2. tasks # <<>> /\ UNCHANGED <<mtsVars, wild>>
    BY <1>0, <2>1, FirstTask
  <2>3. wild' \in BOOLEAN
    BY <1>0, <2>2 DEF Typed
  <2> QED
    BY <1>1, <1>2, <2>1, <2>2, <2>3, QueueTail DEF aS2S2a
<1>3. CASE RunFreed(o)
  BY <1>1, <1>3, QueueSame DEF RunFreed
<1>4. CASE segmentationTimerExpired(o) /\ op[o].st = "free"
  BY <1>1, <1>4, QueueSame DEF segmentationTimerExpired
<1> QED
  BY <1>2, <1>3, <1>4

LEMMA ConfirmKeeps ==
    ASSUME DeliveryInv, NEW c \in Call, ua_confirm(c)
    PROVE  DeliveryInv'
<1> DEFINE o == findOperationByInvokeId(c)
           E == OpId \X {"invoke", "resultCon", "errorCon", "failure"}
<1>0. Typed /\ Served /\ ServiceTyped /\ Confirmed /\ ActiveOK
  BY DEF DeliveryInv, Typed, ServiceTyped
<1>1. PICK kind \in {"result", "error", "failure"} :
         /\ D!Tell(c, kind)
         /\ FSM_generateEvent(o, CASE kind = "result" -> "resultCon"
                                   [] kind = "error" -> "errorCon"
                                   [] OTHER -> "failure")
  BY DEF ua_confirm
<1>2. UNCHANGED <<mtsVars, active, op, shown, acked, wild, faults>>
  BY DEF ua_confirm
<1>3. /\ told[c] = <<>> /\ told' = [told EXCEPT ![c] = <<kind>>]
      /\ UNCHANGED <<asked, runs, answer, outcome>>
  BY <1>1 DEF D!Tell
<1>4. UaFrame
  BY <1>0, <1>1, <1>2, <1>3, PerformerStep DEF UaFrame
<1>5. wild' \in BOOLEAN /\ faults' \in 0 .. MaxFaults
  BY <1>0, <1>2 DEF Typed
<1>6. o = 0 \/ (o \in OpId /\ op[o].call = c /\ op[o].st \in Live)
  <2>1. o = 0 \/ o \in {p \in OpId : op[p].call = c /\ \E i \in 1 .. Len(active) : active[i] = p}
    BY <1>0, FoundByInvokeId
  <2> HIDE DEF o
  <2> QED
    BY <1>0, <2>1 DEF ActiveOK
<1> HIDE DEF o
<1>7. CASE o = 0
  <2>1. QueueStep
    BY <1>1, <1>7, QueueSame DEF FSM_generateEvent
  <2> QED
    BY <1>0, <1>2, <1>3, <1>4, <1>5, <2>1, QueueTyped, StayConfirmed, StayKeeps
<1>8. CASE o # 0 /\ kind # "result"
  <2>1. PICK ev \in {"invoke", "errorCon", "failure"} : tasks' = Append(tasks, <<o, ev>>)
    BY <1>1, <1>8 DEF FSM_generateEvent
  <2>2. QueueStep
    BY <1>6, <1>8, <2>1 DEF QueueStep
  <2> QED
    BY <1>0, <1>2, <1>3, <1>4, <1>5, <2>2, QueueTyped, StayConfirmed, StayKeeps
<1>9. CASE o # 0 /\ kind = "result"
  <2>1. o \in OpId /\ op[o].call = c /\ op[o].st \in Live
    BY <1>6, <1>9
  <2>2. tasks' = Append(tasks, <<o, "resultCon">>)
    BY <1>1, <1>9 DEF FSM_generateEvent
  <2> DEFINE e == <<o, "resultCon">>
             n == Len(tasks)
  <2>3. e \in E /\ tasks \in Seq(E) /\ n = Len(tasks)
    BY <1>0, <2>1 DEF Typed
  <2> HIDE DEF e, n
  <2>4. tasks' = Append(tasks, e)
    BY <2>2 DEF e
  <2>5. /\ n \in Nat /\ tasks' \in Seq(E) /\ Len(tasks') = n + 1 /\ tasks'[n + 1] = e
        /\ \A i \in 1 .. n : tasks'[i] = tasks[i]
    BY <2>3, <2>4, AppendFacts
  <2>6. told'[c] = <<"result">> /\ <<"result">> # <<>> /\ c # <<>>
    BY <1>0, <1>3, <1>9, CallParts DEF Typed
  <2>7. op[o].st \in {"s2", "s4"}
    <3>1. SegsOK(o) /\ PendingOK(o)
      BY <2>1 DEF DeliveryInv
    <3>2. op[o].st # "s1"
      BY <1>3, <2>1, <2>6, <3>1 DEF SegsOK
    <3>3. op[o].st # "leaked"
      BY <2>1, <2>6, <3>1 DEF PendingOK
    <3> QED
      BY <2>1, <3>2, <3>3 DEF Live
  <2>8. \A i \in 1 .. n : tasks[i] # e
    <3> SUFFICES ASSUME NEW i \in 1 .. n, tasks[i] = e PROVE FALSE
      OBVIOUS
    <3>1. tasks[i] = <<o, "resultCon">> /\ i \in 1 .. Len(tasks)
      BY <2>3 DEF e
    <3>2. op[o].st = "free" \/ told[op[o].call] = <<"result">>
      BY <1>0, <2>1, <3>1 DEF Confirmed
    <3> QED
      BY <1>3, <2>1, <2>6, <2>7, <3>2
  <2>9. Confirmed'
    <3>1. ASSUME NEW i \in 1 .. Len(tasks'), NEW p \in OpId, tasks'[i] = <<p, "resultCon">>
          PROVE  MayConfirm(p)'
      <4>1. CASE i = n + 1
        <5>1. p = o
          BY <2>5, <3>1, <4>1 DEF e
        <5> QED
          BY <1>2, <2>1, <2>6, <2>7, <5>1 DEF MayConfirm
      <4>2. CASE i # n + 1
        <5>1. i \in 1 .. n
          BY <2>5, <4>2
        <5>2. i \in 1 .. Len(tasks) /\ tasks[i] = <<p, "resultCon">>
          BY <2>3, <2>5, <3>1, <5>1
        <5>3. MayConfirm(p)
          BY <1>0, <5>2 DEF Confirmed, MayConfirm
        <5>4. op[p].call # <<>> => op[p].call \in Call
          BY <1>0, OpParts
        <5>5. Kept
          BY <1>4 DEF UaFrame
        <5> QED
          BY <1>2, <2>6, <5>3, <5>4, <5>5 DEF MayConfirm, Kept
      <4> QED
        BY <4>1, <4>2
    <3>2. ASSUME NEW i \in 1 .. Len(tasks'), NEW j \in 1 .. Len(tasks'),
                 tasks'[i] = tasks'[j], tasks'[i][2] = "resultCon"
          PROVE  i = j
      <4>1. CASE i = n + 1 /\ j # n + 1
        <5>1. j \in 1 .. n
          BY <2>5, <4>1
        <5> QED
          BY <2>5, <2>8, <3>2, <4>1, <5>1
      <4>2. CASE j = n + 1 /\ i # n + 1
        <5>1. i \in 1 .. n
          BY <2>5, <4>2
        <5> QED
          BY <2>5, <2>8, <3>2, <4>2, <5>1
      <4>3. CASE i # n + 1 /\ j # n + 1
        <5>1. i \in 1 .. n /\ j \in 1 .. n
          BY <2>5, <4>3
        <5>2. i \in 1 .. Len(tasks) /\ j \in 1 .. Len(tasks) /\ tasks[i] = tasks[j]
              /\ tasks[i][2] = "resultCon"
          BY <2>3, <2>5, <3>2, <5>1
        <5> QED
          BY <1>0, <5>2 DEF Confirmed
      <4> QED
        BY <4>1, <4>2, <4>3
    <3> QED
      BY <3>1, <3>2 DEF Confirmed, MayConfirm
  <2>10. tasks' \in Seq(E)
    BY <2>5
  <2> QED
    BY <1>2, <1>3, <1>4, <1>5, <2>9, <2>10, StayKeeps
<1> QED
  BY <1>7, <1>8, <1>9

\* A step that moves an operation to another state.
LEMMA MovedRec ==
    ASSUME Typed, NEW o \in OpId, NEW r \in OpRec, NEW s \in Live, Moved(o, r, s)
    PROVE  /\ active' = active
           /\ op' \in [OpId -> OpRec] /\ \A p \in OpId \ {o} : op'[p] = op[p]
           /\ op'[o].st = s /\ op'[o].pending = r.pending
           /\ op'[o].call = r.call /\ op'[o].seq = r.seq
           /\ op'[o].last = r.last /\ op'[o].segs = r.segs
           /\ op'[o].complete = r.complete /\ op'[o].timer = r.timer
<1>1. PICK q : q = [r EXCEPT !.st = s]
  OBVIOUS
<1>2. /\ q \in OpRec /\ q.st = s /\ q.pending = r.pending
      /\ q.call = r.call /\ q.seq = r.seq /\ q.last = r.last /\ q.segs = r.segs
      /\ q.complete = r.complete /\ q.timer = r.timer
  BY ONLY <1>1, r \in OpRec, s \in Live DEF OpRec, Live
<1>3. op' = [op EXCEPT ![o] = q] /\ active' = active
  BY <1>1 DEF Moved
<1>4. op' \in [OpId -> OpRec] /\ op'[o] = q /\ \A p \in OpId \ {o} : op'[p] = op[p]
  BY <1>2, <1>3 DEF Typed
<1> QED
  BY <1>2, <1>3, <1>4

LEMMA LiveKeeps ==
    ASSUME DeliveryInv, active' = active, NEW o \in OpId, op[o].st \in Live, op'[o].st \in Live,
           \A p \in OpId \ {o} : op'[p] = op[p], Kept, ServiceTyped'
    PROVE  ActiveOK' /\ Room'
<1>1. \A p \in OpId : op'[p].st = op[p].st \/ (op'[p].st \in Live /\ op[p].st \in Live)
  OBVIOUS
<1>2. ActiveOK'
  BY <1>1 DEF DeliveryInv, ActiveOK
<1>3. \A p \in OpId : op'[p].st = "none" <=> op[p].st = "none"
  BY <1>1 DEF Live
<1> QED
  BY <1>2, <1>3, RoomKeeps

\* A step that only moves operation o to another state.
LEMMA MoveKeeps ==
    ASSUME DeliveryInv, UNCHANGED <<mtsVars, esroVars, shown, acked, wild>>,
           faults' \in 0 .. MaxFaults,
           NEW o \in OpId, NEW s \in {"s1", "s4"}, Moved(o, op[o], s), op[o].st \in Live,
           op[o].call # <<>>, ~ op[o].complete, s = "s1" => SegsOK(o)',
           tasks' \in Seq(OpId \X {"invoke", "resultCon", "errorCon", "failure"}),
           Confirmed'
    PROVE  DeliveryInv'
<1>0. Typed /\ PendingOK(o) /\ SegsOK(o) /\ UaFrame /\ UNCHANGED <<tries, seqOf, outcome>>
  BY FrameStays DEF DeliveryInv, mtsVars, esroVars
<1>1. op[o] \in OpRec /\ s \in Live
  BY <1>0 DEF Typed, Live
<1>2. /\ active' = active
      /\ op' \in [OpId -> OpRec] /\ \A p \in OpId \ {o} : op'[p] = op[p]
      /\ op'[o].st = s /\ op'[o].pending = op[o].pending
      /\ op'[o].call = op[o].call /\ op'[o].seq = op[o].seq
      /\ op'[o].last = op[o].last /\ op'[o].segs = op[o].segs
      /\ op'[o].complete = op[o].complete /\ op'[o].timer = op[o].timer
  BY <1>0, <1>1, MovedRec, SMTT(40)
<1>3. PendingOK(o)'
  <2>1. PendingOK(o) /\ \A c : Seq2(c)' = Seq2(c) /\ (Dead(c)' <=> Dead(c))
    BY ONLY <1>0 DEF Seq2, Dead
  <2>2. op'[o].st # "none" /\ op'[o].st # "free" /\ op[o].call # <<>>
    BY <1>1, <1>2 DEF Live
  <2> QED
    BY ONLY <1>2, <2>1, <2>2 DEF PendingOK
<1>4. SegsOK(o)'
  <2>1. CASE s = "s4"
    <3>1. SegsOK(o) /\ tries' = tries /\ seqOf' = seqOf /\ \A c : Seq2(c)' = Seq2(c)
      BY ONLY <1>0 DEF Seq2
    <3>2. op'[o].st = "s4" /\ ~ op'[o].complete
      BY <1>2, <2>1
    <3> QED
      BY ONLY <1>2, <3>1, <3>2 DEF SegsOK
  <2> QED
    BY <2>1
<1>5. Grown(o)
  <2>1. op[o].st \in Live /\ op[o].call # <<>> /\ SegsOK(o)
    BY <1>0
  <2> QED
    BY ONLY <1>0, <1>2, <2>1 DEF Grown, Advanced, SegsOK
<1>6. ActiveOK' /\ Room'
  BY <1>0, <1>1, <1>2, LiveKeeps DEF UaFrame
<1>7. HeldOnce'
  <2>1. \A p \in OpId : /\ op'[p].call = op[p].call
                        /\ op'[p] = op[p] \/ op'[p].pending = op[p].pending
    BY <1>2
  <2>2. answer' = answer
    BY DEF esroVars
  <2> QED
    BY <1>0, <2>1, <2>2, HeldKeeps
<1>8. UaTyped' /\ ShownWhole' /\ shown \subseteq shown'
  BY <1>0, <1>2 DEF Typed, UaTyped, DeliveryInv, ShownWhole
<1>9. NewAnswers
  BY DEF NewAnswers, esroVars
<1>10. AckedFinal'
  BY <1>0, AckedKeeps
<1> QED
  BY <1>0, <1>2, <1>3, <1>4, <1>5, <1>6, <1>7, <1>8, <1>9, <1>10, UaKeeps

LEMMA NextSegmentKeeps ==
    ASSUME DeliveryInv, NEW o \in OpId, aS2S1b(o)
    PROVE  DeliveryInv'
<1>0. Typed /\ Confirmed /\ PendingOK(o) /\ SegsOK(o)
  BY DEF DeliveryInv
<1>1. /\ Task(o, "s2", "resultCon") /\ ~ op[o].complete
      /\ Moved(o, op[o], "s1")
      /\ tasks' = Tail(tasks) \/ tasks' = Append(Tail(tasks), <<o, "invoke">>)
      /\ UNCHANGED <<esroVars, shown, acked, faults>>
  BY DEF aS2S1b
<1>2. /\ tasks # <<>> /\ 1 \in 1 .. Len(tasks) /\ tasks[1] = <<o, "resultCon">>
      /\ op[o].st = "s2" /\ UNCHANGED <<mtsVars, wild>>
  BY <1>0, <1>1, FirstTask
<1>3. op[o].call # <<>> /\ told[op[o].call] = <<"result">>
  BY <1>0, <1>2 DEF Confirmed
<1>4. QueueStep
  BY <1>1, <1>2 DEF QueueStep
<1>5. /\ active' = active
      /\ op' \in [OpId -> OpRec] /\ \A p \in OpId \ {o} : op'[p] = op[p]
      /\ op'[o].st = "s1" /\ op'[o].pending = op[o].pending
      /\ op'[o].call = op[o].call /\ op'[o].seq = op[o].seq
      /\ op'[o].last = op[o].last /\ op'[o].segs = op[o].segs
      /\ op'[o].complete = op[o].complete /\ op'[o].timer = op[o].timer
  <2>1. op[o] \in OpRec
    BY <1>0 DEF Typed
  <2> QED
    BY <1>0, <1>1, <2>1, MovedRec DEF Live
<1>6. UNCHANGED <<told, tries, seqOf>>
  BY <1>1, <1>2 DEF esroVars, mtsVars
<1>7. SegsOK(o)'
  <2>1. /\ SegsOK(o) /\ ~ op[o].complete /\ op[o].st = "s2"
        /\ op[o].call # <<>> /\ told[op[o].call] = <<"result">>
    BY <1>0, <1>1, <1>2, <1>3
  <2> QED
    BY ONLY <1>5, <1>6, <2>1 DEF SegsOK, Seq2, Surplus
<1>8. \A i \in 1 .. Len(tasks) : tasks[i] = <<o, "resultCon">> => i = 1
  <2>1. \A i, j \in 1 .. Len(tasks) : tasks[i] = tasks[j] /\ tasks[i][2] = "resultCon" => i = j
    BY <1>0 DEF Confirmed
  <2> QED
    BY <1>2, <2>1
<1>9. tasks' = <<>> \/ tasks'[1] # tasks[1]
  <2> DEFINE n == Len(tasks)
             E == OpId \X {"invoke", "resultCon", "errorCon", "failure"}
  <2>1. /\ tasks \in Seq(E) /\ n = Len(tasks) /\ tasks # <<>>
        /\ <<o, "invoke">> \in E /\ <<o, "invoke">> # <<o, "resultCon">>
    BY <1>0, <1>2 DEF Typed
  <2> HIDE DEF n, E
  <2>2. /\ n \in Nat \ {0} /\ Tail(tasks) \in Seq(E) /\ Len(Tail(tasks)) = n - 1
        /\ \A i \in 1 .. n - 1 : Tail(tasks)[i] = tasks[i + 1]
    BY <2>1, TailFacts
  <2>3. CASE n = 1
    <3>1. Tail(tasks) = <<>>
      <4>1. Tail(tasks) \in Seq(E) /\ Len(Tail(tasks)) = 0
        BY <2>2, <2>3
      <4> QED
        BY <4>1, EmptySeq
    <3>2. Append(<<>>, <<o, "invoke">>)[1] = <<o, "invoke">>
      OBVIOUS
    <3> QED
      BY <1>1, <1>2, <2>1, <3>1, <3>2
  <2>4. CASE n # 1
    <3>1. 1 \in 1 .. n - 1 /\ 2 \in 1 .. n /\ Tail(tasks)[1] = tasks[2]
      BY <2>2, <2>4
    <3>2. tasks[2] # tasks[1]
      BY <1>2, <1>8, <2>1, <3>1
    <3>3. Append(Tail(tasks), <<o, "invoke">>)[1] = tasks[2]
      BY <2>1, <2>2, <3>1
    <3> QED
      BY <1>1, <3>1, <3>2, <3>3
  <2> QED
    BY <2>3, <2>4
<1>10. Confirmed'
  <2>1. ASSUME NEW p \in OpId, NEW i \in 1 .. Len(tasks), tasks[i] = <<p, "resultCon">>,
               i > 1 \/ (tasks' # <<>> /\ tasks'[1] = tasks[1]), MayConfirm(p)
        PROVE  MayConfirm(p)'
    <3>1. p # o
      BY <1>8, <1>9, <2>1
    <3> QED
      BY <1>5, <1>6, <2>1, <3>1 DEF MayConfirm
  <2> QED
    BY <1>0, <1>4, <2>1, QueueKeeps
<1>11. faults' \in 0 .. MaxFaults
  BY <1>0, <1>1 DEF Typed
<1>12. tasks' \in Seq(OpId \X {"invoke", "resultCon", "errorCon", "failure"})
  BY <1>0, <1>4, QueueTyped
<1> QED
  BY <1>1, <1>2, <1>3, <1>7, <1>10, <1>11, <1>12, MoveKeeps DEF Live

\* An invocation is added to what waits for operation o.
LEMMA IndicatedRec ==
    ASSUME DeliveryInv, NEW c \in Call, ua_invokeIndication(c)
    PROVE  LET o == OperationFor(c)
               n == Len(op[o].pending)
           IN  /\ UaFrame /\ c \in asked /\ runs[c] = 0 /\ answer[c] = {}
               /\ runs' = [runs EXCEPT ![c] = 1] /\ UNCHANGED <<answer, told>>
               /\ UNCHANGED <<shown, acked, wild, faults>>
               /\ o \in OpId /\ op[o].st # "leaked"
               /\ tasks' = Append(tasks, <<o, "invoke">>)
               /\ active' = IF c[3] = 0 THEN Append(active, o) ELSE active
               /\ op' \in [OpId -> OpRec] /\ \A p \in OpId \ {o} : op'[p] = op[p]
               /\ op'[o].st = IF op[o].st = "none" THEN "s1" ELSE op[o].st
               /\ op'[o].call = op[o].call /\ op'[o].seq = op[o].seq
               /\ op'[o].last = op[o].last /\ op'[o].segs = op[o].segs
               /\ op'[o].complete = op[o].complete /\ op'[o].timer = op[o].timer
               /\ n \in Nat /\ Len(op'[o].pending) = n + 1 /\ op'[o].pending[n + 1] = c
               /\ \A i \in 1 .. n : op'[o].pending[i] = op[o].pending[i]
<1> DEFINE o == OperationFor(c)
           n == Len(op[o].pending)
<1>0. Typed /\ Served /\ ServiceTyped
  BY DEF DeliveryInv, Typed, ServiceTyped
<1>1. /\ D!Perform(c) /\ o # 0 /\ op[o].st # "leaked"
      /\ op' = [op EXCEPT ![o].pending = Append(@, c),
                          ![o].st = IF @ = "none" THEN "s1" ELSE @]
      /\ active' = IF c[3] = 0 THEN Append(active, o) ELSE active
      /\ FSM_generateEvent(o, "invoke")
      /\ UNCHANGED <<mtsVars, shown, acked, wild, faults>>
  BY DEF ua_invokeIndication, Leaked
<1>2. /\ c \in asked /\ runs[c] = 0 /\ runs' = [runs EXCEPT ![c] = 1]
      /\ UNCHANGED <<asked, answer, outcome, told>>
  BY <1>1 DEF D!Perform
<1>3. answer[c] = {}
  BY <1>0, <1>2 DEF Served
<1>4. UaFrame
  BY <1>0, <1>1, PerformerStep DEF UaFrame
<1>5. o \in OpId
  BY <1>1, <1>2, OperationIs
<1> HIDE DEF o
<1>6. tasks' = Append(tasks, <<o, "invoke">>)
  <2>1. o # 0
    BY <1>1
  <2> QED
    BY <1>1, <2>1 DEF FSM_generateEvent
<1>7. op[o] \in OpRec /\ op[o].pending \in Seq(Call) /\ n = Len(op[o].pending)
  BY <1>0, <1>5, OpParts DEF Typed
<1>8. PICK q : q = [op[o] EXCEPT !.pending = Append(@, c),
                                 !.st = IF @ = "none" THEN "s1" ELSE @]
  OBVIOUS
<1>9. PICK a : a = Append(op[o].pending, c)
  OBVIOUS
<1>10. PICK s : s = IF op[o].st = "none" THEN "s1" ELSE op[o].st
  OBVIOUS
<1>11. s \in {"s1", "s2", "s4", "leaked", "free"}
  BY <1>0, <1>5, <1>10, OpParts
<1>12. /\ n \in Nat /\ a \in Seq(Call) /\ Len(a) = n + 1 /\ a[n + 1] = c
       /\ \A i \in 1 .. n : a[i] = op[o].pending[i]
  <2> HIDE DEF n
  <2> QED
    BY <1>7, <1>9, AppendFacts
<1>13. q = [op[o] EXCEPT !.pending = a, !.st = s]
  BY ONLY <1>8, <1>9, <1>10, <1>7 DEF OpRec
<1>14. /\ q \in OpRec /\ q.st = s /\ q.pending = a
       /\ q.call = op[o].call /\ q.seq = op[o].seq /\ q.last = op[o].last
       /\ q.segs = op[o].segs /\ q.complete = op[o].complete /\ q.timer = op[o].timer
  BY ONLY <1>7, <1>11, <1>12, <1>13 DEF OpRec
<1>15. op' = [op EXCEPT ![o] = q]
  BY <1>0, <1>1, <1>5, <1>8 DEF Typed
<1>16. op' \in [OpId -> OpRec] /\ op'[o] = q /\ \A p \in OpId \ {o} : op'[p] = op[p]
  BY <1>0, <1>5, <1>14, <1>15 DEF Typed
<1> QED
  BY <1>1, <1>2, <1>3, <1>4, <1>5, <1>6, <1>10, <1>12, <1>14, <1>16 DEF o

LEMMA InvokedKeeps ==
    ASSUME DeliveryInv, NEW c \in Call, ua_invokeIndication(c)
    PROVE  DeliveryInv'
<1>o. PICK o : o = OperationFor(c)
  OBVIOUS
<1>n. PICK n : n = Len(op[o].pending)
  OBVIOUS
<1>0. /\ Typed /\ Served /\ AskedOK /\ SeqOK /\ HeldOnce /\ ActiveOK /\ Confirmed /\ Room
      /\ c[3] \in Nat /\ c # <<>>
  BY CallParts DEF DeliveryInv
<1>1. /\ UaFrame /\ c \in asked /\ runs[c] = 0 /\ answer[c] = {}
      /\ runs' = [runs EXCEPT ![c] = 1] /\ UNCHANGED <<answer, told>>
      /\ UNCHANGED <<shown, acked, wild, faults>>
      /\ o \in OpId /\ op[o].st # "leaked"
      /\ tasks' = Append(tasks, <<o, "invoke">>)
      /\ active' = IF c[3] = 0 THEN Append(active, o) ELSE active
      /\ op' \in [OpId -> OpRec] /\ \A p \in OpId \ {o} : op'[p] = op[p]
      /\ op'[o].st = IF op[o].st = "none" THEN "s1" ELSE op[o].st
      /\ op'[o].call = op[o].call /\ op'[o].seq = op[o].seq
      /\ op'[o].last = op[o].last /\ op'[o].segs = op[o].segs
      /\ op'[o].complete = op[o].complete /\ op'[o].timer = op[o].timer
      /\ n \in Nat /\ Len(op'[o].pending) = n + 1 /\ op'[o].pending[n + 1] = c
      /\ \A i \in 1 .. n : op'[o].pending[i] = op[o].pending[i]
  BY <1>n, <1>o, IndicatedRec, SMTT(40)
<1>2. /\ c[3] = 0 => op[o].st = "none" /\ Len(active) < Inbound
      /\ c[3] > 0 => op[o].st \in Live /\ op[o].seq = Seq2(c)
  <2>1. OperationFor(c) # 0
    BY <1>o, <1>1, OpIdFinite
  <2> QED
    BY <1>o, <1>1, <2>1, OperationIs
<1>3. n = Len(op[o].pending) /\ PendingOK(o) /\ SegsOK(o)
  BY <1>n, <1>1 DEF DeliveryInv
<1>4. UNCHANGED <<tries, seqOf, outcome>> /\ Kept
  BY <1>1 DEF UaFrame, mtsVars
<1>5. \A p \in OpId : ~ Holds(p, c)
  BY <1>0, <1>1 DEF HeldOnce
<1>6. ASSUME NEW p \in OpId, NEW d \in Call
      PROVE  Holds(p, d)' <=> Holds(p, d) \/ (p = o /\ d = c)
  <2>1. CASE p # o
    BY <1>1, <2>1 DEF Holds
  <2>2. CASE p = o
    <3>1. \A i \in 1 .. n + 1 : i \in 1 .. n \/ i = n + 1
      BY <1>1
    <3>2. n + 1 \in 1 .. n + 1 /\ \A i \in 1 .. n : i \in 1 .. n + 1
      BY <1>1
    <3> QED
      BY <1>1, <1>3, <2>2, <3>1, <3>2, ZenonT(60) DEF Holds
  <2> QED
    BY <2>1, <2>2
<1>7. HeldOnce'
  <2>1. \A p \in OpId : \A d \in Call : Holds(p, d)' => runs'[d] = 1
    BY <1>0, <1>1, <1>6 DEF HeldOnce, Typed
  <2>2. \A p, q \in OpId : \A d \in Call : Holds(p, d)' /\ Holds(q, d)' => p = q
    BY <1>0, <1>5, <1>6 DEF HeldOnce
  <2>3. ASSUME NEW p \in OpId, NEW i \in 1 .. Len(op'[p].pending)
        PROVE  /\ answer'[op'[p].pending[i]] = {}
               /\ op'[p].pending[i] # op'[p].call
               /\ \A j \in 1 .. Len(op'[p].pending) : op'[p].pending[i] = op'[p].pending[j] => i = j
    <3>1. CASE p # o
      <4>1. op'[p] = op[p] /\ i \in 1 .. Len(op[p].pending) /\ answer' = answer
        BY <1>1, <2>3, <3>1
      <4>2. /\ answer[op[p].pending[i]] = {}
            /\ op[p].pending[i] # op[p].call
            /\ \A j \in 1 .. Len(op[p].pending) : op[p].pending[i] = op[p].pending[j] => i = j
        BY <1>0, <4>1 DEF HeldOnce
      <4> QED
        BY <4>1, <4>2
    <3>2. CASE p = o
      <4>1. \A j \in 1 .. n : op[o].pending[j] \in Call /\ op[o].pending[j] # c
        BY <1>0, <1>1, <1>3, <1>5, OpParts DEF Holds
      <4>2. op[o].call # c
        BY <1>1, <1>5 DEF Holds
      <4>3. i \in 1 .. n \/ i = n + 1
        BY <1>1, <2>3, <3>2
      <4>4. CASE i \in 1 .. n
        <5>1. i \in 1 .. Len(op[o].pending)
          BY <1>3, <4>4
        <5>2. answer[op[o].pending[i]] = {} /\ op[o].pending[i] # op[o].call
          BY <1>0, <1>1, <5>1 DEF HeldOnce
        <5>3. ASSUME NEW j \in 1 .. n + 1, op'[o].pending[i] = op'[o].pending[j]
              PROVE  i = j
          <6>1. CASE j = n + 1
            BY <1>1, <4>1, <4>4, <5>3, <6>1
          <6>2. CASE j # n + 1
            <7>1. j \in 1 .. n /\ j \in 1 .. Len(op[o].pending)
              BY <1>1, <1>3, <5>3, <6>2
            <7> QED
              BY <1>0, <1>1, <4>4, <5>1, <5>3, <7>1 DEF HeldOnce
          <6> QED
            BY <6>1, <6>2
        <5> QED
          BY <1>1, <3>2, <4>4, <5>2, <5>3
      <4>5. CASE i = n + 1
        <5>1. ASSUME NEW j \in 1 .. n + 1, op'[o].pending[j] = c PROVE j = n + 1
          <6>1. j \in 1 .. n \/ j = n + 1
            BY <1>1
          <6> QED
            BY <1>1, <4>1, <5>1, <6>1
        <5> QED
          BY <1>1, <3>2, <4>2, <4>5, <5>1
      <4> QED
        BY <4>3, <4>4, <4>5
    <3> QED
      BY <3>1, <3>2
  <2> QED
    BY <2>1, <2>2, <2>3 DEF HeldOnce
<1>8. op[o].st \in {"none", "s1", "s2", "s4"} /\ op'[o].st \in Live
  BY <1>0, <1>1, <1>2 DEF Live
<1>9. ActiveOK' /\ active' \in Seq(OpId) /\ Room'
  <2>1. CASE c[3] = 0
    <3>1. /\ op[o].st = "none" /\ Len(active) < Inbound /\ active' = Append(active, o)
          /\ runs[c] = 0 /\ runs' = [runs EXCEPT ![c] = 1]
          /\ o \in OpId /\ op'[o].st \in Live /\ \A p \in OpId \ {o} : op'[p] = op[p]
      BY <1>1, <1>2, <1>8, <2>1
    <3> QED
      BY <2>1, <3>1, AllocatedKeeps
  <2>2. CASE c[3] > 0
    <3>1. active' = active /\ \A p \in OpId : op'[p].st = op[p].st
      BY <1>1, <1>2, <2>2 DEF Live
    <3>2. \A p \in OpId : op'[p].st = "none" <=> op[p].st = "none"
      BY <3>1
    <3>3. Room'
      BY <1>1, <1>4, <3>2, RoomKeeps DEF UaFrame
    <3> QED
      BY <1>0, <3>1, <3>3 DEF ActiveOK, Typed
  <2> QED
    BY <1>0, <2>1, <2>2
<1>10. Room'
  BY <1>9
<1>11. Confirmed' /\ tasks' \in Seq(OpId \X {"invoke", "resultCon", "errorCon", "failure"})
  <2>1. QueueStep
    BY <1>1 DEF QueueStep
  <2>2. ASSUME NEW p \in OpId, MayConfirm(p) PROVE MayConfirm(p)'
    BY <1>1, <2>2 DEF MayConfirm
  <2> QED
    BY <1>0, <2>1, <2>2, QueueKeeps, QueueTyped
<1>12. SegsOK(o)'
  <2>1. op[o].st = "none" => op[o].call = <<>>
    BY <1>3 DEF PendingOK, NoOp
  <2>2. op'[o].st \in {"s1", "s2", "s4"} /\ (op[o].st = "none" => op'[o].st = "s1")
        /\ (op[o].st # "none" => op'[o].st = op[o].st)
    BY <1>1, <1>8 DEF Live
  <2>3. op[o].st = "none" => ~ op[o].complete
    BY <1>3 DEF PendingOK, NoOp
  <2>4. /\ op'[o].call = op[o].call /\ op'[o].seq = op[o].seq
        /\ op'[o].last = op[o].last /\ op'[o].segs = op[o].segs
        /\ op'[o].complete = op[o].complete /\ op'[o].timer = op[o].timer
        /\ told' = told /\ tries' = tries /\ seqOf' = seqOf
    BY <1>1, <1>4
  <2>5. SegsOK(o)
    BY <1>3
  <2> QED
    BY <2>1, <2>2, <2>3, <2>4, <2>5 DEF SegsOK, Seq2, Surplus
<1>13. Grown(o)
  <2>1. /\ op'[o].call = op[o].call /\ op'[o].seq = op[o].seq /\ op'[o].segs = op[o].segs
        /\ outcome' = outcome
    BY <1>1, <1>4
  <2>2. SegsOK(o)
    BY <1>3
  <2> QED
    BY <2>1, <2>2 DEF Grown, Advanced, SegsOK
<1>14. \A i \in 1 .. n + 1 : i \in 1 .. n \/ (i = n + 1 /\ op'[o].pending[i] = c)
  BY <1>1
<1>15. op[o].call = <<>> /\ n # 0 => op'[o].pending[1] = op[o].pending[1]
  <2>1. n # 0 => 1 \in 1 .. n
    BY <1>1
  <2> QED
    BY <1>1, <2>1
<1>16. ASSUME op[o].call = <<>>, c[3] > 0
       PROVE  n # 0 /\ op[o].pending[1] \in Call /\ (Dead(c) \/ Dead(op[o].pending[1]))
  <2>1. op[o].st = "s1" /\ op[o].pending # <<>>
    <3>1. op[o].st \in {"s1", "s2", "s4"} /\ PendingOK(o)
      BY <1>2, <1>3, <1>8, <1>16 DEF Live
    <3> QED
      BY ONLY <1>16, <3>1 DEF PendingOK
  <2>2. op[o].pending \in Seq(Call)
    BY <1>0, <1>1, OpParts
  <2>3. n # 0
    BY <1>3, <2>1, <2>2, EmptySeq
  <2>4. 1 \in 1 .. n /\ 1 \in 1 .. Len(op[o].pending)
    BY <1>1, <1>3, <2>3
  <2> DEFINE d == op[o].pending[1]
  <2>5. d \in Call /\ Holds(o, d)
    BY <2>2, <2>4 DEF Holds
  <2>6. d \in asked /\ answer[d] = {} /\ d # c
    <3>1. d \in asked /\ o \in OpId
      BY <1>1, <2>5, HeldAsked
    <3>2. answer[d] = {}
      BY <1>0, <2>4, <3>1 DEF HeldOnce
    <3>3. d # c
      BY ONLY <1>5, <2>5, <3>1
    <3> QED
      BY <3>1, <3>2, <3>3
  <2>7. outcome[d] # Outcome(d, "result") /\ outcome[c] # Outcome(c, "result")
    BY <1>0, <1>1, <2>5, <2>6 DEF Served
  <2>8. outcome[d] # <<>> \/ outcome[c] # <<>>
    BY <1>0, <1>1, <2>6 DEF AskedOK
  <2> QED
    BY <2>3, <2>5, <2>7, <2>8 DEF Dead
<1>17. ASSUME c[3] > 0, op[o].seq > 0 PROVE ~ Surplus(c)
  <2>1. Seq2(c) > 0 /\ c[1] \in Msg /\ c[2] \in 1 .. MaxTries
    BY <1>2, <1>17, CallParts
  <2>2. Last(c[1]) > 0
    BY <1>0, <2>1 DEF SeqOK, Seq2
  <2> QED
    BY <1>0, <1>1, <2>2, LastNat, <2>1 DEF AskedOK
<1>18. PendingOK(o)'
  <2> DEFINE r == op'[o]
  <2>1. /\ op[o].st = "none" => op[o] = NoOp
        /\ op[o].call = <<>> => op[o].seq = 0 /\ op[o].segs = <<>>
        /\ op[o].st = "none" => c[3] = 0
        /\ op[o].st # "none" => c[3] > 0
    BY <1>0, <1>2, <1>3 DEF PendingOK, Live
  <2>2. op[o].st = "none" => /\ n = 0 /\ op[o].call = <<>>
    <3>1. Len(<<>>) = 0
      OBVIOUS
    <3> QED
      BY <1>3, <2>1, <3>1 DEF NoOp
  <2>3. r.st # "none" /\ r.st # "free" /\ r.pending # <<>>
    <3>1. Len(r.pending) = n + 1 /\ n + 1 # 0 /\ Len(<<>>) = 0
      BY <1>1
    <3> QED
      BY <1>8, <3>1 DEF Live
  <2>4. r.call = <<>> => r.seq = 0 /\ r.segs = <<>> /\ r.st = "s1"
    <3>1. op[o].call = <<>> /\ op[o].st # "none" => op[o].st = "s1"
      BY ONLY <1>3, <1>8 DEF PendingOK
    <3> QED
      BY <1>1, <2>1, <3>1
  <2>5. r.call = <<>> => r.pending[1][3] = 0
    <3>1. CASE op[o].st = "none"
      BY <1>1, <2>1, <2>2, <3>1
    <3>2. CASE op[o].st # "none" /\ op[o].call = <<>>
      <4>1. n # 0 /\ r.pending[1] = op[o].pending[1]
        BY <1>15, <1>16, <2>1, <3>2
      <4>2. op[o].st = "s1"
        BY ONLY <1>3, <1>8, <3>2 DEF PendingOK
      <4> QED
        BY <1>3, <3>2, <4>1, <4>2 DEF PendingOK
    <3> QED
      BY <1>1, <3>1, <3>2
  <2>6. ASSUME NEW i \in 1 .. n
        PROVE  LET d == r.pending[i]
               IN  /\ d[3] = 0 => i = 1 /\ r.call = <<>>
                   /\ d[3] > 0 /\ ~ Surplus(d) => r.seq = Seq2(d)
                   /\ Surplus(d) /\ r.call = <<>> /\ Last(r.pending[1][1]) > 0 =>
                         Dead(d) \/ Dead(r.pending[1])
                   /\ Surplus(d) /\ r.seq > 0 => Dead(d) \/ (r.call[3] = 0 /\ Dead(r.call))
    <3>1. r.pending[i] = op[o].pending[i] /\ r.call = op[o].call /\ r.seq = op[o].seq
      BY <1>1
    <3>2. r.call = <<>> => r.pending[1] = op[o].pending[1]
      <4>1. n # 0
        BY <1>1
      <4> QED
        BY <1>15, <3>1, <4>1
    <3>3. LET d == op[o].pending[i]
          IN  /\ d[3] = 0 => i = 1 /\ op[o].call = <<>>
              /\ d[3] > 0 /\ ~ Surplus(d) => op[o].seq = Seq2(d)
              /\ Surplus(d) /\ op[o].call = <<>> /\ Last(op[o].pending[1][1]) > 0 =>
                    Dead(d) \/ Dead(op[o].pending[1])
              /\ Surplus(d) /\ op[o].seq > 0 => Dead(d) \/ (op[o].call[3] = 0 /\ Dead(op[o].call))
      BY <1>3 DEF PendingOK
    <3> QED
      BY <3>1, <3>2, <3>3
  <2>7. /\ c[3] = 0 => n + 1 = 1 /\ r.call = <<>>
        /\ c[3] > 0 /\ ~ Surplus(c) => r.seq = Seq2(c)
        /\ Surplus(c) /\ r.call = <<>> /\ Last(r.pending[1][1]) > 0 =>
              Dead(c) \/ Dead(r.pending[1])
        /\ Surplus(c) /\ r.seq > 0 => Dead(c)
    <3>1. c[3] = 0 => n + 1 = 1 /\ r.call = <<>> /\ ~ Surplus(c)
      BY <1>0, <1>1, <2>1, <2>2, CallParts DEF Surplus
    <3>2. c[3] > 0 => r.seq = Seq2(c)
      BY <1>1, <1>2
    <3>3. c[3] > 0 /\ r.call = <<>> => Dead(c) \/ Dead(r.pending[1])
      BY <1>1, <1>15, <1>16
    <3>4. c[3] > 0 /\ Surplus(c) => ~ (r.seq > 0)
      BY <1>1, <1>17
    <3>5. c[3] = 0 \/ c[3] > 0
      BY <1>0
    <3> QED
      BY <3>1, <3>2, <3>3, <3>4, <3>5
  <2>8. r.call # <<>> /\ Surplus(r.call) /\ r.seq > 0 => Dead(r.call)
    BY <1>1, <1>3 DEF PendingOK
  <2>9. ASSUME NEW i \in 1 .. n + 1
        PROVE  LET d == r.pending[i]
               IN  /\ d[3] = 0 => i = 1 /\ r.call = <<>>
                   /\ d[3] > 0 /\ ~ Surplus(d) => r.seq = Seq2(d)
                   /\ Surplus(d) /\ r.call = <<>> /\ Last(r.pending[1][1]) > 0 =>
                         Dead(d) \/ Dead(r.pending[1])
                   /\ Surplus(d) /\ r.seq > 0 => Dead(d) \/ (r.call[3] = 0 /\ Dead(r.call))
    <3>1. CASE i \in 1 .. n
      BY <2>6, <3>1
    <3>2. CASE i = n + 1 /\ r.pending[i] = c
      BY <2>7, <3>2
    <3> QED
      BY <1>14, <3>1, <3>2
  <2>10. Len(r.pending) = n + 1
    BY <1>1
  <2> HIDE DEF r
  <2>11. \A d : (Dead(d)' <=> Dead(d)) /\ Seq2(d)' = Seq2(d) /\ (Surplus(d)' <=> Surplus(d))
    BY <1>4 DEF Dead, Seq2, Surplus
  <2>12. r.st # "leaked"
    BY <1>1, <1>8 DEF r
  <2>13. r = op'[o]
    BY DEF r
  <2> QED
    BY ONLY <2>3, <2>4, <2>5, <2>8, <2>9, <2>10, <2>11, <2>12, <2>13 DEF PendingOK
<1>19. UaTyped'
  BY <1>0, <1>1, <1>9, <1>11 DEF UaTyped, Typed
<1>20. NewAnswers /\ ShownWhole' /\ shown \subseteq shown'
  BY <1>1 DEF NewAnswers, DeliveryInv, ShownWhole
<1>21. AckedFinal'
  BY <1>1, AckedKeeps
<1>22. \A p \in OpId : op'[p] = op[p] \/ (PendingOK(p)' /\ SegsOK(p)' /\ Grown(p))
  BY <1>1, <1>12, <1>13, <1>18
<1> QED
  BY <1>1, <1>7, <1>9, <1>10, <1>11, <1>19, <1>20, <1>21, <1>22, UaKeeps

\* The invocation that waits first for operation o is taken up.
LEMMA DequeuedRec ==
    ASSUME DeliveryInv, NEW o \in OpId, op[o].st = "s1", op[o].pending # <<>>,
           NEW r, r = Dequeued(op[o])
    PROVE  LET c == r.call
               n == Len(op[o].pending)
           IN  /\ r \in OpRec /\ r.pending \in Seq(Call)
               /\ r.st = "s1" /\ r.seq = op[o].seq /\ r.last = op[o].last
               /\ r.segs = op[o].segs /\ r.complete = op[o].complete /\ r.timer = op[o].timer
               /\ n \in Nat \ {0} /\ Len(r.pending) = n - 1
               /\ \A i \in 1 .. n - 1 : r.pending[i] = op[o].pending[i + 1]
               /\ c \in Call /\ c = op[o].pending[1] /\ Holds(o, c) /\ c # op[o].call
               /\ c \in asked /\ runs[c] = 1 /\ answer[c] = {}
               /\ outcome[c] # Outcome(c, "result")
               /\ c[3] = 0 <=> op[o].call = <<>>
<1> DEFINE n == Len(op[o].pending)
<1>0. Typed /\ Served /\ PendingOK(o) /\ HeldOnce
  BY DEF DeliveryInv
<1>1. op[o] \in OpRec /\ op[o].pending \in Seq(Call) /\ n = Len(op[o].pending)
  BY <1>0, OpParts DEF Typed
<1> HIDE DEF n
<1>2. /\ n \in Nat \ {0} /\ Tail(op[o].pending) \in Seq(Call)
      /\ Len(Tail(op[o].pending)) = n - 1
      /\ op[o].pending[1] = Head(op[o].pending)
      /\ \A i \in 1 .. n - 1 : Tail(op[o].pending)[i] = op[o].pending[i + 1]
  BY <1>1, TailFacts
<1>3. PICK c : c = Head(op[o].pending)
  OBVIOUS
<1>4. 1 \in 1 .. Len(op[o].pending) /\ c = op[o].pending[1] /\ c \in Call
  BY <1>1, <1>2, <1>3
<1>5. PICK t : t = Tail(op[o].pending)
  OBVIOUS
<1>6. r = [op[o] EXCEPT !.call = c, !.pending = t]
  BY <1>3, <1>5 DEF Dequeued
<1>7. t \in Seq(Call)
  BY <1>2, <1>5
<1>8. /\ r \in OpRec /\ r.call = c /\ r.pending = t
      /\ r.st = op[o].st /\ r.seq = op[o].seq /\ r.last = op[o].last
      /\ r.segs = op[o].segs /\ r.complete = op[o].complete /\ r.timer = op[o].timer
  BY ONLY <1>1, <1>4, <1>6, <1>7 DEF OpRec
<1>9. Holds(o, c)
  BY <1>4 DEF Holds
<1>10. c \in asked /\ runs[c] = 1 /\ answer[c] = {} /\ c # op[o].call
  BY <1>0, <1>4, <1>9, HeldAsked DEF HeldOnce
<1>11. outcome[c] # Outcome(c, "result")
  BY <1>0, <1>4, <1>10 DEF Served
<1>12. c[3] = 0 <=> op[o].call = <<>>
  BY <1>0, <1>4 DEF PendingOK
<1> QED
  BY <1>1, <1>2, <1>4, <1>5, <1>7, <1>8, <1>9, <1>10, <1>11, <1>12

\* What is left waiting.
LEMMA TakenPending ==
    ASSUME DeliveryInv, UaFrame, NEW o \in OpId, op[o].st = "s1", op[o].pending # <<>>,
           NEW r, r = Dequeued(op[o]),
           op'[o].call = r.call, op'[o].pending = r.pending, op'[o].st \in {"s2", "s4"},
           op'[o].seq = IF r.call[3] = 0 THEN Seq2(r.call) ELSE op[o].seq
    PROVE  PendingOK(o)'
<1>1. PICK c : c = r.call
  OBVIOUS
<1>2. PICK n : n = Len(op[o].pending)
  OBVIOUS
<1>3. /\ r.pending \in Seq(Call)
      /\ n \in Nat \ {0} /\ Len(r.pending) = n - 1
      /\ \A i \in 1 .. n - 1 : r.pending[i] = op[o].pending[i + 1]
      /\ c \in Call /\ c = op[o].pending[1] /\ c # op[o].call
      /\ c \in asked
      /\ c[3] = 0 <=> op[o].call = <<>>
  BY <1>1, <1>2, DequeuedRec
<1>4. Typed /\ Served /\ PendingOK(o) /\ SegsOK(o) /\ SeqOK /\ AskedOK
  BY DEF DeliveryInv
<1>5. c # <<>> /\ c[3] \in Nat /\ 1 \in 1 .. n /\ n = Len(op[o].pending)
  BY <1>2, <1>3, CallParts
<1>6. op[o].call # <<>> => ~ Dead(op[o].call)
  <2>1. op[o].call # <<>> => told[op[o].call] = <<"result">> /\ op[o].call \in Call
    BY <1>4, OpParts DEF SegsOK
  <2> QED
    BY <1>4, <2>1 DEF Served, Dead
<1>7. op'[o].seq = IF c[3] = 0 THEN Seq2(c) ELSE op[o].seq
  BY <1>1
<1>8. ASSUME NEW i \in 1 .. n - 1
      PROVE  LET d == r.pending[i]
             IN  /\ ~ (d[3] = 0)
                 /\ d[3] > 0 /\ ~ Surplus(d) => op'[o].seq = Seq2(d)
                 /\ Surplus(d) /\ op'[o].seq > 0 => Dead(d) \/ (c[3] = 0 /\ Dead(c))
  <2>1. PICK d : d = r.pending[i]
    OBVIOUS
  <2>2. i + 1 \in 1 .. n /\ i + 1 # 1 /\ d = op[o].pending[i + 1]
    BY <1>3, <2>1
  <2>3. /\ d[3] # 0
        /\ d[3] > 0 /\ ~ Surplus(d) => op[o].seq = Seq2(d)
        /\ Surplus(d) /\ op[o].call = <<>> /\ Last(c[1]) > 0 => Dead(d) \/ Dead(c)
        /\ Surplus(d) /\ op[o].seq > 0 => Dead(d) \/ (op[o].call[3] = 0 /\ Dead(op[o].call))
    BY <1>3, <1>4, <1>5, <2>2 DEF PendingOK
  <2>4. d \in Call /\ Holds(o, d)
    BY <1>4, <1>5, <2>2, OpParts DEF Holds
  <2>5. CASE c[3] = 0
    <3>1. op[o].call = <<>> /\ op[o].seq = 0
      BY <1>3, <1>4, <2>5 DEF PendingOK
    <3>2. d[3] > 0 => Surplus(d)
      <4>1. Seq2(d) > 0 <=> Last(d[1]) > 0
        BY <2>4, HeldAsked
      <4>2. ~ Surplus(d) => d[3] <= Last(d[1])
        BY <2>4, CallParts DEF Surplus
      <4> QED
        BY <2>3, <2>4, <3>1, <4>1, <4>2, CallParts
    <3>3. op'[o].seq > 0 => Last(c[1]) > 0
      <4>1. Holds(o, c)
        BY <1>3, <1>5 DEF Holds
      <4>2. Seq2(c) > 0 <=> Last(c[1]) > 0
        BY <1>3, <4>1, HeldAsked
      <4> QED
        BY <1>7, <2>5, <4>2
    <3> QED
      BY <2>1, <2>3, <2>5, <3>1, <3>2, <3>3
  <2>6. CASE c[3] # 0
    BY <1>3, <1>6, <1>7, <2>1, <2>3, <2>6
  <2> QED
    BY <2>5, <2>6
<1>9. Surplus(c) /\ op'[o].seq > 0 => Dead(c)
  <2>1. Surplus(c) => c[3] # 0
    BY <1>3, CallParts DEF Surplus
  <2>2. Surplus(c) /\ op[o].seq > 0 => Dead(c) \/ (op[o].call[3] = 0 /\ Dead(op[o].call))
    BY <1>3, <1>4, <1>5 DEF PendingOK
  <2> QED
    BY <1>3, <1>6, <1>7, <2>1, <2>2
<1>10. outcome' = outcome /\ seqOf' = seqOf
  BY DEF UaFrame, mtsVars
<1>11. /\ op'[o].call = c /\ op'[o].pending = r.pending
       /\ Len(op'[o].pending) = n - 1
       /\ op'[o].st # "none" /\ op'[o].st # "free"
  BY <1>1, <1>3
<1>12. ASSUME NEW i \in 1 .. Len(op'[o].pending)
       PROVE  LET d == op'[o].pending[i]
              IN  /\ ~ (d[3] = 0)
                  /\ d[3] > 0 /\ ~ Surplus(d) => op'[o].seq = Seq2(d)
                  /\ Surplus(d) /\ op'[o].seq > 0 => Dead(d) \/ (c[3] = 0 /\ Dead(c))
  <2>1. i \in 1 .. n - 1 /\ op'[o].pending[i] = r.pending[i]
    BY <1>11
  <2> QED
    BY <1>8, <2>1
<1>13. \A d : (Dead(d)' <=> Dead(d)) /\ Seq2(d)' = Seq2(d) /\ (Surplus(d)' <=> Surplus(d))
  BY ONLY <1>10 DEF Dead, Seq2, Surplus
<1>14. op'[o].st # "leaked" /\ c # <<>>
  BY <1>5
<1> QED
  BY ONLY <1>9, <1>11, <1>12, <1>13, <1>14 DEF PendingOK

LEMMA TakenHeld ==
    ASSUME DeliveryInv, UaFrame, NEW o \in OpId, op[o].st = "s1", op[o].pending # <<>>,
           NEW r, r = Dequeued(op[o]),
           op'[o].call = r.call, op'[o].pending = r.pending,
           \A p \in OpId \ {o} : op'[p] = op[p],
           \A d \in Call \ {r.call} : answer'[d] = answer[d]
    PROVE  HeldOnce'
<1>1. PICK c : c = r.call
  OBVIOUS
<1>2. PICK n : n = Len(op[o].pending)
  OBVIOUS
<1>3. /\ n \in Nat \ {0} /\ Len(r.pending) = n - 1
      /\ \A i \in 1 .. n - 1 : r.pending[i] = op[o].pending[i + 1]
      /\ c \in Call /\ c = op[o].pending[1] /\ Holds(o, c)
  BY <1>1, <1>2, DequeuedRec
<1>4. /\ op'[o].call = c /\ op'[o].pending = r.pending
      /\ \A d \in Call \ {c} : answer'[d] = answer[d]
  BY <1>1
<1>5. Typed /\ HeldOnce /\ Kept
  BY DEF DeliveryInv, UaFrame
<1>6. \A i \in 1 .. n - 1 : i + 1 \in 1 .. n
  BY <1>3
<1>7. ASSUME NEW p \in OpId, NEW d \in Call, Holds(p, d)' PROVE Holds(p, d)
  <2>1. CASE p # o
    BY <1>7, <2>1 DEF Holds
  <2>2. CASE p = o
    <3>1. CASE op'[o].call = d
      BY <1>3, <1>4, <2>2, <3>1
    <3>2. CASE \E i \in 1 .. Len(op'[o].pending) : op'[o].pending[i] = d
      <4>1. PICK i \in 1 .. n - 1 : op[o].pending[i + 1] = d
        BY <1>3, <1>4, <3>2
      <4>2. i + 1 \in 1 .. Len(op[o].pending)
        BY <1>2, <1>6
      <4> QED
        BY <2>2, <4>1, <4>2 DEF Holds
    <3> QED
      BY <1>7, <2>2, <3>1, <3>2 DEF Holds
  <2> QED
    BY <2>1, <2>2
<1>8. \A p \in OpId : \A d \in Call : Holds(p, d)' => runs'[d] = 1
  BY <1>5, <1>7 DEF HeldOnce, Kept
<1>9. \A p, q \in OpId : \A d \in Call : Holds(p, d)' /\ Holds(q, d)' => p = q
  BY <1>5, <1>7 DEF HeldOnce
<1>10. ASSUME NEW p \in OpId, NEW i \in 1 .. Len(op'[p].pending)
       PROVE  /\ answer'[op'[p].pending[i]] = {}
              /\ op'[p].pending[i] # op'[p].call
              /\ \A j \in 1 .. Len(op'[p].pending) : op'[p].pending[i] = op'[p].pending[j] => i = j
  <2>1. CASE p # o
    <3>1. op'[p] = op[p] /\ i \in 1 .. Len(op[p].pending)
      BY <1>10, <2>1
    <3>2. /\ answer[op[p].pending[i]] = {}
          /\ op[p].pending[i] # op[p].call
          /\ \A j \in 1 .. Len(op[p].pending) : op[p].pending[i] = op[p].pending[j] => i = j
      BY <1>5, <3>1 DEF HeldOnce
    <3>3. op[p].pending[i] \in Call /\ Holds(p, op[p].pending[i])
      BY <1>5, <3>1, OpParts DEF Holds
    <3>4. op[p].pending[i] # c
      BY <1>3, <1>5, <2>1, <3>3 DEF HeldOnce
    <3> QED
      BY <1>4, <3>1, <3>2, <3>3, <3>4
  <2>2. CASE p = o
    <3>1. i \in 1 .. n - 1 /\ op'[o].pending[i] = op[o].pending[i + 1] /\ i + 1 \in 1 .. n
          /\ Len(op'[o].pending) = n - 1
      BY <1>3, <1>4, <1>6, <1>10, <2>2
    <3>2. \A j, k \in 1 .. n : op[o].pending[j] = op[o].pending[k] => j = k
      BY <1>2, <1>5 DEF HeldOnce
    <3>3. 1 \in 1 .. n /\ i + 1 # 1
      BY <1>3, <3>1
    <3>4. op[o].pending[i + 1] # c
      BY <1>3, <3>1, <3>2, <3>3
    <3>5. op[o].pending[i + 1] \in Call /\ answer[op[o].pending[i + 1]] = {}
      BY <1>2, <1>5, <3>1, OpParts DEF HeldOnce
    <3>6. ASSUME NEW j \in 1 .. n - 1, op'[o].pending[i] = op'[o].pending[j] PROVE i = j
      <4>1. j + 1 \in 1 .. n /\ op'[o].pending[j] = op[o].pending[j + 1]
        BY <1>3, <1>4, <1>6
      <4>2. i + 1 = j + 1
        BY <3>1, <3>2, <3>6, <4>1
      <4> QED
        BY <3>1, <4>2
    <3> QED
      BY <1>4, <2>2, <3>1, <3>4, <3>5, <3>6
  <2> QED
    BY <2>1, <2>2
<1> QED
  BY <1>8, <1>9, <1>10 DEF HeldOnce

\* An operation that waits for its next segment has had a result for the last
\* one, and so the MTS knows of it.
LEMMA WaitingFacts ==
    ASSUME DeliveryInv, NEW o \in OpId, op[o].st = "s1", op[o].call # <<>>
    PROVE  /\ op[o].call \in Call /\ op[o].call \in asked /\ Holds(o, op[o].call)
           /\ outcome[op[o].call] = Outcome(op[o].call, "result")
           /\ op[o].segs # <<>> /\ 0 \in DOMAIN op[o].segs /\ op[o].segs[0] \in Msg
           /\ op[o].last = Last(op[o].segs[0])
           /\ op[o].last > 0 => /\ Advanced(o) /\ op[o].seq > 0
                                /\ ~ Surplus(op[o].call)
                                /\ op[o].segs[0] = op[o].call[1]
                                /\ op[o].seq = Seq2(op[o].call)
<1>0. Typed /\ Served /\ SeqOK /\ PendingOK(o) /\ SegsOK(o)
  BY DEF DeliveryInv
<1>1. op[o].call \in Call /\ Holds(o, op[o].call)
  BY <1>0, OpParts DEF Holds
<1>2. op[o].call \in asked /\ outcome[op[o].call] = Outcome(op[o].call, "result")
  BY <1>0, <1>1, HeldAsked DEF SegsOK, Served
<1>3. op[o].segs # <<>>
  <2>1. op[o].call[3] \in DOMAIN op[o].segs
    BY <1>0 DEF SegsOK
  <2>2. DOMAIN <<>> = {}
    OBVIOUS
  <2> QED
    BY <2>1, <2>2
<1>4. /\ 0 \in DOMAIN op[o].segs /\ op[o].last = Last(op[o].segs[0])
      /\ \E t \in 1 .. MaxTries :
            t <= tries[op[o].segs[0]] /\ op[o].seq = seqOf[op[o].segs[0]][t]
      /\ ~ Surplus(op[o].call) => op[o].segs[0] = op[o].call[1] /\ op[o].seq = Seq2(op[o].call)
  BY <1>0, <1>3 DEF SegsOK
<1>5. op[o].segs[0] \in Msg
  BY <1>0, <1>4, OpParts
<1>6. ASSUME op[o].last > 0 PROVE op[o].seq > 0
  BY <1>0, <1>4, <1>5, <1>6 DEF SeqOK
<1>7. ASSUME op[o].last > 0 PROVE ~ Surplus(op[o].call) /\ Advanced(o)
  <2>1. Surplus(op[o].call) => Dead(op[o].call)
    BY <1>0, <1>6, <1>7 DEF PendingOK
  <2> QED
    BY <1>2, <1>3, <1>4, <1>7, <2>1 DEF Dead, Advanced
<1> QED
  BY <1>1, <1>2, <1>3, <1>4, <1>5, <1>6, <1>7

\* It has every segment before one that the MTS has sent in the same try.
LEMMA HasEarlier ==
    ASSUME DeliveryInv, NEW o \in OpId, Advanced(o), NEW c \in asked,
           c[1] = op[o].segs[0], Seq2(c) = op[o].seq, NEW j \in 0 .. c[3] - 1
    PROVE  j \in DOMAIN op[o].segs /\ op[o].segs[j] = c[1]
<1>0. Typed /\ Served /\ SegsOK(o) /\ AskedOK /\ OneAdvances /\ Answers
  BY DEF DeliveryInv
<1>1. /\ c \in Call /\ c[1] \in Msg /\ c[3] \in Nat /\ c[3] <= Last(c[1]) + 1
      /\ Last(c[1]) \in Nat
  BY <1>0, CallParts DEF Typed
<1>2. PICK a \in 1 .. MaxRetries :
         LET b == <<c[1], c[2], j, a>>
         IN  b \in asked /\ outcome[b] = Outcome(b, "result")
  BY <1>0 DEF AskedOK
<1>3. PICK b \in asked : /\ b[1] = c[1] /\ b[2] = c[2] /\ b[3] = j
                         /\ outcome[b] = Outcome(b, "result")
  BY <1>2
<1>4. b \in Call /\ answer[b] = {"result"} /\ ~ Surplus(b) /\ Seq2(b) = Seq2(c)
  <2>1. b \in Call
    BY <1>0, <1>3 DEF Typed
  <2>2. answer[b] = {"result"}
    BY <1>0, <1>3, <2>1 DEF Served
  <2>3. ~ Surplus(b)
    BY ONLY <1>1, <1>3 DEF Surplus
  <2>4. Seq2(b) = Seq2(c)
    BY ONLY <1>3 DEF Seq2
  <2> QED
    BY <2>1, <2>2, <2>3, <2>4
<1>5. PICK p \in OpId : Took(p, b)
  BY <1>0, <1>4 DEF Answers
<1>6. /\ b[3] \in DOMAIN op[p].segs /\ op[p].segs[b[3]] = b[1]
      /\ op[p].segs[0] = b[1] /\ op[p].seq = Seq2(b)
      /\ op[p].call = b \/ op[p].call[3] > 0
  BY <1>4, <1>5 DEF Took
<1>7. op[p].segs # <<>>
  <2>1. DOMAIN <<>> = {}
    OBVIOUS
  <2> QED
    BY <1>6, <2>1
<1>8. Last(op[p].segs[0]) > 0
  BY <1>3, <1>6 DEF Advanced
<1>9. Advanced(p)
  BY <1>3, <1>6, <1>7, <1>8 DEF Advanced
<1>10. p = o
  BY <1>0, <1>4, <1>6, <1>9 DEF OneAdvances
<1> QED
  BY <1>3, <1>6, <1>10

\* So its segments are those of one message, from the first one on.
LEMMA Filled ==
    ASSUME DeliveryInv, NEW o \in OpId, op[o].st = "s1", op[o].call # <<>>, op[o].last > 0
    PROVE  /\ DOMAIN op[o].segs = 0 .. op[o].call[3]
           /\ \A j \in 0 .. op[o].call[3] : op[o].segs[j] = op[o].segs[0]
<1> DEFINE c == op[o].call
<1>0. Typed /\ SegsOK(o)
  BY DEF DeliveryInv
<1>1. /\ c \in Call /\ c \in asked /\ Advanced(o) /\ ~ Surplus(c)
      /\ op[o].segs[0] = c[1] /\ op[o].seq = Seq2(c)
  BY WaitingFacts
<1>2. c[3] \in Nat
  BY <1>1, CallParts
<1>3. \A j \in 0 .. c[3] - 1 : j \in DOMAIN op[o].segs /\ op[o].segs[j] = c[1]
  BY <1>1, HasEarlier
<1>4. /\ c[3] \in DOMAIN op[o].segs /\ op[o].segs[c[3]] = c[1]
      /\ \A k \in DOMAIN op[o].segs : k <= c[3]
  BY <1>0 DEF SegsOK
<1>5. DOMAIN op[o].segs \subseteq Nat
  BY <1>0, OpParts
<1> HIDE DEF c
<1>6. \A j \in 0 .. c[3] : j \in 0 .. c[3] - 1 \/ j = c[3]
  BY <1>2
<1>7. \A j \in 0 .. c[3] : j \in DOMAIN op[o].segs /\ op[o].segs[j] = c[1]
  BY <1>3, <1>4, <1>6
<1>8. \A k \in DOMAIN op[o].segs : k \in 0 .. c[3]
  BY <1>2, <1>4, <1>5
<1> QED
  BY <1>1, <1>7, <1>8 DEF c

\* What call c makes of the segments of operation o.
Fields(o, c, j) ==
    /\ c[3] = 0 =>
          /\ j.seq = Seq2(c) /\ j.last = Last(c[1])
          /\ j.segs = [i \in {0} |-> c[1]]
          /\ j.complete <=> Last(c[1]) = 0
          /\ j.timer <=> Last(c[1]) > 0
    /\ c[3] # 0 =>
          /\ j.seq = op[o].seq /\ j.last = op[o].last
          /\ DOMAIN j.segs = DOMAIN op[o].segs \cup {c[3]}
          /\ \A i \in DOMAIN j.segs :
                j.segs[i] = IF i = c[3] THEN c[1] ELSE op[o].segs[i]
          /\ j.complete <=> DOMAIN j.segs = 0 .. op[o].last
          /\ j.timer <=> op[o].timer /\ ~ j.complete

\* The segment of the invocation is taken up.
LEMMA JoinedRec ==
    ASSUME DeliveryInv, NEW o \in OpId, op[o].st = "s1", op[o].pending # <<>>,
           NEW r, r = Dequeued(op[o]), NEW j, j = Joined(r), NEW c, c = r.call
    PROVE  /\ j \in OpRec /\ j.st = "s1" /\ j.call = c /\ j.pending = r.pending
           /\ Fields(o, c, j)
<1>2. /\ r \in OpRec
      /\ r.st = "s1" /\ r.seq = op[o].seq /\ r.last = op[o].last
      /\ r.segs = op[o].segs /\ r.complete = op[o].complete /\ r.timer = op[o].timer
      /\ c \in Call
  BY DequeuedRec
<1>3. PICK k : k = c[3]
  OBVIOUS
<1>4. PICK m : m = c[1]
  OBVIOUS
<1>5. k \in Nat /\ m \in Msg /\ Last(m) \in Nat /\ Seq2(c) \in Nat
  BY <1>2, <1>3, <1>4, CallParts, ZenonT(60) DEF DeliveryInv, Typed, Seq2
<1>6. op[o].segs \in UNION {[S -> Msg] : S \in SUBSET Nat} /\ op[o].timer \in BOOLEAN
  BY OpParts DEF DeliveryInv
<1>7. CASE k = 0
  <2>1. PICK b \in BOOLEAN : b <=> Last(m) = 0
    BY Zenon
  <2>2. PICK t \in BOOLEAN : t <=> Last(m) > 0
    BY Zenon
  <2>3. PICK f : f = [i \in {0} |-> m]
    OBVIOUS
  <2>4. f \in UNION {[S -> Msg] : S \in SUBSET Nat}
    <3>1. f \in [{0} -> Msg] /\ {0} \in SUBSET Nat
      BY <1>5, <2>3
    <3> QED
      BY <3>1
  <2>5. j = [r EXCEPT !.seq = Seq2(c), !.last = Last(m), !.segs = f,
                      !.complete = (Last(m) = 0), !.timer = (Last(m) > 0)]
    BY <1>3, <1>4, <1>7, <2>3 DEF Joined, Seq2
  <2>6. (Last(m) = 0) = b
    BY <2>1, Zenon
  <2>10. (Last(m) > 0) = t
    <3>1. CASE Last(m) > 0
      BY <2>2, <3>1
    <3>2. CASE ~ (Last(m) > 0)
      BY <2>2, <3>2
    <3> QED
      BY <3>1, <3>2
  <2>7. j = [r EXCEPT !.seq = Seq2(c), !.last = Last(m), !.segs = f,
                      !.complete = b, !.timer = t]
    BY <2>5, <2>6, <2>10, Zenon
  <2>8. PICK q : q = Seq2(c)
    OBVIOUS
  <2>9. /\ j \in OpRec /\ j.st = "s1" /\ j.call = r.call /\ j.pending = r.pending
        /\ j.seq = q /\ j.last = Last(m) /\ j.segs = f /\ j.complete = b /\ j.timer = t
    BY ONLY <1>2, <1>5, <2>4, <2>7, <2>8, b \in BOOLEAN, t \in BOOLEAN DEF OpRec
  <2> QED
    BY <1>3, <1>4, <1>7, <2>1, <2>2, <2>3, <2>8, <2>9 DEF Fields
<1>8. CASE k # 0
  <2>1. PICK f : f = [i \in DOMAIN r.segs \cup {k} |-> IF i = k THEN m ELSE r.segs[i]]
    OBVIOUS
  <2>2. PICK b \in BOOLEAN : b <=> DOMAIN f = 0 .. r.last
    BY Zenon
  <2>3. PICK t \in BOOLEAN : t <=> r.timer /\ ~ b
    BY Zenon
  <2>4. f \in UNION {[S -> Msg] : S \in SUBSET Nat}
    <3>1. PICK S \in SUBSET Nat : r.segs \in [S -> Msg]
      BY <1>2, <1>6
    <3>2. f \in [S \cup {k} -> Msg] /\ S \cup {k} \in SUBSET Nat
      BY <1>5, <2>1, <3>1
    <3> QED
      BY <3>2
  <2>5. j = [r EXCEPT !.segs = f, !.complete = (DOMAIN f = 0 .. r.last),
                      !.timer = @ /\ ~ (DOMAIN f = 0 .. r.last)]
    BY <1>3, <1>4, <1>8, <2>1 DEF Joined
  <2>6. (DOMAIN f = 0 .. r.last) = b
    BY <2>2, Zenon
  <2>7. (r.timer /\ ~ (DOMAIN f = 0 .. r.last)) = t
    BY <2>2, <2>3, Zenon
  <2>8. j = [r EXCEPT !.segs = f, !.complete = b, !.timer = t]
    <3>1. j = [r EXCEPT !.segs = f, !.complete = (DOMAIN f = 0 .. r.last),
                        !.timer = (r.timer /\ ~ (DOMAIN f = 0 .. r.last))]
      BY ONLY <1>2, <2>5 DEF OpRec
    <3> QED
      BY <2>6, <2>7, <3>1, Zenon
  <2>9. /\ j \in OpRec /\ j.st = "s1" /\ j.call = r.call /\ j.pending = r.pending
        /\ j.seq = r.seq /\ j.last = r.last /\ j.segs = f /\ j.complete = b /\ j.timer = t
    BY ONLY <1>2, <2>4, <2>8, b \in BOOLEAN, t \in BOOLEAN DEF OpRec
  <2>10. /\ DOMAIN f = DOMAIN op[o].segs \cup {k}
         /\ \A i \in DOMAIN f : f[i] = IF i = k THEN m ELSE op[o].segs[i]
    BY <1>2, <2>1
  <2> QED
    BY <1>2, <1>3, <1>4, <1>8, <2>2, <2>3, <2>9, <2>10 DEF Fields
<1> QED
  BY <1>7, <1>8

\* What the segments are then.
Parts(o, c, j) ==
    /\ 0 \in DOMAIN j.segs /\ j.segs[0] \in Msg /\ j.last = Last(j.segs[0])
    /\ \E t \in 1 .. MaxTries :
          t <= tries[j.segs[0]] /\ j.seq = seqOf[j.segs[0]][t]
    /\ c[3] \in DOMAIN j.segs /\ j.segs[c[3]] = c[1]
    /\ \A k \in DOMAIN j.segs :
          /\ k <= j.last /\ k <= c[3]
          /\ k < c[3] => k \in DOMAIN op[o].segs /\ op[o].segs[k] = j.segs[0]
          /\ j.segs[k] = j.segs[0] \/ (k = c[3] /\ Surplus(c))
    /\ c[3] = 0 => op[o].segs = <<>>
    /\ \A k \in DOMAIN op[o].segs : k \in DOMAIN j.segs /\ j.segs[k] = op[o].segs[k]
    /\ ~ Surplus(c) => j.segs[0] = c[1] /\ j.seq = Seq2(c)
    /\ j.complete => DOMAIN j.segs = 0 .. j.last /\ ~ j.timer /\ c[3] = j.last
    /\ ~ Surplus(c) /\ c[3] = Last(c[1]) => j.complete

LEMMA JoinedParts ==
    ASSUME DeliveryInv, NEW o \in OpId, op[o].st = "s1", op[o].pending # <<>>,
           NEW r, r = Dequeued(op[o]), NEW j, j = Joined(r), Acceptable(r),
           NEW c, c = r.call
    PROVE  Parts(o, c, j)
<1>2. /\ c \in Call /\ c \in asked /\ Holds(o, c) /\ c = op[o].pending[1]
      /\ r.seq = op[o].seq /\ r.last = op[o].last /\ r.segs = op[o].segs
      /\ c[3] = 0 <=> op[o].call = <<>>
      /\ Len(op[o].pending) \in Nat \ {0}
  BY DequeuedRec
<1>3. /\ c[3] = 0 =>
            /\ j.seq = Seq2(c) /\ j.last = Last(c[1])
            /\ j.segs = [i \in {0} |-> c[1]]
            /\ j.complete <=> Last(c[1]) = 0
            /\ j.timer <=> Last(c[1]) > 0
      /\ c[3] # 0 =>
            /\ j.seq = op[o].seq /\ j.last = op[o].last
            /\ DOMAIN j.segs = DOMAIN op[o].segs \cup {c[3]}
            /\ \A i \in DOMAIN j.segs :
                  j.segs[i] = IF i = c[3] THEN c[1] ELSE op[o].segs[i]
            /\ j.complete <=> DOMAIN j.segs = 0 .. op[o].last
            /\ j.timer <=> op[o].timer /\ ~ j.complete
  <2>1. Fields(o, c, j)
    BY JoinedRec
  <2> QED
    BY ONLY <2>1, Zenon DEF Fields
<1>4. /\ c[1] \in Msg /\ c[2] \in 1 .. MaxTries /\ c[2] <= tries[c[1]] /\ c[3] \in Nat
      /\ Last(c[1]) \in Nat
  BY <1>2, HeldAsked, CallParts
<1>5. Typed /\ PendingOK(o) /\ SegsOK(o) /\ SeqOK
  BY DEF DeliveryInv
<1>6. c[3] # 0 => c[3] <= op[o].last /\ c[3] \notin DOMAIN op[o].segs
  BY <1>2, <1>4, SMTT(40) DEF Acceptable
<1>7. CASE c[3] = 0
  <2>1. op[o].segs = <<>> /\ DOMAIN op[o].segs = {}
    <3>1. op[o].segs = <<>>
      BY <1>2, <1>5, <1>7 DEF PendingOK
    <3>2. DOMAIN <<>> = {}
      OBVIOUS
    <3> QED
      BY <3>1, <3>2
  <2>2. DOMAIN j.segs = {0} /\ j.segs[0] = c[1] /\ ~ Surplus(c)
    BY <1>3, <1>4, <1>7 DEF Surplus
  <2>3. j.complete => DOMAIN j.segs = 0 .. j.last /\ ~ j.timer /\ c[3] = j.last
    <3>1. 0 .. 0 = {0}
      OBVIOUS
    <3> QED
      BY <1>3, <1>7, <2>2, <3>1
  <2>4. j.seq = seqOf[c[1]][c[2]]
    BY <1>3, <1>7 DEF Seq2
  <2>5. 0 \in DOMAIN j.segs /\ j.segs[0] \in Msg /\ j.last = Last(j.segs[0])
    BY ONLY <1>3, <1>4, <1>7, <2>2
  <2>6. \E t \in 1 .. MaxTries :
            t <= tries[j.segs[0]] /\ j.seq = seqOf[j.segs[0]][t]
    BY ONLY <1>4, <2>2, <2>4
  <2>7. c[3] \in DOMAIN j.segs /\ j.segs[c[3]] = c[1]
    BY ONLY <1>7, <2>2
  <2>8. \A k \in DOMAIN j.segs :
            /\ k <= j.last /\ k <= c[3]
            /\ k < c[3] => k \in DOMAIN op[o].segs /\ op[o].segs[k] = j.segs[0]
            /\ j.segs[k] = j.segs[0] \/ (k = c[3] /\ Surplus(c))
    <3>1. 0 <= Last(c[1]) /\ 0 <= 0 /\ ~ (0 < 0)
      BY ONLY <1>4
    <3>2. j.last = Last(c[1])
      BY ONLY <1>3, <1>7
    <3> QED
      BY ONLY <1>7, <2>2, <3>1, <3>2, Zenon
  <2>9. \A k \in DOMAIN op[o].segs : k \in DOMAIN j.segs /\ j.segs[k] = op[o].segs[k]
    BY ONLY <2>1
  <2>10. j.segs[0] = c[1] /\ j.seq = Seq2(c)
    BY ONLY <1>3, <1>7, <2>2
  <2>11. c[3] = Last(c[1]) => j.complete
    BY ONLY <1>3, <1>7
  <2> QED
    BY ONLY <2>1, <2>3, <2>5, <2>6, <2>7, <2>8, <2>9, <2>10, <2>11, Zenon DEF Parts
<1>8. CASE c[3] # 0
  <2>1. op[o].call # <<>> /\ c[3] <= op[o].last /\ c[3] \notin DOMAIN op[o].segs /\ op[o].last > 0
        /\ op[o].last \in Nat
    <3>1. op[o].last \in Nat
      BY <1>5, OpParts
    <3>2. op[o].call # <<>> /\ c[3] <= op[o].last /\ c[3] \notin DOMAIN op[o].segs
      BY ONLY <1>2, <1>6, <1>8, Zenon
    <3>3. c[3] \in Nat
      BY <1>4
    <3>4. op[o].last > 0
      BY ONLY <1>8, <3>1, <3>2, <3>3
    <3> QED
      BY ONLY <3>1, <3>2, <3>4
  <2> DEFINE d == op[o].call
             m == op[o].segs[0]
  <2>2. /\ d \in Call /\ d \in asked
        /\ op[o].segs # <<>> /\ 0 \in DOMAIN op[o].segs /\ m \in Msg
        /\ op[o].last = Last(m) /\ Advanced(o) /\ op[o].seq > 0 /\ ~ Surplus(d)
        /\ m = d[1] /\ op[o].seq = Seq2(d)
    BY <2>1, WaitingFacts
  <2>3. /\ DOMAIN op[o].segs = 0 .. d[3]
        /\ \A k \in 0 .. d[3] : op[o].segs[k] = m
    BY <2>1, Filled
  <2>4. d[3] \in Nat
    BY <2>2, CallParts
  <2>5. c[3] > d[3]
    BY <1>4, <2>1, <2>3, <2>4
  <2>6. \E t \in 1 .. MaxTries : t <= tries[m] /\ op[o].seq = seqOf[m][t]
    BY <1>5, <2>2 DEF SegsOK
  <2>7. ~ Surplus(c) => m = c[1] /\ op[o].seq = Seq2(c)
    <3>1. ~ Surplus(c) => op[o].seq = Seq2(c)
      <4>1. 1 \in 1 .. Len(op[o].pending)
        <5>1. Len(op[o].pending) \in Nat \ {0}
          BY <1>2
        <5> QED
          BY ONLY <5>1
      <4>2. op[o].pending[1][3] > 0 /\ ~ Surplus(op[o].pending[1]) =>
               op[o].seq = Seq2(op[o].pending[1])
        BY ONLY <1>5, <4>1 DEF PendingOK
      <4>3. c[3] > 0 /\ c = op[o].pending[1]
        <5>1. c[3] \in Nat /\ c = op[o].pending[1]
          BY <1>2, CallParts
        <5> QED
          BY ONLY <1>8, <5>1
      <4> QED
        BY ONLY <4>2, <4>3
    <3>2. ~ Surplus(c) => c[1] = d[1]
      BY <1>2, <1>5, <2>2, <3>1, SeqTells
    <3> QED
      BY <2>2, <3>1, <3>2
  <2> HIDE DEF d, m
  <2>8. /\ 0 \in DOMAIN j.segs /\ j.segs[0] = m /\ j.last = Last(m)
        /\ c[3] \in DOMAIN j.segs /\ j.segs[c[3]] = c[1]
        /\ j.seq = op[o].seq
    BY <1>3, <1>8, <2>2 DEF m
  <2>9. ASSUME NEW k \in DOMAIN j.segs
        PROVE  /\ k <= j.last /\ k <= c[3]
               /\ k < c[3] => k \in DOMAIN op[o].segs /\ op[o].segs[k] = m
               /\ j.segs[k] = m \/ (k = c[3] /\ Surplus(c))
    <3>1. CASE k = c[3]
      <4>1. j.segs[k] = c[1] /\ k <= j.last
        BY <1>3, <1>8, <2>1, <3>1, <2>9
      <4> QED
        BY <1>4, <2>7, <3>1, <4>1
    <3>2. CASE k # c[3]
      <4>1. k \in DOMAIN op[o].segs /\ j.segs[k] = op[o].segs[k] /\ k \in 0 .. d[3]
        BY <1>3, <1>8, <2>3, <2>9, <3>2
      <4>2. op[o].segs[k] = m /\ k <= d[3] /\ k \in Nat
        BY <2>3, <2>4, <4>1
      <4>3. k <= c[3] /\ k <= j.last
        BY <1>3, <1>4, <1>8, <2>1, <2>4, <2>5, <4>2
      <4> QED
        BY <4>1, <4>2, <4>3
    <3> QED
      BY <3>1, <3>2
  <2>10. \A k \in DOMAIN op[o].segs : k \in DOMAIN j.segs /\ j.segs[k] = op[o].segs[k]
    BY <1>3, <1>8, <2>1
  <2>11. j.complete => DOMAIN j.segs = 0 .. j.last /\ ~ j.timer /\ c[3] = j.last
    <3> SUFFICES ASSUME j.complete
                 PROVE  DOMAIN j.segs = 0 .. j.last /\ ~ j.timer /\ c[3] = j.last
      OBVIOUS
    <3>1. DOMAIN j.segs = 0 .. j.last /\ ~ j.timer
      BY <1>3, <1>8
    <3>2. j.last \in DOMAIN j.segs /\ j.last = op[o].last
      BY <1>3, <1>8, <2>1, <3>1
    <3>3. j.last <= c[3] /\ c[3] <= j.last
      BY <2>8, <2>9, <3>2
    <3> QED
      BY <1>4, <2>1, <3>1, <3>2, <3>3
  <2>12. ~ Surplus(c) /\ c[3] = Last(c[1]) => j.complete
    <3> SUFFICES ASSUME ~ Surplus(c), c[3] = Last(c[1]) PROVE j.complete
      OBVIOUS
    <3>1. m = c[1] /\ op[o].seq = Seq2(c) /\ op[o].last = c[3]
      BY <2>2, <2>7 DEF m
    <3>2. \A k \in 0 .. c[3] - 1 : k \in DOMAIN op[o].segs
      BY <1>2, <2>2, <3>1, HasEarlier DEF m
    <3>3. \A k \in 0 .. c[3] : k \in 0 .. c[3] - 1 \/ k = c[3]
      BY <1>4
    <3>4. \A k \in DOMAIN j.segs : k \in 0 .. c[3]
      BY <1>3, <1>4, <1>8, <2>3, <2>4, <2>5
    <3>5. DOMAIN j.segs = 0 .. op[o].last
      BY <1>3, <1>8, <3>1, <3>2, <3>3, <3>4
    <3> QED
      BY <1>3, <1>8, <3>5
  <2> QED
    BY ONLY <1>8, <2>2, <2>6, <2>7, <2>8, <2>9, <2>10, <2>11, <2>12, Zenon DEF m, Parts
<1> QED
  BY <1>7, <1>8

LEMMA JoinedSegs ==
    ASSUME DeliveryInv, UaFrame, NEW o \in OpId, op[o].st = "s1", op[o].pending # <<>>,
           NEW r, r = Dequeued(op[o]), NEW j, j = Joined(r), Acceptable(r),
           op'[o].st \in {"s2", "s4"}, op'[o].call = j.call, op'[o].seq = j.seq,
           op'[o].last = j.last, op'[o].segs = j.segs, op'[o].complete = j.complete,
           op'[o].timer = j.timer
    PROVE  /\ SegsOK(o)' /\ Grown(o) /\ Took(o, r.call)'
           /\ op'[o].seq = IF r.call[3] = 0 THEN Seq2(r.call) ELSE op[o].seq
<1>1. PICK c : c = r.call
  OBVIOUS
<1>2. /\ c \in Call /\ c \in asked
      /\ c[3] = 0 <=> op[o].call = <<>>
      /\ outcome[c] # Outcome(c, "result")
  BY <1>1, DequeuedRec
<1>3. /\ 0 \in DOMAIN j.segs /\ j.segs[0] \in Msg /\ j.last = Last(j.segs[0])
      /\ \E t \in 1 .. MaxTries :
            t <= tries[j.segs[0]] /\ j.seq = seqOf[j.segs[0]][t]
      /\ c[3] \in DOMAIN j.segs /\ j.segs[c[3]] = c[1]
      /\ \A k \in DOMAIN j.segs :
            /\ k <= j.last /\ k <= c[3]
            /\ k < c[3] => k \in DOMAIN op[o].segs /\ op[o].segs[k] = j.segs[0]
            /\ j.segs[k] = j.segs[0] \/ (k = c[3] /\ Surplus(c))
      /\ c[3] = 0 => op[o].segs = <<>>
      /\ \A k \in DOMAIN op[o].segs : k \in DOMAIN j.segs /\ j.segs[k] = op[o].segs[k]
      /\ ~ Surplus(c) => j.segs[0] = c[1] /\ j.seq = Seq2(c)
      /\ j.complete => DOMAIN j.segs = 0 .. j.last /\ ~ j.timer /\ c[3] = j.last
  <2>1. Parts(o, c, j)
    BY <1>1, JoinedParts
  <2> QED
    BY ONLY <2>1, Zenon DEF Parts
<1>4. Fields(o, c, j) /\ j.call = c
  BY <1>1, JoinedRec
<1>5. /\ c[3] = 0 => j.seq = Seq2(c)
      /\ c[3] # 0 => j.seq = op[o].seq
  BY <1>4 DEF Fields
<1>6. /\ c[1] \in Msg /\ c[2] \in 1 .. MaxTries /\ c[3] \in Nat /\ c # <<>>
      /\ c[3] = 0 => ~ Surplus(c)
  BY <1>2, CallParts DEF Surplus
<1>7. Typed /\ PendingOK(o) /\ SegsOK(o) /\ outcome' = outcome /\ tries' = tries /\ seqOf' = seqOf
  BY DEF DeliveryInv, UaFrame, mtsVars
<1>8. j.segs # <<>>
  <2>1. DOMAIN <<>> = {}
    OBVIOUS
  <2> QED
    BY <1>3, <2>1
<1>9. \A k \in DOMAIN j.segs : j.segs[k] = j.segs[0] \/ k > Last(j.segs[k])
  <2> SUFFICES ASSUME NEW k \in DOMAIN j.segs, j.segs[k] # j.segs[0]
               PROVE  k > Last(j.segs[k])
    OBVIOUS
  <2>1. k = c[3] /\ Surplus(c)
    BY <1>3
  <2> QED
    BY <1>3, <2>1 DEF Surplus
<1>10. \A k \in DOMAIN j.segs : k > 0 => c[3] > 0
  <2> SUFFICES ASSUME NEW k \in DOMAIN j.segs, k > 0 PROVE c[3] > 0
    OBVIOUS
  <2>1. k <= c[3]
    BY <1>3
  <2>2. k \in Nat
    <3>1. j \in OpRec
      BY JoinedRec
    <3>2. j.segs \in UNION {[S -> Msg] : S \in SUBSET Nat}
      BY ONLY <3>1 DEF OpRec
    <3>3. PICK S \in SUBSET Nat : j.segs \in [S -> Msg]
      BY <3>2, SMTT(40)
    <3> QED
      BY <3>3
  <2> QED
    BY <1>6, <2>1, <2>2
<1>11. op'[o].call = c
  BY <1>4
<1>12. SegsOK(o)'
  <2>0. PICK t : t = op'[o]
    OBVIOUS
  <2>1. /\ t.call = c /\ t.seq = j.seq /\ t.last = j.last /\ t.segs = j.segs
        /\ t.complete = j.complete /\ t.timer = j.timer /\ t.st \in {"s2", "s4"}
    BY <1>11, <2>0
  <2>2. /\ t.call # <<>>
        /\ 0 \in DOMAIN t.segs /\ t.last = Last(t.segs[0])
        /\ \E i \in 1 .. MaxTries :
              i <= tries'[t.segs[0]] /\ t.seq = seqOf'[t.segs[0]][i]
        /\ \A k \in DOMAIN t.segs :
              k <= t.last /\ (t.segs[k] = t.segs[0] \/ k > Last(t.segs[k]))
        /\ \A k \in DOMAIN t.segs : k > 0 => t.call[3] > 0
    BY ONLY <1>3, <1>6, <1>7, <1>9, <1>10, <2>1
  <2>3. t.call[3] = 0 => t.segs[0] = t.call[1] /\ t.seq = Seq2(t.call)'
    BY ONLY <1>3, <1>6, <1>7, <2>1 DEF Seq2
  <2>4. t.complete =>
          t.segs # <<>> /\ DOMAIN t.segs = 0 .. t.last /\ ~ t.timer
    BY ONLY <1>3, <1>8, <2>1
  <2>5. /\ t.call[3] \in DOMAIN t.segs /\ t.segs[t.call[3]] = t.call[1]
        /\ \A k \in DOMAIN t.segs : k <= t.call[3]
        /\ ~ Surplus(t.call) => t.segs[0] = t.call[1] /\ t.seq = Seq2(t.call)'
    BY ONLY <1>3, <1>7, <2>1 DEF Seq2
  <2>6. t.st # "s1"
    BY ONLY <2>1
  <2> QED
    BY ONLY <2>0, <2>1, <2>2, <2>3, <2>4, <2>5, <2>6 DEF SegsOK
<1>13. Grown(o)
  <2>1. CASE c[3] = 0
    <3>1. op[o].segs = <<>>
      BY <1>3, <2>1
    <3>2. ~ Advanced(o)'
      BY <1>2, <1>7, <1>11, <2>1 DEF Advanced
    <3> QED
      BY <3>1, <3>2 DEF Grown
  <2>2. CASE c[3] # 0
    <3>1. op[o].call # <<>>
      BY <1>2, <2>2
    <3>2. /\ op[o].segs # <<>> /\ 0 \in DOMAIN op[o].segs
          /\ op[o].last = Last(op[o].segs[0])
          /\ op[o].last > 0 => Advanced(o)
      BY <3>1, WaitingFacts
    <3>3. j.segs[0] = op[o].segs[0] /\ j.seq = op[o].seq
      BY <1>3, <1>5, <2>2, <3>2
    <3>4. Advanced(o)' => Advanced(o)
      BY <3>2, <3>3 DEF Advanced
    <3>5. op'[o].call[3] > 0
      BY <1>6, <1>11, <2>2
    <3> QED
      BY <1>3, <3>2, <3>3, <3>4, <3>5 DEF Grown
  <2> QED
    BY <2>1, <2>2
<1>14. Took(o, c)'
  BY <1>3, <1>7, <1>11 DEF Took, Seq2, Surplus
<1>15. Took(o, r.call)'
  BY <1>1, <1>14
<1> QED
  BY <1>1, <1>5, <1>12, <1>13, <1>15

LEMMA UnjoinedSegs ==
    ASSUME DeliveryInv, UaFrame, NEW o \in OpId, op[o].st = "s1", op[o].pending # <<>>,
           NEW r, r = Dequeued(op[o]),
           op'[o].st = "s4", op'[o].call = r.call,
           op'[o].seq = IF r.call[3] = 0 THEN Seq2(r.call) ELSE op[o].seq,
           op'[o].last = op[o].last, op'[o].segs = op[o].segs,
           op'[o].complete = op[o].complete, op'[o].timer = op[o].timer
    PROVE  SegsOK(o)' /\ Grown(o)
<1>1. PICK c : c = r.call
  OBVIOUS
<1>2. /\ c \in Call
      /\ c[3] = 0 <=> op[o].call = <<>>
  BY <1>1, DequeuedRec
<1>3. Typed /\ PendingOK(o) /\ SegsOK(o) /\ outcome' = outcome /\ tries' = tries /\ seqOf' = seqOf
  BY DEF DeliveryInv, UaFrame, mtsVars
<1>4. c[3] \in Nat /\ c # <<>> /\ ~ op[o].complete
  BY <1>2, <1>3, CallParts DEF SegsOK
<1>5. op'[o].call = c /\ op'[o].seq = IF c[3] = 0 THEN Seq2(c) ELSE op[o].seq
  BY <1>1
<1>6. c[3] = 0 => op[o].segs = <<>>
  BY <1>2, <1>3 DEF PendingOK
<1>7. op[o].segs # <<>> => c[3] > 0 /\ op[o].call # <<>> /\ op'[o].seq = op[o].seq
  BY <1>2, <1>4, <1>5, <1>6
<1>8. SegsOK(o)'
  <2>1. /\ op'[o].last = op[o].last /\ op'[o].segs = op[o].segs
        /\ op'[o].complete = op[o].complete /\ op'[o].st = "s4"
    OBVIOUS
  <2>2. ~ op'[o].complete
    BY ONLY <1>4, <2>1
  <2>3. op'[o].segs # <<>> =>
          LET s == op'[o].segs
          IN  /\ 0 \in DOMAIN s /\ op'[o].last = Last(s[0])
              /\ \E t \in 1 .. MaxTries :
                    t <= tries'[s[0]] /\ op'[o].seq = seqOf'[s[0]][t]
              /\ \A k \in DOMAIN s :
                    k <= op'[o].last /\ (s[k] = s[0] \/ k > Last(s[k]))
    BY ONLY <1>3, <1>7, <2>1 DEF SegsOK
  <2>4. op'[o].segs # <<>> => op'[o].call[3] > 0 /\ op'[o].call[3] # 0
    BY ONLY <1>4, <1>5, <1>7, <2>1
  <2> QED
    BY ONLY <1>4, <1>5, <2>1, <2>2, <2>3, <2>4, Zenon DEF SegsOK
<1>9. Grown(o)
  <2>1. CASE op[o].segs = <<>>
    BY <2>1 DEF Grown, Advanced
  <2>2. CASE op[o].segs # <<>>
    <3>1. /\ 0 \in DOMAIN op[o].segs
          /\ op[o].last = Last(op[o].segs[0])
          /\ op[o].last > 0 => Advanced(o)
      BY <1>7, <2>2, WaitingFacts
    <3>2. Advanced(o)' => Advanced(o)
      BY <3>1 DEF Advanced
    <3> QED
      BY <1>5, <1>7, <2>2, <3>1, <3>2 DEF Grown
  <2> QED
    BY <2>1, <2>2
<1> QED
  BY <1>8, <1>9

\* A step that takes up what waits first for operation o.
LEMMA TakenKeeps ==
    ASSUME DeliveryInv, UaFrame, NEW o \in OpId, op[o].st = "s1", op[o].pending # <<>>,
           NEW r, r = Dequeued(op[o]),
           NEW q \in OpRec, NEW s \in {"s2", "s4"}, Moved(o, q, s),
           q.call = r.call, q.pending = r.pending,
           q.seq = IF r.call[3] = 0 THEN Seq2(r.call) ELSE op[o].seq,
           SegsOK(o)', Grown(o), QueueStep, shown \subseteq shown', ShownWhole',
           acked' = acked, wild' \in BOOLEAN, faults' \in 0 .. MaxFaults,
           \A d \in Call \ {r.call} : answer'[d] = answer[d], NewAnswers
    PROVE  DeliveryInv'
<1>0. Typed /\ Confirmed /\ Kept /\ ServiceTyped'
  BY DEF DeliveryInv, UaFrame
<1>1. /\ active' = active
      /\ op' \in [OpId -> OpRec] /\ \A p \in OpId \ {o} : op'[p] = op[p]
      /\ op'[o].st = s /\ op'[o].pending = q.pending
      /\ op'[o].call = q.call /\ op'[o].seq = q.seq
  BY <1>0, MovedRec DEF Live
<1>2. PendingOK(o)'
  BY <1>1, TakenPending
<1>3. ActiveOK' /\ Room'
  BY <1>0, <1>1, LiveKeeps DEF Live
<1>4. HeldOnce'
  BY <1>1, TakenHeld
<1>5. Confirmed'
  <2>1. ASSUME NEW p \in OpId, MayConfirm(p) PROVE MayConfirm(p)'
    <3>1. p # o
      BY <2>1 DEF MayConfirm
    <3>2. op'[p] = op[p]
      BY <1>1, <3>1
    <3>3. op[p].call # <<>> => op[p].call \in Call
      BY <1>0, OpParts
    <3>4. <<"result">> # <<>>
      OBVIOUS
    <3> QED
      BY <1>0, <2>1, <3>2, <3>3, <3>4 DEF MayConfirm, Kept
  <2> QED
    BY <1>0, <2>1, QueueKeeps
<1>6. UaTyped' /\ AckedFinal'
  BY <1>0, <1>1, QueueTyped, AckedKeeps DEF UaTyped, Typed
<1>7. \A p \in OpId : op'[p] = op[p] \/ (PendingOK(p)' /\ SegsOK(p)' /\ Grown(p))
  BY <1>1, <1>2
<1> QED
  BY <1>3, <1>4, <1>5, <1>6, <1>7, UaKeeps

\* A message that is complete is whole, but for a segment too many.
LEMMA JoinedWhole ==
    ASSUME DeliveryInv, NEW o \in OpId, op[o].st = "s1", op[o].pending # <<>>,
           NEW r, r = Dequeued(op[o]), NEW j, j = Joined(r), Acceptable(r), j.complete
    PROVE  /\ Mixed(j.segs) \/ \E m \in Msg : j.segs = Whole(m)
           /\ ~ Surplus(r.call) => j.segs = Whole(r.call[1])
<1>1. PICK c : c = r.call
  OBVIOUS
<1>2. c \in Call /\ Parts(o, c, j) /\ j \in OpRec
  BY <1>1, DequeuedRec, JoinedParts, JoinedRec
<1>3. /\ 0 \in DOMAIN j.segs /\ j.segs[0] \in Msg /\ j.last = Last(j.segs[0])
      /\ c[3] \in DOMAIN j.segs /\ j.segs[c[3]] = c[1]
      /\ \A k \in DOMAIN j.segs : j.segs[k] = j.segs[0] \/ (k = c[3] /\ Surplus(c))
      /\ ~ Surplus(c) => j.segs[0] = c[1] /\ j.seq = Seq2(c)
      /\ DOMAIN j.segs = 0 .. j.last
  BY <1>2 DEF Parts
<1>4. CASE Surplus(c)
  BY <1>1, <1>3, <1>4 DEF Mixed, Surplus
<1>5. CASE ~ Surplus(c)
  <2>1. j.segs \in UNION {[S -> Msg] : S \in SUBSET Nat}
    BY ONLY <1>2 DEF OpRec
  <2>2. PICK S \in SUBSET Nat : j.segs \in [S -> Msg]
    BY <2>1
  <2>3. j.segs = [k \in 0 .. Last(c[1]) |-> c[1]]
    <3>1. PICK f : f = j.segs
      OBVIOUS
    <3>2. DOMAIN f = 0 .. Last(c[1]) /\ \A k \in DOMAIN f : f[k] = c[1]
      BY <1>3, <1>5, <3>1
    <3>3. f = [k \in DOMAIN f |-> f[k]]
      BY <2>2, <3>1
    <3> QED
      BY <3>1, <3>2, <3>3
  <2>4. c[1] \in Msg
    BY <1>3, <1>5
  <2> QED
    BY <1>1, <2>3, <2>4 DEF Whole
<1> QED
  BY <1>4, <1>5

LEMMA ResultKeeps ==
    ASSUME DeliveryInv, NEW o \in OpId, aS1S2a(o)
    PROVE  DeliveryInv'
<1>1. PICK r : r = Dequeued(op[o])
  OBVIOUS
<1>2. PICK j : j = Joined(r)
  OBVIOUS
<1>3. PICK c : c = r.call
  OBVIOUS
<1>4. /\ Task(o, "s1", "invoke") /\ op[o].pending # <<>> /\ Acceptable(r)
      /\ \/ /\ told[c] = <<>> /\ NoFault
            /\ D!Answer(c, "result")
            /\ tasks' = Tail(tasks)
         \/ /\ IF told[c] = <<>> THEN Fault ELSE NoFault
            /\ tasks' = Append(Tail(tasks), <<o, "failure">>)
            /\ UNCHANGED esroVars
      /\ shown' = IF j.complete THEN shown \cup {<<o, j.segs>>} ELSE shown
      /\ Moved(o, j, "s2") /\ acked' = acked
  BY <1>1, <1>2, <1>3 DEF aS1S2a
<1>5. Typed /\ Served /\ ServiceTyped
  BY DEF DeliveryInv, Typed, ServiceTyped
<1>6. tasks # <<>> /\ op[o].st = "s1" /\ UNCHANGED <<mtsVars, wild>>
  BY <1>4, <1>5, FirstTask
<1>7. c \in Call
  BY <1>1, <1>3, <1>4, <1>6, DequeuedRec
<1>8. QueueStep
  BY <1>4, <1>6 DEF QueueStep
<1>9. /\ UaFrame
      /\ \A d \in Call \ {c} : answer'[d] = answer[d]
      /\ faults' \in 0 .. MaxFaults
  <2>1. CASE NoFault /\ D!Answer(c, "result")
    <3>1. answer' = [answer EXCEPT ![c] = {"result"}] /\ UNCHANGED <<asked, outcome>>
      BY <2>1 DEF D!Answer
    <3>2. UaFrame
      BY <1>5, <1>6, <1>7, <2>1, PerformerStep DEF UaFrame
    <3> QED
      BY <1>5, <2>1, <3>1, <3>2 DEF NoFault, Typed
  <2>2. CASE (IF told[c] = <<>> THEN Fault ELSE NoFault) /\ UNCHANGED esroVars
    <3>1. UaFrame
      BY <1>6, <2>2, FrameStays
    <3>2. faults' \in 0 .. MaxFaults
      BY <1>5, <2>2, DeliveryAssumption DEF Fault, NoFault, Typed
    <3> QED
      BY <2>2, <3>1, <3>2 DEF esroVars
  <2> QED
    BY <1>4, <2>1, <2>2
<1>10. j \in OpRec /\ j.call = c /\ j.pending = r.pending /\ Parts(o, c, j)
  BY <1>1, <1>2, <1>3, <1>4, <1>6, JoinedRec, JoinedParts
<1>11. /\ op'[o].st = "s2" /\ op'[o].call = j.call /\ op'[o].seq = j.seq
       /\ op'[o].last = j.last /\ op'[o].segs = j.segs /\ op'[o].complete = j.complete
       /\ op'[o].timer = j.timer
  BY <1>4, <1>5, <1>10, MovedRec DEF Live
<1>12. /\ SegsOK(o)' /\ Grown(o) /\ Took(o, r.call)'
       /\ op'[o].seq = IF r.call[3] = 0 THEN Seq2(r.call) ELSE op[o].seq
  BY <1>1, <1>2, <1>4, <1>6, <1>9, <1>11, JoinedSegs
<1>13. ShownWhole'
  <2>1. j.complete => Mixed(j.segs) \/ \E m \in Msg : j.segs = Whole(m)
    BY <1>1, <1>2, <1>4, <1>6, JoinedWhole
  <2>2. ShownWhole
    BY DEF DeliveryInv
  <2>3. ASSUME NEW s \in shown' PROVE Mixed(s[2]) \/ \E m \in Msg : s[2] = Whole(m)
    <3>1. CASE s \in shown
      BY <2>2, <3>1 DEF ShownWhole
    <3>2. CASE s \notin shown
      <4>1. j.complete /\ s = <<o, j.segs>>
        BY <1>4, <2>3, <3>2
      <4>2. s[2] = j.segs
        BY <4>1
      <4> QED
        BY <2>1, <4>1, <4>2
    <3> QED
      BY <3>1, <3>2
  <2> QED
    BY <2>3 DEF ShownWhole
<1>14. NewAnswers
  <2> SUFFICES ASSUME NEW d \in Call, answer'[d] = {"result"}, answer[d] # {"result"}
               PROVE  /\ ~ Surplus(d) => \E p \in OpId : Took(p, d)'
                      /\ d[3] = Last(d[1]) => \E s \in shown' : s[2] = Whole(d[1])
    BY DEF NewAnswers
  <2>1. d = c
    BY <1>9
  <2>2. Took(o, d)'
    BY <1>3, <1>12, <2>1
  <2>3. ASSUME d[3] = Last(d[1]) PROVE \E s \in shown' : s[2] = Whole(d[1])
    <3>1. ~ Surplus(c) /\ c[3] = Last(c[1])
      BY <1>7, <2>1, <2>3, CallParts DEF Surplus
    <3>2. j.complete
      BY <1>10, <3>1 DEF Parts
    <3>3. j.segs = Whole(c[1])
      BY <1>1, <1>2, <1>3, <1>4, <1>6, <3>1, <3>2, JoinedWhole
    <3>4. <<o, j.segs>> \in shown' /\ <<o, j.segs>>[2] = j.segs
      BY <1>4, <3>2
    <3> QED
      BY <2>1, <3>3, <3>4
  <2> QED
    BY <2>2, <2>3
<1>15. wild' \in BOOLEAN /\ shown \subseteq shown'
  BY <1>4, <1>5, <1>6 DEF Typed
<1>16. j.seq = IF r.call[3] = 0 THEN Seq2(r.call) ELSE op[o].seq
  BY <1>11, <1>12
<1>17. \A d \in Call \ {r.call} : answer'[d] = answer[d]
  BY <1>3, <1>9
<1>18. j.call = r.call
  BY <1>3, <1>10
<1> QED
  BY <1>1, <1>4, <1>6, <1>8, <1>9, <1>10, <1>12, <1>13, <1>14, <1>15, <1>16, <1>17, <1>18,
     TakenKeeps

LEMMA ErrorKeeps ==
    ASSUME DeliveryInv, NEW o \in OpId, aS1S4a(o)
    PROVE  DeliveryInv'
<1>1. PICK r : r = Dequeued(op[o])
  OBVIOUS
<1>2. PICK j : j = Joined(r)
  OBVIOUS
<1>3. PICK c : c = r.call
  OBVIOUS
<1>4. PICK u : u = IF c[3] = 0 THEN [r EXCEPT !.seq = seqOf[c[1]][c[2]]] ELSE r
  OBVIOUS
<1>5. /\ Task(o, "s1", "invoke")
      /\ \/ op[o].pending = <<>> /\ NoFault /\ Moved(o, r, "s4")
         \/ /\ op[o].pending # <<>>
            /\ \/ ~ Acceptable(r) /\ NoFault /\ Moved(o, r, "s4")
               \/ Acceptable(r) /\ Fault /\ Moved(o, u, "s4")
               \/ Acceptable(r) /\ Fault /\ j.complete /\ Moved(o, j, "s4")
      /\ IF told[c] = <<>> /\ answer[c] = {} THEN D!Answer(c, "error") ELSE UNCHANGED esroVars
      /\ tasks' = Tail(tasks)
      /\ shown' = shown /\ acked' = acked
  BY <1>1, <1>2, <1>3, <1>4 DEF aS1S4a
<1>6. Typed /\ Served /\ ServiceTyped /\ Confirmed /\ PendingOK(o) /\ SegsOK(o)
  BY DEF DeliveryInv, Typed, ServiceTyped
<1>7. tasks # <<>> /\ op[o].st = "s1" /\ UNCHANGED <<mtsVars, wild>>
  BY <1>5, <1>6, FirstTask
<1>8. QueueStep /\ wild' \in BOOLEAN /\ faults' \in 0 .. MaxFaults
  BY <1>5, <1>6, <1>7, QueueTail, DeliveryAssumption DEF Typed, NoFault, Fault
<1>9. CASE op[o].pending = <<>>
  <2>1. r = op[o] /\ c = op[o].call /\ NoFault /\ Moved(o, op[o], "s4")
    BY <1>1, <1>3, <1>5, <1>9 DEF Dequeued
  <2>2. c # <<>> /\ told[c] = <<"result">> /\ ~ op[o].complete
    BY <1>6, <1>7, <1>9, <2>1 DEF PendingOK, SegsOK
  <2>3. UNCHANGED esroVars
    <3>1. <<"result">> # <<>>
      OBVIOUS
    <3> QED
      BY <1>5, <2>2, <3>1
  <2>4. op' \in [OpId -> OpRec] /\ \A p \in OpId \ {o} : op'[p] = op[p]
    <3>1. op[o] \in OpRec
      BY <1>6 DEF Typed
    <3> QED
      BY <1>6, <2>1, <3>1, MovedRec DEF Live
  <2>5. Confirmed'
    <3>1. ASSUME NEW p \in OpId, MayConfirm(p) PROVE MayConfirm(p)'
      <4>1. p # o
        BY <1>7, <3>1 DEF MayConfirm
      <4> QED
        BY <2>3, <2>4, <3>1, <4>1 DEF MayConfirm, esroVars
    <3> QED
      BY <1>6, <1>8, <3>1, QueueKeeps
  <2>6. UNCHANGED <<mtsVars, esroVars, shown, acked, wild>>
    BY <1>5, <1>7, <2>3
  <2> QED
    BY <1>6, <1>7, <1>8, <2>1, <2>2, <2>5, <2>6, QueueTyped, MoveKeeps DEF Live
<1>10. CASE op[o].pending # <<>>
  <2>1. /\ c \in Call /\ r \in OpRec
        /\ r.seq = op[o].seq /\ r.last = op[o].last
        /\ r.segs = op[o].segs /\ r.complete = op[o].complete /\ r.timer = op[o].timer
    BY <1>1, <1>3, <1>7, <1>10, DequeuedRec
  <2>2. /\ UaFrame
        /\ \A d \in Call \ {c} : answer'[d] = answer[d]
        /\ answer'[c] = answer[c] \/ answer'[c] = {"error"}
    <3>1. CASE D!Answer(c, "error")
      <4>1. answer' = [answer EXCEPT ![c] = {"error"}] /\ UNCHANGED <<asked, outcome>>
        BY <3>1 DEF D!Answer
      <4>2. UaFrame
        BY <1>6, <1>7, <2>1, <3>1, PerformerStep DEF UaFrame
      <4> QED
        BY <1>6, <2>1, <4>1, <4>2 DEF Typed
    <3>2. CASE UNCHANGED esroVars
      <4>1. UaFrame
        BY <1>7, <3>2, FrameStays
      <4> QED
        BY <3>2, <4>1 DEF esroVars
    <3> QED
      BY <1>5, <3>1, <3>2
  <2>3. NewAnswers
    <3>1. {"error"} # {"result"}
      OBVIOUS
    <3>2. \A d \in Call : answer'[d] = {"result"} => answer[d] = {"result"}
      BY <2>2, <3>1
    <3> QED
      BY <3>2 DEF NewAnswers
  <2>4. ShownWhole' /\ shown \subseteq shown'
    BY <1>5 DEF DeliveryInv, ShownWhole
  <2>5. \A d \in Call \ {r.call} : answer'[d] = answer[d]
    BY <1>3, <2>2
  <2>6. ASSUME NEW q \in OpRec, Moved(o, q, "s4"), q.call = r.call, q.pending = r.pending,
               q.seq = IF r.call[3] = 0 THEN Seq2(r.call) ELSE op[o].seq,
               SegsOK(o)', Grown(o)
        PROVE  DeliveryInv'
    BY <1>1, <1>5, <1>7, <1>8, <1>10, <2>2, <2>3, <2>4, <2>5, <2>6, TakenKeeps
  <2>7. ASSUME NEW q \in OpRec, Moved(o, q, "s4"), q.call = r.call, q.pending = r.pending,
               q.seq = IF r.call[3] = 0 THEN Seq2(r.call) ELSE op[o].seq,
               q.last = r.last, q.segs = r.segs, q.complete = r.complete, q.timer = r.timer
        PROVE  DeliveryInv'
    <3>1. /\ op'[o].st = "s4" /\ op'[o].call = q.call /\ op'[o].seq = q.seq
          /\ op'[o].last = q.last /\ op'[o].segs = q.segs /\ op'[o].complete = q.complete
          /\ op'[o].timer = q.timer
      BY <1>6, <2>7, MovedRec DEF Live
    <3>2. SegsOK(o)' /\ Grown(o)
      BY <1>1, <1>7, <1>10, <2>1, <2>2, <2>7, <3>1, UnjoinedSegs
    <3> QED
      BY <2>6, <2>7, <3>2
  <2>8. CASE ~ Acceptable(r) /\ Moved(o, r, "s4")
    <3>1. r.call[3] # 0
      BY <2>8 DEF Acceptable
    <3> QED
      BY <2>1, <2>7, <2>8, <3>1
  <2>9. CASE Acceptable(r) /\ Moved(o, u, "s4")
    <3>1. CASE c[3] = 0
      <4>1. PICK q : q = Seq2(c)
        OBVIOUS
      <4>2. u = [r EXCEPT !.seq = q] /\ q \in Nat
        BY <1>4, <1>6, <2>1, <3>1, <4>1, CallParts, ZenonT(60) DEF Seq2, Typed
      <4>3. /\ u \in OpRec /\ u.call = r.call /\ u.pending = r.pending /\ u.seq = q
            /\ u.last = r.last /\ u.segs = r.segs /\ u.complete = r.complete
            /\ u.timer = r.timer
        BY ONLY <2>1, <4>2 DEF OpRec
      <4> QED
        BY <1>3, <2>7, <2>9, <3>1, <4>1, <4>3
    <3>2. CASE c[3] # 0
      BY <1>3, <1>4, <2>1, <2>7, <2>9, <3>2
    <3> QED
      BY <3>1, <3>2
  <2>10. CASE Acceptable(r) /\ Moved(o, j, "s4")
    <3>1. j \in OpRec /\ j.call = r.call /\ j.pending = r.pending
      BY <1>1, <1>2, <1>7, <1>10, JoinedRec
    <3>2. /\ op'[o].st = "s4" /\ op'[o].call = j.call /\ op'[o].seq = j.seq
          /\ op'[o].last = j.last /\ op'[o].segs = j.segs /\ op'[o].complete = j.complete
          /\ op'[o].timer = j.timer
      BY <1>6, <2>10, <3>1, MovedRec DEF Live
    <3>3. /\ SegsOK(o)' /\ Grown(o)
          /\ op'[o].seq = IF r.call[3] = 0 THEN Seq2(r.call) ELSE op[o].seq
      BY <1>1, <1>2, <1>7, <1>10, <2>2, <2>10, <3>2, JoinedSegs
    <3> QED
      BY <2>6, <2>10, <3>1, <3>2, <3>3
  <2> QED
    BY <1>5, <1>10, <2>8, <2>9, <2>10
<1> QED
  BY <1>9, <1>10

-----------------------------------------------------------------------------
(* The theorems.                                                           *)

LEMMA DeliveryStarts == Init => DeliveryInv
<1> SUFFICES ASSUME Init PROVE DeliveryInv
  OBVIOUS
<1>1. /\ asked = {} /\ runs = [c \in Call |-> 0] /\ answer = [c \in Call |-> {}]
      /\ outcome = [c \in Call |-> <<>>] /\ told = [c \in Call |-> <<>>]
      /\ status = [m \in Msg |-> "queued"] /\ tries = [m \in Msg |-> 0]
      /\ mts = Idle /\ seqNo = 0
      /\ seqOf = [m \in Msg |-> [t \in 1 .. MaxTries |-> 0]]
      /\ active = <<>> /\ op = [o \in OpId |-> NoOp] /\ tasks = <<>>
      /\ shown = {} /\ acked = {} /\ wild = FALSE /\ faults = 0
  BY DEF Init, D!AbsInit
<1>2. NoOp \in OpRec
  <2>1. <<>> \in UNION {[S -> Msg] : S \in SUBSET Nat}
    <3>1. <<>> \in [{} -> Msg] /\ {} \in SUBSET Nat
      OBVIOUS
    <3> QED
      BY <3>1
  <2>2. <<>> \in Seq(Call)
    OBVIOUS
  <2> QED
    BY <2>1, <2>2 DEF NoOp, OpRec
<1>3. Idle \in MtsRec
  BY DEF Idle, MtsRec
<1>4. \A o \in OpId : op[o] = NoOp
  BY <1>1
<1>5. <<>> # <<"result">> /\ Len(<<>>) = 0 /\ DOMAIN <<>> = {}
  OBVIOUS
<1>6. Typed
  <2>1. /\ <<>> \in Seq([kind : Kinds, op : Call]) /\ <<>> \in Seq({"result", "error", "failure"})
        /\ <<>> \in Seq(OpId)
        /\ <<>> \in Seq(OpId \X {"invoke", "resultCon", "errorCon", "failure"})
    OBVIOUS
  <2>2. 0 \in 0 .. MaxTries /\ 0 \in 0 .. MaxFaults
    BY DeliveryAssumption
  <2> QED
    BY <1>1, <1>2, <1>3, <2>1, <2>2 DEF Typed
<1>7. Served
  BY <1>1, <1>5, OutcomeFacts DEF Served
<1>8. MtsOK /\ AskedOK
  BY <1>1, DeliveryAssumption DEF MtsOK, AskedOK, Idle
<1>9. SeqOK
  <2>1. \A m \in Msg : \A t \in 1 .. MaxTries : seqOf[m][t] = 0 /\ tries[m] = 0
    BY <1>1
  <2>2. \A t \in 1 .. MaxTries : ~ (t <= 0)
    BY DeliveryAssumption
  <2> QED
    BY <1>1, <2>1, <2>2 DEF SeqOK
<1>10. Room
  <2> DEFINE R == {c \in Call : runs[c] = 1 /\ c[3] = 0}
  <2>1. R = {} /\ Begun = {}
    BY <1>1 DEF Begun, NoOp
  <2>2. Cardinality({}) = 0
    BY FS_EmptySet
  <2> QED
    BY <2>1, <2>2 DEF Room
<1>11. ActiveOK
  BY <1>1, <1>5, DeliveryAssumption DEF ActiveOK, NoOp, Live
<1>12. HeldOnce
  <2>1. ASSUME NEW o \in OpId, NEW c \in Call PROVE ~ Holds(o, c)
    BY <1>4, <1>5, CallParts DEF Holds, NoOp
  <2> QED
    BY <1>4, <1>5, <2>1 DEF HeldOnce, NoOp
<1>13. ASSUME NEW o \in OpId PROVE PendingOK(o) /\ SegsOK(o) /\ ~ Advanced(o)
  BY <1>4, <1>5 DEF PendingOK, SegsOK, Advanced, NoOp
<1>14. Confirmed
  BY <1>1, <1>5 DEF Confirmed
<1>15. Answers
  <2>1. {} # {"result"}
    OBVIOUS
  <2> QED
    BY <1>1, <2>1 DEF Answers
<1>16. ShownWhole /\ DeliveredHeld /\ AckedFinal
  BY <1>1 DEF ShownWhole, DeliveredHeld, AckedFinal
<1> QED
  BY <1>6, <1>7, <1>8, <1>9, <1>10, <1>11, <1>12, <1>13, <1>14, <1>15, <1>16
     DEF DeliveryInv, Begins, OneAdvances

\* What a step of the MTS does if it uses memory that was freed or never set.
LEMMA WildMts ==
    ASSUME DeliveryInv, ~ wild,
           mts_indication \/ MtsTransition \/ \E m \in Msg : mts_tryDelivery(m),
           wild'
    PROVE  /\ faults' \in 0 .. MaxFaults /\ wild' \in BOOLEAN
           /\ UNCHANGED <<mtsVars, esroVars, active, op, tasks, shown, acked>>
<1>0. wild \in BOOLEAN /\ faults \in 0 .. MaxFaults /\ MaxFaults \in Nat
  BY DeliveryAssumption DEF DeliveryInv, Typed
<1>1. NextSegment \/ Retry
  <2>1. UNCHANGED uaVars => wild' = wild
    BY DEF uaVars
  <2>2. mts_indication => UNCHANGED uaVars
    BY DEF mts_indication
  <2>3. ASSUME NEW m \in Msg, mts_tryDelivery(m) PROVE UNCHANGED uaVars
    <3>1. UNCHANGED <<status, uaVars>>
      BY <2>3, Zenon DEF mts_tryDelivery
    <3> QED
      BY <3>1
  <2>4. DeliverySucceeded => UNCHANGED uaVars
    BY DEF DeliverySucceeded
  <2>5. Reject => UNCHANGED uaVars
    BY DEF Reject
  <2>6. Respool => UNCHANGED uaVars
    BY DEF Respool
  <2>7. wild' # wild
    BY Zenon
  <2> QED
    BY <2>1, <2>2, <2>3, <2>4, <2>5, <2>6, <2>7 DEF MtsTransition
<1>2. CASE NextSegment
  <2>1. /\ Fault /\ wild' = TRUE /\ UNCHANGED <<esroVars, mts, pduVars>>
        /\ UNCHANGED <<status, tries, seqNo, seqOf, active, op, tasks, shown, acked>>
    BY <1>2 DEF NextSegment
  <2> QED
    BY <1>0, <2>1 DEF Fault, mtsVars
<1>3. CASE Retry
  <2>1. /\ wild' = TRUE /\ UNCHANGED <<esroVars, mts, spoilt, faults>>
        /\ UNCHANGED <<status, tries, seqNo, seqOf, skipped, active, op, tasks, shown, acked>>
    BY <1>3 DEF Retry
  <2> QED
    BY <1>0, <2>1 DEF mtsVars, pduVars
<1> QED
  BY <1>1, <1>2, <1>3

LEMMA DeliverySteps == DeliveryInv /\ [Next]_vars /\ skipped' = {} => DeliveryInv'
<1> SUFFICES ASSUME DeliveryInv, [Next]_vars, skipped' = {} PROVE DeliveryInv'
  OBVIOUS
<1>0. wild \in BOOLEAN /\ faults \in 0 .. MaxFaults /\ MaxFaults \in Nat
  BY DeliveryAssumption DEF DeliveryInv, Typed
<1>1. ASSUME ~ wild, mts_indication \/ MtsTransition \/ \E m \in Msg : mts_tryDelivery(m)
      PROVE  DeliveryInv'
  <2>1. CASE ~ wild'
    BY <1>1, <2>1, MtsKeeps, MtsFrameKeeps DEF DeliveryInv, MtsInv
  <2>2. CASE wild'
    BY <1>1, <2>2, WildMts, WildKeeps
  <2> QED
    BY <2>1, <2>2
<1>2. ASSUME NEW c \in Call, ua_invokeStale(c) PROVE DeliveryInv'
  <2>1. /\ wild' = TRUE /\ (faults' = faults \/ (faults < MaxFaults /\ faults' = faults + 1))
        /\ UNCHANGED <<esroVars, mtsVars, active, op, tasks, shown, acked>>
    BY <1>2 DEF ua_invokeStale, Fault, NoFault
  <2> QED
    BY <1>0, <2>1, WildKeeps
<1>3. ASSUME NEW c \in Call,
             ua_invokeIndication(c) \/ ua_invokeRefused(c) \/ ua_confirm(c)
      PROVE  DeliveryInv'
  BY <1>3, InvokedKeeps, RefusedKeeps, ConfirmKeeps
<1>4. ASSUME NEW o \in OpId, Transition(o) PROVE DeliveryInv'
  BY <1>4, ResultKeeps, ErrorKeeps, NextSegmentKeeps, FreeingKeeps, IdleKeeps DEF Transition
<1>5. ASSUME NEW o \in OpId, segmentationTimerExpired(o) PROVE DeliveryInv'
  BY <1>5, FreeingKeeps, IdleKeeps
<1>6. CASE UNCHANGED vars
  BY <1>0, <1>6, WildKeeps DEF vars, uaVars
<1> QED
  BY <1>1, <1>2, <1>3, <1>4, <1>5, <1>6 DEF Next

\* A segment that was skipped stays so.
LEMMA SkippedStays == [Next]_vars /\ skipped' = {} => skipped = {}
<1> SUFFICES ASSUME [Next]_vars, skipped' = {} PROVE skipped = {}
  OBVIOUS
<1>1. ASSUME NEW c, NEW r, NEW s, formatAndInvoke(c, r, s) PROVE skipped = {}
  <2>1. skipped' = skipped \/ skipped' = skipped \cup {<<c[1], c[3]>>}
    BY <1>1 DEF formatAndInvoke, pduVars
  <2> QED
    BY <2>1
<1>2. ASSUME NEW m \in Msg, mts_tryDelivery(m) PROVE skipped = {}
  BY <1>1, <1>2 DEF mts_tryDelivery
<1>3. CASE MtsTransition
  <2>1. NextSegment => skipped = {}
    BY <1>1 DEF NextSegment, pduVars
  <2> QED
    BY <1>3, <2>1 DEF MtsTransition, DeliverySucceeded, Reject, Retry, Respool, pduVars
<1>4. CASE mts_indication
  BY <1>4 DEF mts_indication, pduVars
<1>5. ASSUME UNCHANGED mtsVars PROVE skipped = {}
  BY <1>5 DEF mtsVars, pduVars
<1>6. ASSUME NEW c \in Call, \/ ua_invokeIndication(c) \/ ua_invokeRefused(c)
                             \/ ua_invokeStale(c) \/ ua_confirm(c)
      PROVE  UNCHANGED mtsVars
  BY <1>6 DEF ua_invokeIndication, ua_invokeRefused, ua_invokeStale, ua_confirm
<1>7. ASSUME NEW o \in OpId, Transition(o) \/ segmentationTimerExpired(o)
      PROVE  UNCHANGED mtsVars
  BY <1>7 DEF Transition, segmentationTimerExpired, aS1S2a, aS1S4a, aS2S1a, aS2S1b, aS2S1d,
              aS2S1e, aS2S2a, aS4S1a, aUnexpectedEvent, RunFreed, Task
<1>8. CASE UNCHANGED vars
  BY <1>5, <1>8 DEF vars
<1> QED
  BY <1>2, <1>3, <1>4, <1>5, <1>6, <1>7, <1>8 DEF Next

\* As long as no segment was skipped for want of a buffer, what the two sides
\* know of a delivery fits together at every moment: which segments the MTS has
\* sent and had answered, which operations of the UA hold them, and what the
\* shell was given.  (deliver.c, uperform.c, upreproc.c)
THEOREM DeliveryInvariant == Spec => [](skipped = {} => DeliveryInv)
<1>1. Init => (skipped = {} => DeliveryInv)
  BY DeliveryStarts
<1>2. (skipped = {} => DeliveryInv) /\ [Next]_vars => (skipped = {} => DeliveryInv)'
  BY DeliverySteps, SkippedStays
<1> QED
  BY <1>1, <1>2, PTL DEF Spec

\* As long as no segment was skipped: every variable keeps its type, the UA
\* never has more operations than concurrentOperationsInbound, and those that
\* are allocated are the ones in its queue of active operations
\* (ua_allocOperation, ua_freeOperation).
THEOREM DeliveryTypes == Spec => [](skipped = {} => DeliveryTypeOK)
<1>1. DeliveryInv => DeliveryTypeOK
  <2> SUFFICES ASSUME DeliveryInv PROVE DeliveryTypeOK
    OBVIOUS
  <2>1. Typed /\ MtsOK /\ ActiveOK
    BY DEF DeliveryInv
  <2>2. \A o \in OpId : op[o].st \in {"none", "free"} <=> ~ (op[o].st \in Live)
    BY <2>1, OpParts DEF Live
  <2>3. \A o \in OpId : op[o].st \in {"none", "free"} <=>
                           \A i \in 1 .. Len(active) : active[i] # o
    BY <2>1, <2>2 DEF ActiveOK
  <2>4. \A i \in 1 .. Len(tasks) : tasks[i][1] \in OpId
    BY <2>1 DEF Typed
  <2>5. mts.st \in {"idle", "wait", "blocked"} /\ mts.retryCount < MaxRetries
    BY <2>1 DEF Typed, MtsRec, MtsOK
  <2> QED
    BY <2>1, <2>3, <2>4, <2>5 DEF DeliveryTypeOK, Typed, ActiveOK
<1> QED
  BY <1>1, DeliveryInvariant, PTL

\* As long as no segment was skipped, aS1S2a hands the shell one message with
\* all of its segments, however the segments of different tries and messages
\* overtake one another, but for one put together with a segment that no message
\* has (upreproc.c finds the operation by its sequence id, and zero is one).
THEOREM WholeMessagesShown == Spec => [](skipped = {} => ShownWhole)
<1>1. DeliveryInv => ShownWhole
  BY DEF DeliveryInv
<1> QED
  BY <1>1, DeliveryInvariant, PTL

\* As long as no segment was skipped, the files of a message are deleted (aS2S1a
\* of deliver.c) only when the shell has been given the whole of it.
THEOREM DeliveredMessagesShown == Spec => [](skipped = {} => DeliveredShown)
<1>1. DeliveryInv => DeliveredShown
  BY DEF DeliveryInv, DeliveredHeld, DeliveredShown
<1> QED
  BY <1>1, DeliveryInvariant, PTL

\* As long as no segment was skipped: when the user is told that the MTS knows
\* of the delivery (aS2S1a of uperform.c), the MTS has had the result for the
\* last segment, and will not send the message again.
THEOREM AckedMessagesFinal == Spec => [](skipped = {} => AckedFinal)
<1>1. DeliveryInv => AckedFinal
  BY DEF DeliveryInv
<1> QED
  BY <1>1, DeliveryInvariant, PTL

=============================================================================
