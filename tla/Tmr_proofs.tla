----------------------------- MODULE Tmr_proofs -----------------------------
(***************************************************************************)
(* Theorems about the timer queue.  What it promises of the order of the   *)
(* timers it keeps as long as the clock does not wrap around; the types,   *)
(* and that a handle names one timer, whatever the clock does.             *)
(***************************************************************************)
EXTENDS Tmr, SequenceTheorems, FiniteSetTheorems, WellFoundedInduction, TLAPS

-----------------------------------------------------------------------------
(* The operators the queue is built from.                                  *)

\* The first of some positions.
LEMMA FirstPosition ==
    ASSUME NEW P \in SUBSET Nat, P # {}
    PROVE  \E i \in P : \A j \in Nat : j < i => j \notin P
<1> DEFINE R == {ss \in Nat \X Nat : ss[1] < ss[2]}
<1>1. IsWellFoundedOn(R, Nat)
  BY NatLessThanWellFounded, Zenon DEF OpToRel
<1>2. PICK i \in P : \A j \in P : ~ (<<j, i>> \in R)
  BY <1>1, WFMin, Zenon
<1>3. ASSUME NEW j \in P PROVE ~ (j < i)
  <2>1. j \in Nat /\ i \in Nat /\ ~ (<<j, i>> \in R)
    BY <1>2
  <2> QED
    BY <2>1
<1> QED
  BY <1>3

\* InsertAt puts the new element in its place and moves the later ones.
LEMMA Inserted ==
    ASSUME NEW S, NEW q \in Seq(S), NEW e \in S, NEW p \in 1 .. Len(q) + 1
    PROVE  /\ InsertAt(q, p, e) \in Seq(S)
           /\ Len(InsertAt(q, p, e)) = Len(q) + 1
           /\ \A i \in 1 .. Len(q) + 1 :
                InsertAt(q, p, e)[i] =
                  IF i < p THEN q[i] ELSE IF i = p THEN e ELSE q[i - 1]
<1> DEFINE a == SubSeq(q, 1, p - 1)
           b == SubSeq(q, p, Len(q))
<1>0. Len(q) \in Nat /\ p \in Nat /\ p >= 1 /\ p <= Len(q) + 1
  OBVIOUS
<1>1. /\ a \in Seq(S) /\ Len(a) = p - 1
      /\ \A i \in 1 .. p - 1 : a[i] = q[i]
  <2>1. \A i \in 1 .. p - 1 : q[i] \in S
    BY <1>0
  <2>2. /\ a \in Seq(S)
        /\ Len(a) = IF 1 <= p - 1 THEN (p - 1) - 1 + 1 ELSE 0
        /\ \A i \in 1 .. (p - 1) - 1 + 1 : a[i] = q[1 + i - 1]
    BY <1>0, <2>1, SubSeqProperties
  <2> QED
    BY <1>0, <2>2
<1>2. /\ b \in Seq(S) /\ Len(b) = Len(q) - p + 1
      /\ \A i \in 1 .. Len(q) - p + 1 : b[i] = q[p + i - 1]
  <2>1. \A i \in p .. Len(q) : q[i] \in S
    BY <1>0
  <2>2. /\ b \in Seq(S)
        /\ Len(b) = IF p <= Len(q) THEN Len(q) - p + 1 ELSE 0
        /\ \A i \in 1 .. Len(q) - p + 1 : b[i] = q[p + i - 1]
    BY <1>0, <2>1, SubSeqProperties
  <2> QED
    BY <1>0, <2>2
<1>3. InsertAt(q, p, e) = a \o <<e>> \o b
  BY DEF InsertAt
<1> HIDE DEF a, b
<1>4. PICK c : c = a \o <<e>>
  OBVIOUS
<1>5. /\ c \in Seq(S) /\ Len(c) = p
      /\ \A i \in 1 .. p : c[i] = IF i < p THEN q[i] ELSE e
  BY <1>0, <1>1, <1>4
<1>6. PICK r : r = c \o b
  OBVIOUS
<1>7. /\ r \in Seq(S) /\ Len(r) = Len(q) + 1
      /\ \A i \in 1 .. p : r[i] = c[i]
      /\ \A i \in p + 1 .. Len(q) + 1 : r[i] = b[i - p]
  BY <1>0, <1>2, <1>5, <1>6
<1>8. \A i \in p + 1 .. Len(q) + 1 :
        i - p \in 1 .. Len(q) - p + 1 /\ p + (i - p) - 1 = i - 1
  BY <1>0
<1>9. \A i \in 1 .. Len(q) + 1 :
        r[i] = IF i < p THEN q[i] ELSE IF i = p THEN e ELSE q[i - 1]
  BY <1>0, <1>2, <1>5, <1>7, <1>8
<1> QED
  BY <1>3, <1>4, <1>6, <1>7, <1>9

\* RemoveAt closes the gap.
LEMMA Removed ==
    ASSUME NEW S, NEW q \in Seq(S), NEW p \in 1 .. Len(q)
    PROVE  /\ RemoveAt(q, p) \in Seq(S)
           /\ Len(RemoveAt(q, p)) = Len(q) - 1
           /\ \A i \in 1 .. Len(q) - 1 :
                RemoveAt(q, p)[i] = IF i < p THEN q[i] ELSE q[i + 1]
<1> DEFINE a == SubSeq(q, 1, p - 1)
           b == SubSeq(q, p + 1, Len(q))
<1>0. Len(q) \in Nat /\ p \in Nat /\ p >= 1 /\ p <= Len(q)
  OBVIOUS
<1>1. /\ a \in Seq(S) /\ Len(a) = p - 1
      /\ \A i \in 1 .. p - 1 : a[i] = q[i]
  <2>1. \A i \in 1 .. p - 1 : q[i] \in S
    BY <1>0
  <2>2. /\ a \in Seq(S)
        /\ Len(a) = IF 1 <= p - 1 THEN (p - 1) - 1 + 1 ELSE 0
        /\ \A i \in 1 .. (p - 1) - 1 + 1 : a[i] = q[1 + i - 1]
    BY <1>0, <2>1, SubSeqProperties
  <2> QED
    BY <1>0, <2>2
<1>2. /\ b \in Seq(S) /\ Len(b) = Len(q) - p
      /\ \A i \in 1 .. Len(q) - p : b[i] = q[p + i]
  <2>1. \A i \in p + 1 .. Len(q) : q[i] \in S
    BY <1>0
  <2>2. /\ b \in Seq(S)
        /\ Len(b) = IF p + 1 <= Len(q) THEN Len(q) - (p + 1) + 1 ELSE 0
        /\ \A i \in 1 .. Len(q) - (p + 1) + 1 : b[i] = q[(p + 1) + i - 1]
    BY <1>0, <2>1, SubSeqProperties
  <2>3. \A i \in 1 .. Len(q) - p :
          i \in 1 .. Len(q) - (p + 1) + 1 /\ (p + 1) + i - 1 = p + i
    BY <1>0
  <2> QED
    BY <1>0, <2>2, <2>3
<1>3. RemoveAt(q, p) = a \o b
  BY DEF RemoveAt
<1> HIDE DEF a, b
<1>4. PICK r, k : r = a \o b /\ k = p - 1
  OBVIOUS
<1>5. /\ r \in Seq(S) /\ Len(r) = Len(q) - 1
      /\ \A i \in 1 .. k : r[i] = a[i]
      /\ \A i \in k + 1 .. Len(q) - 1 : r[i] = b[i - k]
  <2>1. k \in Nat /\ Len(a) = k /\ Len(b) = Len(q) - 1 - k
    BY <1>0, <1>1, <1>2, <1>4
  <2>2. /\ r \in Seq(S) /\ Len(r) = Len(a) + Len(b)
        /\ \A i \in 1 .. Len(a) + Len(b) :
             r[i] = IF i <= Len(a) THEN a[i] ELSE b[i - Len(a)]
    BY <1>1, <1>2, <1>4, ConcatProperties
  <2>3. Len(a) + Len(b) = Len(q) - 1
    BY <1>0, <2>1
  <2>4. \A i \in 1 .. k : i \in 1 .. Len(a) + Len(b) /\ i <= Len(a)
    BY <1>0, <1>4, <2>1, <2>3
  <2>5. \A i \in k + 1 .. Len(q) - 1 :
          i \in 1 .. Len(a) + Len(b) /\ ~ (i <= Len(a))
    BY <1>0, <2>1, <2>3
  <2> QED
    BY <2>1, <2>2, <2>3, <2>4, <2>5
<1>6. \A i \in k + 1 .. Len(q) - 1 :
        i - k \in 1 .. Len(q) - p /\ p + (i - k) = i + 1
  BY <1>0, <1>4
<1>7. ASSUME NEW i \in 1 .. Len(q) - 1
      PROVE  r[i] = IF i < p THEN q[i] ELSE q[i + 1]
  <2>1. CASE i < p
    <3>1. i \in 1 .. k /\ i \in 1 .. p - 1
      BY <1>0, <1>4, <2>1
    <3> QED
      BY <1>1, <1>5, <2>1, <3>1
  <2>2. CASE ~ (i < p)
    <3>1. i \in k + 1 .. Len(q) - 1
      BY <1>0, <1>4, <2>2
    <3> QED
      BY <1>2, <1>5, <1>6, <2>2, <3>1
  <2> QED
    BY <2>1, <2>2
<1> QED
  BY <1>3, <1>4, <1>5, <1>7

-----------------------------------------------------------------------------
(* Types.                                                                  *)

Entry == [handle : Handle, expiryTime : 0 .. Modulus - 1, due : Nat]

\* A handle names one timer: what TmrTypeOK says with the number of positions.
Distinct ==
    \A i, j \in 1 .. Len(queue) : i # j => queue[i].handle # queue[j].handle

TmrInv ==
    /\ now \in 0 .. Horizon
    /\ queue \in Seq(Entry)
    /\ Distinct
    /\ polling \in BOOLEAN
    /\ timeNow \in Nat /\ timeNow <= now
    /\ last \in [due : Nat, at : Nat]

\* The invariant says what is wanted of the types.
LEMMA InvTyped == TmrInv => TmrTypeOK
<1> SUFFICES ASSUME TmrInv PROVE TmrTypeOK
  OBVIOUS
<1>1. ASSUME NEW h \in Handle PROVE Cardinality(PositionOf(h)) <= 1
  <2>1. CASE PositionOf(h) = {}
    BY <2>1, FS_EmptySet
  <2>2. CASE PositionOf(h) # {}
    <3>1. PICK i : i \in PositionOf(h)
      BY <2>2
    <3>2. PositionOf(h) = {i}
      BY <3>1 DEF PositionOf, TmrInv, Distinct
    <3>3. Cardinality({i}) = 1
      BY FS_Singleton
    <3> QED
      BY <3>2, <3>3
  <2> QED
    BY <2>1, <2>2
<1> QED
  BY <1>1 DEF TmrInv, TmrTypeOK, Entry

\* TMR_start's loop stops in the queue or at its end.
LEMMA InsertPositionFound ==
    ASSUME TmrInv, NEW expiry \in Nat
    PROVE  LET p == InsertPosition(expiry)
           IN  /\ p \in 1 .. Len(queue) + 1
               /\ p <= Len(queue) => queue[p].expiryTime > expiry
               /\ \A j \in 1 .. p - 1 : queue[j].expiryTime <= expiry
<1> DEFINE Stops(i) ==
             /\ i <= Len(queue) => queue[i].expiryTime > expiry
             /\ \A j \in 1 .. i - 1 : queue[j].expiryTime <= expiry
           P == {i \in 1 .. Len(queue) : queue[i].expiryTime > expiry}
<1>1. /\ Len(queue) \in Nat
      /\ \A i \in 1 .. Len(queue) : queue[i].expiryTime \in Int
  <2>1. queue \in Seq(Entry)
    BY DEF TmrInv
  <2>2. \A i \in 1 .. Len(queue) : queue[i] \in Entry
    BY <2>1
  <2>3. \A e \in Entry : e.expiryTime \in Int
    BY TmrAssumption DEF Entry
  <2> QED
    BY <2>1, <2>2, <2>3
<1>2. \E i \in 1 .. Len(queue) + 1 : Stops(i)
  <2>1. CASE P = {}
    <3>1. \A j \in 1 .. Len(queue) : queue[j].expiryTime <= expiry
      BY <1>1, <2>1
    <3>2. Stops(Len(queue) + 1)
      BY <1>1, <3>1
    <3> QED
      BY <1>1, <3>2
  <2>2. CASE P # {}
    <3>1. P \in SUBSET Nat
      OBVIOUS
    <3>2. PICK i \in P : \A j \in Nat : j < i => j \notin P
      <4> HIDE DEF P
      <4> QED
        BY <2>2, <3>1, FirstPosition
    <3>3. \A j \in 1 .. i - 1 : j \in 1 .. Len(queue) /\ j \in Nat /\ j < i
      BY <1>1, <3>2
    <3>4. \A j \in 1 .. i - 1 : queue[j].expiryTime <= expiry
      BY <1>1, <3>2, <3>3
    <3> QED
      BY <1>1, <3>2, <3>4
  <2> QED
    BY <2>1, <2>2
<1>3. InsertPosition(expiry) = CHOOSE i \in 1 .. Len(queue) + 1 : Stops(i)
  BY DEF InsertPosition
<1>4. InsertPosition(expiry) \in 1 .. Len(queue) + 1 /\ Stops(InsertPosition(expiry))
  <2> HIDE DEF Stops
  <2> QED
    BY <1>2, <1>3
<1> QED
  BY <1>4

-----------------------------------------------------------------------------
(* What a step makes of the queue.                                         *)

\* The element at position p goes.
Dropped(p) ==
    /\ p \in 1 .. Len(queue)
    /\ queue' \in Seq(Entry) /\ Len(queue') = Len(queue) - 1
    /\ \A i \in 1 .. Len(queue) - 1 :
         queue'[i] = IF i < p THEN queue[i] ELSE queue[i + 1]

\* The timer e comes in at position p, where TMR_start's loop stops.
Entered(p, e) ==
    /\ e \in Entry /\ p \in 1 .. Len(queue) + 1
    /\ p <= Len(queue) => queue[p].expiryTime > e.expiryTime
    /\ \A j \in 1 .. p - 1 : queue[j].expiryTime <= e.expiryTime
    /\ \A i \in 1 .. Len(queue) : queue[i].handle # e.handle
    /\ queue' \in Seq(Entry) /\ Len(queue') = Len(queue) + 1
    /\ \A i \in 1 .. Len(queue) + 1 :
         queue'[i] = IF i < p THEN queue[i]
                     ELSE IF i = p THEN e ELSE queue[i - 1]

\* The clock reads less than its modulus, and what really passed until then.
LEMMA ClockRange ==
    ASSUME NEW t \in Nat
    PROVE  t % Modulus \in 0 .. Modulus - 1 /\ (t < Modulus => t % Modulus = t)
BY TmrAssumption

\* TMR_start.
LEMMA Started ==
    ASSUME TmrInv, NEW h \in Handle, NEW ms \in Delay, Start(h, ms)
    PROVE  \E p, e : /\ Entered(p, e) /\ e.due = now + ms
                     /\ e.expiryTime = (currentTime(now) + ms) % Modulus
<1>1. now \in Nat /\ ms \in Nat /\ queue \in Seq(Entry)
  BY TmrAssumption DEF TmrInv
<1>2. PICK expiry : expiry = (currentTime(now) + ms) % Modulus
  OBVIOUS
<1>3. expiry \in 0 .. Modulus - 1 /\ expiry \in Nat
  <2>1. currentTime(now) \in Nat
    BY <1>1, ClockRange, TmrAssumption DEF currentTime
  <2>2. currentTime(now) + ms \in Nat
    BY <1>1, <2>1
  <2> QED
    BY <1>2, <2>2, ClockRange, TmrAssumption
<1>4. PICK e : e = [handle |-> h, expiryTime |-> expiry, due |-> now + ms]
  OBVIOUS
<1>5. /\ e \in Entry /\ e.handle = h /\ e.expiryTime = expiry
      /\ e.due = now + ms
  BY <1>1, <1>3, <1>4 DEF Entry
<1>6. PICK p : p = InsertPosition(expiry)
  OBVIOUS
<1>7. /\ p \in 1 .. Len(queue) + 1
      /\ p <= Len(queue) => queue[p].expiryTime > expiry
      /\ \A j \in 1 .. p - 1 : queue[j].expiryTime <= expiry
  BY <1>3, <1>6, InsertPositionFound
<1>8. queue' = InsertAt(queue, p, e)
  BY <1>2, <1>4, <1>6 DEF Start
<1>9. \A i \in 1 .. Len(queue) : queue[i].handle # h
  BY DEF Start, Obtained, PositionOf
<1>10. Entered(p, e)
  BY <1>1, <1>5, <1>7, <1>8, <1>9, Inserted, SMTT(40) DEF Entered
<1> QED
  BY <1>2, <1>5, <1>10

\* TMR_stop.
LEMMA Stopped ==
    ASSUME TmrInv, NEW h \in Handle, Stop(h)
    PROVE  \E p : Dropped(p)
<1>1. PICK p \in 1 .. Len(queue) : queue' = RemoveAt(queue, p)
  BY DEF Stop, PositionOf
<1>2. queue \in Seq(Entry)
  BY DEF TmrInv
<1>3. Dropped(p)
  BY <1>1, <1>2, Removed DEF Dropped
<1> QED
  BY <1>3

\* TMR_processQueue takes the head.
LEMMA Polled ==
    ASSUME TmrInv, PollFire
    PROVE  /\ Dropped(1) /\ Head(queue) = queue[1] /\ queue[1] \in Entry
           /\ queue[1].expiryTime <= currentTime(timeNow)
<1>1. queue \in Seq(Entry) /\ queue # <<>> /\ queue' = Tail(queue)
  BY DEF TmrInv, PollFire, HeadExpired
<1>2. Head(queue) = queue[1] /\ queue[1] \in Entry /\ 1 \in 1 .. Len(queue)
  BY <1>1
<1>3. /\ Tail(queue) \in Seq(Entry) /\ Len(Tail(queue)) = Len(queue) - 1
      /\ \A i \in 1 .. Len(queue) - 1 : Tail(queue)[i] = queue[i + 1]
  BY <1>1
<1>4. \A i \in 1 .. Len(queue) - 1 : ~ (i < 1)
  BY <1>1
<1> QED
  BY <1>1, <1>2, <1>3, <1>4 DEF Dropped, PollFire, HeadExpired

\* An element of the new queue was in the old one, in the same order.
LEMMA DroppedFrom ==
    ASSUME TmrInv, NEW p, Dropped(p)
    PROVE  \A i \in 1 .. Len(queue') :
             LET k == IF i < p THEN i ELSE i + 1
             IN  /\ k \in 1 .. Len(queue) /\ queue'[i] = queue[k]
                 /\ \A j \in 1 .. Len(queue') :
                      i < j => k < (IF j < p THEN j ELSE j + 1)
<1>1. Len(queue) \in Nat
  BY DEF TmrInv
<1> QED
  BY <1>1 DEF Dropped

\* Taking a timer out keeps the handles distinct.
LEMMA DroppedDistinct ==
    ASSUME TmrInv, NEW p, Dropped(p)
    PROVE  Distinct'
<1> SUFFICES ASSUME NEW i \in 1 .. Len(queue'), NEW j \in 1 .. Len(queue'), i # j
             PROVE  queue'[i].handle # queue'[j].handle
  BY DEF Distinct
<1>1. PICK k, l : /\ k = (IF i < p THEN i ELSE i + 1)
                  /\ l = (IF j < p THEN j ELSE j + 1)
  OBVIOUS
<1>2. /\ k \in 1 .. Len(queue) /\ l \in 1 .. Len(queue)
      /\ queue'[i] = queue[k] /\ queue'[j] = queue[l]
      /\ i < j => k < l
      /\ j < i => l < k
  BY <1>1, DroppedFrom
<1>3. k # l
  BY <1>2
<1> QED
  BY <1>2, <1>3 DEF TmrInv, Distinct

\* So does putting in a timer whose handle no queued one has.
LEMMA EnteredDistinct ==
    ASSUME TmrInv, NEW p, NEW e, Entered(p, e)
    PROVE  Distinct'
<1>0. Len(queue) \in Nat
  BY DEF TmrInv
<1>1. ASSUME NEW i \in 1 .. Len(queue'), i # p
      PROVE  \E k \in 1 .. Len(queue) :
               /\ queue'[i] = queue[k] /\ (i < p => k = i) /\ (i > p => k = i - 1)
  <2>1. CASE i < p
    <3>1. i \in 1 .. Len(queue) /\ i \in 1 .. Len(queue) + 1 /\ ~ (i > p)
      BY <1>0, <2>1 DEF Entered
    <3> QED
      BY <2>1, <3>1 DEF Entered
  <2>2. CASE i > p
    <3>1. i - 1 \in 1 .. Len(queue) /\ i \in 1 .. Len(queue) + 1 /\ ~ (i < p)
      BY <1>0, <2>2 DEF Entered
    <3> QED
      BY <1>1, <2>2, <3>1 DEF Entered
  <2> QED
    BY <1>0, <1>1, <2>1, <2>2 DEF Entered
<1>2. queue'[p] = e /\ p \in 1 .. Len(queue') /\ p \in Int
  BY <1>0 DEF Entered
<1> SUFFICES ASSUME NEW i \in 1 .. Len(queue'), NEW j \in 1 .. Len(queue'), i # j
             PROVE  queue'[i].handle # queue'[j].handle
  BY DEF Distinct
<1>3. CASE i = p
  <2>1. PICK l \in 1 .. Len(queue) : queue'[j] = queue[l]
    BY <1>1, <1>3
  <2> QED
    BY <1>2, <1>3, <2>1 DEF Entered
<1>4. CASE j = p
  <2>1. PICK k \in 1 .. Len(queue) : queue'[i] = queue[k]
    BY <1>1, <1>4
  <2> QED
    BY <1>2, <1>4, <2>1 DEF Entered
<1>5. CASE i # p /\ j # p
  <2>1. PICK k \in 1 .. Len(queue) :
          /\ queue'[i] = queue[k] /\ (i < p => k = i) /\ (i > p => k = i - 1)
    BY <1>1, <1>5
  <2>2. PICK l \in 1 .. Len(queue) :
          /\ queue'[j] = queue[l] /\ (j < p => l = j) /\ (j > p => l = j - 1)
    BY <1>1, <1>5
  <2>3. k # l
    BY <1>2, <1>5, <2>1, <2>2
  <2> QED
    BY <2>1, <2>2, <2>3 DEF TmrInv, Distinct
<1> QED
  BY <1>3, <1>4, <1>5

\* Every step preserves the types.
LEMMA TmrNextTyped == TmrInv /\ [TmrNext]_tmrVars => TmrInv'
<1> SUFFICES ASSUME TmrInv, [TmrNext]_tmrVars PROVE TmrInv'
  OBVIOUS
<1>0. Horizon \in Nat /\ now \in Nat
  BY TmrAssumption DEF TmrInv
<1>1. ASSUME UNCHANGED <<queue>> PROVE Distinct' /\ queue' \in Seq(Entry)
  BY <1>1 DEF TmrInv, Distinct
<1>2. CASE UNCHANGED tmrVars
  BY <1>1, <1>2 DEF TmrInv, tmrVars
<1>3. ASSUME NEW h \in Handle, NEW ms \in Delay, Start(h, ms) PROVE TmrInv'
  <2>1. PICK p, e : Entered(p, e)
    BY <1>3, Started
  <2>2. Distinct' /\ queue' \in Seq(Entry)
    BY <2>1, EnteredDistinct DEF Entered
  <2> QED
    BY <1>3, <2>2 DEF Start, TmrInv
<1>4. ASSUME NEW h \in Handle, Stop(h) PROVE TmrInv'
  <2>1. PICK p : Dropped(p)
    BY <1>4, Stopped
  <2>2. Distinct' /\ queue' \in Seq(Entry)
    BY <2>1, DroppedDistinct DEF Dropped
  <2> QED
    BY <1>4, <2>2 DEF Stop, TmrInv
<1>5. CASE PollBegin
  BY <1>0, <1>1, <1>5 DEF PollBegin, TmrInv
<1>6. CASE PollFire
  <2>1. Dropped(1) /\ Head(queue) = queue[1] /\ queue[1] \in Entry
    BY <1>6, Polled
  <2>2. Distinct' /\ queue' \in Seq(Entry)
    BY <2>1, DroppedDistinct DEF Dropped
  <2>3. last' \in [due : Nat, at : Nat]
    BY <1>0, <1>6, <2>1 DEF PollFire, Entry
  <2> QED
    BY <1>6, <2>2, <2>3 DEF PollFire, TmrInv
<1>7. CASE PollEnd
  BY <1>1, <1>7 DEF PollEnd, TmrInv
<1>8. CASE ClockTick
  BY <1>0, <1>1, <1>8 DEF ClockTick, TmrInv
<1> QED
  BY <1>2, <1>3, <1>4, <1>5, <1>6, <1>7, <1>8 DEF TmrNext

\* At the start the queue is empty.
LEMMA TmrInitTyped == TmrInit => TmrInv
<1> SUFFICES ASSUME TmrInit PROVE TmrInv
  OBVIOUS
<1>1. queue = <<>> /\ polling = FALSE /\ now = 0 /\ timeNow = 0
  BY DEF TmrInit
<1>2. queue \in Seq(Entry) /\ Distinct
  BY <1>1 DEF Distinct
<1>3. now \in 0 .. Horizon /\ timeNow \in Nat /\ timeNow <= now
  BY <1>1, TmrAssumption
<1>4. last \in [due : Nat, at : Nat]
  BY DEF TmrInit
<1>5. polling \in BOOLEAN
  BY <1>1
<1> QED
  BY <1>2, <1>3, <1>4, <1>5 DEF TmrInv

\* Type correctness of the timer queue, wrap-around of the clock included: a
\* handle names at most one queued timer, the one that TMR_stop takes out.
THEOREM TmrTypeCorrect == TmrSpec => []TmrTypeOK
<1>1. TmrInit => TmrInv
  BY TmrInitTyped
<1>2. TmrInv /\ [TmrNext]_tmrVars => TmrInv'
  BY TmrNextTyped
<1>3. TmrInv => TmrTypeOK
  BY InvTyped
<1> QED
  BY <1>1, <1>2, <1>3, PTL DEF TmrSpec

-----------------------------------------------------------------------------
(* The order of the timers.                                                *)

\* No instant considered, and no timer started then, is beyond the first
\* wrap-around of the clock (49 days of milliseconds).  Past it the comparison
\* of TMR_start is wrong and the properties below do not hold.
NoWrap ==
    Horizon < Modulus /\ \A ms \in Delay : Horizon + ms < Modulus

\* A timer's expiryTime is when it is due; the timers are queued in that order,
\* and all of them are due no sooner than the last one that fired.
OrderInv ==
    /\ \A i \in 1 .. Len(queue) : queue[i].expiryTime = queue[i].due
    /\ QueueTimeOrdered
    /\ \A i \in 1 .. Len(queue) : last.due <= queue[i].due
    /\ last.due <= timeNow /\ last.due <= last.at

\* Before the wrap-around the clock reads the time.
LEMMA ClockTrue ==
    ASSUME NoWrap, TmrInv
    PROVE  /\ currentTime(now) = now /\ currentTime(timeNow) = timeNow
           /\ \A ms \in Delay : (currentTime(now) + ms) % Modulus = now + ms
<1>1. now \in Nat /\ timeNow \in Nat /\ now < Modulus /\ timeNow < Modulus
  BY TmrAssumption DEF NoWrap, TmrInv
<1>2. currentTime(now) = now /\ currentTime(timeNow) = timeNow
  BY <1>1, ClockRange DEF currentTime
<1>3. ASSUME NEW ms \in Delay PROVE (now + ms) % Modulus = now + ms
  <2>1. now + ms \in Nat /\ now + ms < Modulus
    BY <1>1, TmrAssumption DEF NoWrap, TmrInv
  <2> QED
    BY <2>1, ClockRange
<1> QED
  BY <1>2, <1>3

\* A queued timer and its fields.
LEMMA EntryTyped ==
    ASSUME TmrInv, NEW i \in 1 .. Len(queue)
    PROVE  queue[i].due \in Nat /\ queue[i].expiryTime \in Int
<1>1. queue[i] \in Entry
  BY DEF TmrInv
<1> QED
  BY <1>1, TmrAssumption DEF Entry

\* Taking a timer out keeps the order.
LEMMA DroppedOrder ==
    ASSUME TmrInv, OrderInv, NEW p, Dropped(p)
    PROVE  /\ QueueTimeOrdered'
           /\ \A i \in 1 .. Len(queue') :
                /\ queue'[i].expiryTime = queue'[i].due
                /\ last.due <= queue'[i].due
                /\ \E k \in 1 .. Len(queue) :
                     queue'[i] = queue[k] /\ (p = 1 => 1 < k)
<1>1. QueueTimeOrdered'
  <2> SUFFICES ASSUME NEW i \in 1 .. Len(queue'), NEW j \in 1 .. Len(queue'), i < j
               PROVE  queue'[i].due <= queue'[j].due
    BY DEF QueueTimeOrdered
  <2>1. PICK k, l : /\ k = (IF i < p THEN i ELSE i + 1)
                    /\ l = (IF j < p THEN j ELSE j + 1)
    OBVIOUS
  <2>2. /\ k \in 1 .. Len(queue) /\ l \in 1 .. Len(queue) /\ k < l
        /\ queue'[i] = queue[k] /\ queue'[j] = queue[l]
    BY <2>1, DroppedFrom
  <2> QED
    BY <2>2 DEF OrderInv, QueueTimeOrdered
<1>2. ASSUME NEW i \in 1 .. Len(queue')
      PROVE  \E k \in 1 .. Len(queue) : queue'[i] = queue[k] /\ (p = 1 => 1 < k)
  <2>1. PICK k : k = (IF i < p THEN i ELSE i + 1)
    OBVIOUS
  <2>2. k \in 1 .. Len(queue) /\ queue'[i] = queue[k]
    BY <2>1, DroppedFrom
  <2>3. p = 1 => 1 < k
    BY <2>1
  <2> QED
    BY <2>2, <2>3
<1> QED
  BY <1>1, <1>2 DEF OrderInv

\* TMR_start keeps it: what stands before the new timer expires no later, and
\* what stands behind it no sooner than the one where the loop stopped.
LEMMA EnteredOrder ==
    ASSUME TmrInv, OrderInv, NEW p, NEW e, Entered(p, e),
           e.expiryTime = e.due, last.due <= e.due
    PROVE  /\ QueueTimeOrdered'
           /\ \A i \in 1 .. Len(queue') :
                /\ queue'[i].expiryTime = queue'[i].due
                /\ last.due <= queue'[i].due
<1>0. Len(queue) \in Nat /\ p \in Nat /\ e.due \in Nat
  BY DEF TmrInv, Entered, Entry
<1>1. ASSUME NEW i \in 1 .. Len(queue'), i # p
      PROVE  \E k \in 1 .. Len(queue) :
               /\ queue'[i] = queue[k] /\ (i < p => k = i) /\ (i > p => k = i - 1)
  <2>1. CASE i < p
    <3>1. i \in 1 .. Len(queue) /\ i \in 1 .. Len(queue) + 1 /\ ~ (i > p)
      BY <1>0, <2>1 DEF Entered
    <3> QED
      BY <2>1, <3>1 DEF Entered
  <2>2. CASE i > p
    <3>1. i - 1 \in 1 .. Len(queue) /\ i \in 1 .. Len(queue) + 1 /\ ~ (i < p)
      BY <1>0, <2>2 DEF Entered
    <3> QED
      BY <1>1, <2>2, <3>1 DEF Entered
  <2> QED
    BY <1>0, <1>1, <2>1, <2>2 DEF Entered
<1>2. queue'[p] = e
  BY <1>0 DEF Entered
<1>3. \A k \in 1 .. Len(queue) : k < p => queue[k].due <= e.due
  <2>1. \A k \in 1 .. Len(queue) : k < p => k \in 1 .. p - 1
    BY <1>0
  <2> QED
    BY <2>1 DEF Entered, OrderInv
<1>4. ASSUME NEW k \in 1 .. Len(queue), k >= p PROVE e.due <= queue[k].due
  <2>1. p \in 1 .. Len(queue)
    BY <1>0, <1>4 DEF Entered
  <2>2. e.due < queue[p].due
    BY <2>1 DEF Entered, OrderInv
  <2>3. queue[p].due <= queue[k].due
    <3>1. CASE k = p
      BY <2>1, <3>1, EntryTyped
    <3>2. CASE k # p
      <4>1. p < k
        BY <1>0, <1>4, <3>2
      <4> QED
        BY <2>1, <4>1 DEF OrderInv, QueueTimeOrdered
    <3> QED
      BY <3>1, <3>2
  <2>4. queue[p].due \in Nat /\ queue[k].due \in Nat
    BY <2>1, EntryTyped
  <2> QED
    BY <1>0, <2>2, <2>3, <2>4
<1>5. QueueTimeOrdered'
  <2> SUFFICES ASSUME NEW i \in 1 .. Len(queue'), NEW j \in 1 .. Len(queue'), i < j
               PROVE  queue'[i].due <= queue'[j].due
    BY DEF QueueTimeOrdered
  <2>1. CASE i = p
    <3>1. PICK l \in 1 .. Len(queue) : queue'[j] = queue[l] /\ (j > p => l = j - 1)
      BY <1>1, <2>1
    <3>2. l >= p
      BY <1>0, <2>1, <3>1
    <3> QED
      BY <1>2, <1>4, <2>1, <3>1, <3>2
  <2>2. CASE j = p
    <3>1. PICK k \in 1 .. Len(queue) : queue'[i] = queue[k] /\ (i < p => k = i)
      BY <1>1, <2>2
    <3>2. k < p
      BY <2>2, <3>1
    <3> QED
      BY <1>2, <1>3, <2>2, <3>1, <3>2
  <2>3. CASE i # p /\ j # p
    <3>1. PICK k \in 1 .. Len(queue) :
            /\ queue'[i] = queue[k] /\ (i < p => k = i) /\ (i > p => k = i - 1)
      BY <1>1, <2>3
    <3>2. PICK l \in 1 .. Len(queue) :
            /\ queue'[j] = queue[l] /\ (j < p => l = j) /\ (j > p => l = j - 1)
      BY <1>1, <2>3
    <3>3. k < l
      BY <1>0, <2>3, <3>1, <3>2
    <3> QED
      BY <3>1, <3>2, <3>3 DEF OrderInv, QueueTimeOrdered
  <2> QED
    BY <2>1, <2>2, <2>3
<1>6. ASSUME NEW i \in 1 .. Len(queue')
      PROVE  queue'[i].expiryTime = queue'[i].due /\ last.due <= queue'[i].due
  <2>1. CASE i = p
    BY <1>2, <2>1
  <2>2. CASE i # p
    BY <1>1, <2>2 DEF OrderInv
  <2> QED
    BY <2>1, <2>2
<1> QED
  BY <1>5, <1>6

\* The timer that fires: due when the clock was read, and no later than any
\* timer still queued.
LEMMA FiredDue ==
    ASSUME NoWrap, TmrInv, OrderInv, PollFire
    PROVE  /\ last'.due = queue[1].due /\ last'.at = now
           /\ last.due <= last'.due /\ last'.due <= timeNow
           /\ \A i \in 1 .. Len(queue') : last'.due <= queue'[i].due
<1>1. /\ Dropped(1) /\ Head(queue) = queue[1]
      /\ queue[1].expiryTime <= currentTime(timeNow)
  BY Polled
<1>2. 1 \in 1 .. Len(queue)
  BY <1>1 DEF Dropped
<1>3. last'.due = queue[1].due /\ last'.at = now
  BY <1>1 DEF PollFire
<1>4. queue[1].due <= timeNow /\ last.due <= queue[1].due
  BY <1>1, <1>2, ClockTrue DEF OrderInv
<1>5. ASSUME NEW i \in 1 .. Len(queue') PROVE queue[1].due <= queue'[i].due
  <2>1. PICK k \in 1 .. Len(queue) : queue'[i] = queue[k] /\ 1 < k
    BY <1>1, DroppedOrder
  <2> QED
    BY <1>2, <2>1 DEF OrderInv, QueueTimeOrdered
<1> QED
  BY <1>3, <1>4, <1>5

\* Every step keeps the order.
LEMMA NextOrder ==
    ASSUME NoWrap, TmrInv, OrderInv, [TmrNext]_tmrVars
    PROVE  OrderInv'
<1>0. /\ now \in Nat /\ timeNow \in Nat /\ timeNow <= now
      /\ last.due \in Nat /\ last.at \in Nat
  BY DEF TmrInv
<1>1. ASSUME queue' = queue, last' = last, timeNow' \in Nat, timeNow <= timeNow'
      PROVE  OrderInv'
  BY <1>0, <1>1 DEF OrderInv, QueueTimeOrdered
<1>2. CASE UNCHANGED tmrVars
  BY <1>0, <1>1, <1>2 DEF tmrVars
<1>3. ASSUME NEW h \in Handle, NEW ms \in Delay, Start(h, ms) PROVE OrderInv'
  <2>1. PICK p, e : /\ Entered(p, e) /\ e.due = now + ms
                    /\ e.expiryTime = (currentTime(now) + ms) % Modulus
    BY <1>3, Started
  <2>2. e.expiryTime = e.due
    BY <2>1, ClockTrue
  <2>3. last.due <= e.due
    <3>1. ms \in Nat
      BY TmrAssumption
    <3> QED
      BY <1>0, <2>1, <3>1 DEF OrderInv
  <2>4. UNCHANGED <<last, timeNow>>
    BY <1>3 DEF Start
  <2> QED
    BY <2>1, <2>2, <2>3, <2>4, EnteredOrder DEF OrderInv
<1>4. ASSUME NEW h \in Handle, Stop(h) PROVE OrderInv'
  <2>1. PICK p : Dropped(p)
    BY <1>4, Stopped
  <2>2. UNCHANGED <<last, timeNow>>
    BY <1>4 DEF Stop
  <2> QED
    BY <2>1, <2>2, DroppedOrder DEF OrderInv
<1>5. CASE PollBegin
  BY <1>0, <1>1, <1>5 DEF PollBegin
<1>6. CASE PollFire
  <2>1. Dropped(1)
    BY <1>6, Polled
  <2>2. /\ last'.at = now /\ last'.due <= timeNow
        /\ \A i \in 1 .. Len(queue') : last'.due <= queue'[i].due
    BY <1>6, FiredDue
  <2>3. last'.due <= last'.at
    <3>1. last'.due \in Nat
      BY <1>6, TmrNextTyped DEF TmrNext, TmrInv
    <3> QED
      BY <1>0, <2>2, <3>1
  <2>4. timeNow' = timeNow
    BY <1>6 DEF PollFire
  <2>5. /\ QueueTimeOrdered'
        /\ \A i \in 1 .. Len(queue') : queue'[i].expiryTime = queue'[i].due
    BY <2>1, DroppedOrder
  <2> QED
    BY <2>2, <2>3, <2>4, <2>5 DEF OrderInv
<1>7. CASE PollEnd
  BY <1>0, <1>1, <1>7 DEF PollEnd
<1>8. CASE ClockTick
  BY <1>0, <1>1, <1>8 DEF ClockTick
<1> QED
  BY <1>2, <1>3, <1>4, <1>5, <1>6, <1>7, <1>8 DEF TmrNext

\* The invariant of the timer queue.
LEMMA AlwaysOrdered == ASSUME NoWrap PROVE TmrSpec => [](TmrInv /\ OrderInv)
<1>1. TmrInit => TmrInv /\ OrderInv
  <2>1. TmrInit => OrderInv
    BY DEF TmrInit, OrderInv, QueueTimeOrdered
  <2> QED
    BY <2>1, TmrInitTyped
<1>2. TmrInv /\ OrderInv /\ [TmrNext]_tmrVars => TmrInv' /\ OrderInv'
  BY TmrNextTyped, NextOrder
<1> QED
  BY <1>1, <1>2, PTL DEF TmrSpec

\* The timer queue is time-ordered, for any number of timers and any delays,
\* as long as the clock does not wrap around.
THEOREM QueueOrdered == ASSUME NoWrap PROVE TmrSpec => []QueueTimeOrdered
<1>1. TmrInv /\ OrderInv => QueueTimeOrdered
  BY DEF OrderInv
<1> QED
  BY <1>1, AlwaysOrdered, PTL

\* A call of TMR_processQueue that returns Success has called every handler
\* that was due when it read the clock.
THEOREM PollsComplete == ASSUME NoWrap PROVE TmrSpec => PollComplete
<1>1. ASSUME TmrInv, OrderInv, TmrNext,
             polling, ~ polling', last' = last, queue' = queue,
             NEW i \in 1 .. Len(queue)
      PROVE  queue[i].due > timeNow
  <2>1. ~ HeadExpired
    <3>1. ASSUME PollFire PROVE FALSE
      <4>1. Dropped(1)
        BY <1>1, <3>1, Polled
      <4>2. Len(queue') = Len(queue) - 1 /\ Len(queue) \in Nat
        BY <1>1, <4>1 DEF Dropped, TmrInv
      <4> QED
        BY <1>1, <4>2
    <3> QED
      BY <1>1, <3>1
      DEF TmrNext, Start, Stop, PollBegin, PollEnd, ClockTick
  <2>2. queue \in Seq(Entry) /\ 1 \in 1 .. Len(queue)
    BY <1>1 DEF TmrInv
  <2>3. queue # <<>> /\ Head(queue) = queue[1]
    BY <2>2
  <2>4. ~ (queue[1].expiryTime <= timeNow)
    BY <1>1, <2>1, <2>3, ClockTrue DEF HeadExpired
  <2>5. queue[1].due > timeNow
    BY <1>1, <2>2, <2>4, EntryTyped DEF OrderInv, TmrInv
  <2>6. queue[1].due <= queue[i].due
    <3>1. CASE i = 1
      BY <1>1, <2>2, <3>1, EntryTyped
    <3>2. CASE i # 1
      <4>1. 1 < i
        BY <1>1, <3>2
      <4> QED
        BY <1>1, <2>2, <4>1 DEF OrderInv, QueueTimeOrdered
    <3> QED
      BY <3>1, <3>2
  <2>7. queue[1].due \in Nat /\ queue[i].due \in Nat /\ timeNow \in Nat
    BY <1>1, <2>2, EntryTyped DEF TmrInv
  <2> QED
    BY <2>5, <2>6, <2>7
<1>2. TmrInv /\ OrderInv /\ [TmrNext]_tmrVars =>
        [polling /\ ~ polling' /\ last' = last /\ queue' = queue =>
           \A i \in 1 .. Len(queue) : queue[i].due > timeNow]_tmrVars
  BY <1>1
<1> QED
  BY <1>2, AlwaysOrdered, PTL DEF TmrSpec, PollComplete

\* Handlers are called in the order in which their timers are due, across
\* calls of TMR_processQueue, and none before its time.
THEOREM FiresInOrder == ASSUME NoWrap PROVE TmrSpec => FiredInOrder
<1>1. ASSUME TmrInv, OrderInv, TmrNext
      PROVE  last.due <= last'.due /\ last'.due <= last'.at
  <2>1. last.due \in Nat /\ OrderInv'
    BY <1>1, NextOrder DEF TmrInv
  <2>2. CASE PollFire
    BY <1>1, <2>1, <2>2, FiredDue DEF OrderInv
  <2>3. CASE ~ PollFire
    <3>1. last' = last
      BY <1>1, <2>3 DEF TmrNext, Start, Stop, PollBegin, PollEnd, ClockTick
    <3> QED
      BY <1>1, <2>1, <3>1 DEF OrderInv
  <2> QED
    BY <2>2, <2>3
<1>2. TmrInv /\ OrderInv /\ [TmrNext]_tmrVars =>
        [last.due <= last'.due /\ last'.due <= last'.at]_tmrVars
  BY <1>1
<1> QED
  BY <1>2, AlwaysOrdered, PTL DEF TmrSpec, FiredInOrder
=============================================================================
