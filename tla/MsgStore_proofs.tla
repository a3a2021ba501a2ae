-------------------------- MODULE MsgStore_proofs --------------------------
(***************************************************************************)
(* Theorems about the delivery queues of the message transfer system: for  *)
(* any messages, recipients and delays, and any number of restarts.        *)
(***************************************************************************)
EXTENDS MsgStore, SequenceTheorems, FiniteSetTheorems, WellFoundedInduction,
        TLAPS

-----------------------------------------------------------------------------
(* The inductive invariant.  An outcome that is entered in the cell of     *)
(* another message ends the behaviour, so that all but the types and the   *)
(* counts is stated as long as none was.                                   *)

\* What may become of a message.
Event == {"arrived", "unknown", "dropped", "ndr", "refused", "delivered",
          "misapplied", "lost"}

\* A message arrives for its recipients only, and is dropped for those that
\* msg_addMessage does not queue it for.
Records ==
    /\ told \subseteq Event \X Msg \X Recip
    /\ \A t \in told : t[1] = "arrived" => t[3] \in Addressed(t[2])
    /\ \A t \in told : t[1] = "dropped" =>
          t[3] \in (Addressed(t[2]) \cap Subscriber) \ Queued(t[2])

\* The cells of r that are not done with: linked, or freed under an operation
\* that is still to end.  The count of r covers both, and an outcome takes one
\* of them off.
InUse == used \cup {o.cell : o \in ops}
Counted(r) == {c \in InUse : cell[c].rcp = r /\ cell[c].completed = 0}
Covered == \A r \in Recip : Cardinality(Counted(r)) <= rq[r].count

\* The cells of a queue are allocated, in no other place and in no other queue.
Links ==
    /\ \A r \in Recip :
          /\ IsInjective(list[r])
          /\ \A c \in Linked(r) : c \in used /\ cell[c].rcp = r
    /\ used = UNION {Linked(r) : r \in Recip}

\* The messages of a queue are tried, completed and expire in their order.
Earlier(x, y) ==
    /\ y.status # "MQ_READY" => x.completed # 0
    /\ y.completed # 0 => x.completed <= y.completed
    /\ x.expiry <= y.expiry
Ordered ==
    \A r \in Recip : \A i, j \in 1 .. Len(list[r]) :
        i < j => Earlier(cell[list[r][i]], cell[list[r][j]])

\* A message is known to have arrived and is not in the directory any more.
Taken(m, r) == <<"arrived", m, r>> \in told /\ m \notin spool

\* An allocated cell: what its status says of its completion, of the operation
\* that sends it and of its queue.
CellOK(c) ==
    /\ cell[c].status # "MQ_UNDEFINED"
    /\ cell[c].completed <= now /\ cell[c].expiry <= now + Expiry
    /\ cell[c].status = "MQ_READY" => cell[c].completed = 0
    /\ cell[c].status = "MQ_SUCCEDED" => cell[c].completed # 0
    /\ cell[c].status = "MQ_DELIVERING" =>
          \E o \in ops : o.cell = c /\ Held(o) = <<o.msg, o.rcp>>
    /\ cell[c].status = "MQ_FAILED" /\ cell[c].completed # 0 =>
          /\ rq[cell[c].rcp].status = "RQ_DELIVERING"
          /\ \A o \in ops : o.rcp # cell[c].rcp
    /\ Taken(cell[c].msg, cell[c].rcp)

\* An operation: the only one of its recipient, whose queue waits for it.  The
\* cell, as long as it holds the message, waits for the outcome too, be it
\* freed or not.
OpOK(o) ==
    /\ rq[o.rcp].status = "RQ_DELIVERING"
    /\ \A p \in ops : p.rcp = o.rcp => p = o
    /\ Held(o) = <<o.msg, o.rcp>> =>
          cell[o.cell].status = "MQ_DELIVERING" /\ cell[o.cell].completed = 0
    /\ Taken(o.msg, o.rcp)

\* A message that arrived for a subscriber is accounted for: NotForgotten.
Settlement(m, r) ==
    \E event \in {"delivered", "ndr", "refused", "lost", "dropped"} :
        <<event, m, r>> \in told
InTime(c) == now <= cell[c].expiry + (IF polled THEN 0 ELSE 1)
Remembered(m, r) ==
    <<"arrived", m, r>> \in told =>
        \/ Settlement(m, r)
        \/ m \in spool
        \/ \E c \in Linked(r) :
              cell[c].msg = m /\ cell[c].completed = 0 /\ InTime(c)

Spooled == \A m \in spool : \A r \in Addressed(m) : <<"arrived", m, r>> \in told

QueueInv ==
    /\ Spooled
    /\ Links
    /\ Ordered
    /\ \A c \in used : CellOK(c)
    /\ \A o \in ops : OpOK(o)
    /\ \A m \in Msg, r \in Subscriber : Remembered(m, r)

StoreInv ==
    /\ StoreTypeOK /\ Records /\ Covered
    /\ Misapplied \/ QueueInv

-----------------------------------------------------------------------------
(* The operators the queues are built from.                                *)

CellRecord == [msg : Msg, rcp : Recip,
               status : {"MQ_UNDEFINED", "MQ_READY", "MQ_DELIVERING",
                         "MQ_FAILED", "MQ_SUCCEDED"},
               completed : Nat, expiry : Nat]
QueueRecord == [status : {"RQ_UNDEFINED", "RQ_READY", "RQ_DELIVERING"},
                count : Nat, nextAttempt : Nat]
OpRecord == [cell : Cell, rcp : Recip, msg : Msg,
             retryCount : 0 .. MaxRetries - 1, since : Nat]

\* The cells are finitely many, and there are some only if there are messages
\* and recipients.
LEMMA Cells ==
    /\ IsFiniteSet(Cell) /\ Cell \subseteq Nat
    /\ \A c \in Cell : NoCell \in CellRecord
<1>1. Cardinality(Msg) \in Nat /\ Cardinality(Recip) \in Nat
  BY StoreAssumption, FS_CardinalityType
<1> DEFINE n == Cardinality(Msg) * Cardinality(Recip)
<1>2. n \in Nat
  BY <1>1
<1>3. IsFiniteSet(1 .. n)
  BY <1>2, FS_Interval
<1>4. ASSUME NEW c \in Cell PROVE NoCell \in CellRecord
  <2>1. n # 0
    BY <1>2, <1>4 DEF Cell
  <2>2. Cardinality(Msg) # 0 /\ Cardinality(Recip) # 0
    BY <1>1, <2>1
  <2>3. Msg # {} /\ Recip # {}
    BY <2>2, FS_EmptySet
  <2> QED
    BY <2>3 DEF NoCell, CellRecord
<1> QED
  BY <1>2, <1>3, <1>4 DEF Cell

\* The least of some numbers.
LEMMA Least ==
    ASSUME NEW P \in SUBSET Nat, P # {}
    PROVE  Min(P) \in P /\ \A j \in P : Min(P) <= j
<1> DEFINE R == {ss \in Nat \X Nat : ss[1] < ss[2]}
<1>1. IsWellFoundedOn(R, Nat)
  BY NatLessThanWellFounded, Zenon DEF OpToRel
<1>2. PICK i \in P : \A j \in P : ~ (<<j, i>> \in R)
  BY <1>1, WFMin, Zenon
<1>3. ASSUME NEW j \in P PROVE i <= j
  <2>1. j \in Nat /\ i \in Nat /\ ~ (<<j, i>> \in R)
    BY <1>2
  <2> QED
    BY <2>1
<1> QED
  BY <1>3 DEF Min

\* A message is queued for subscribers its list names.
LEMMA Addresses ==
    ASSUME NEW m \in Msg
    PROVE  /\ Addressed(m) \subseteq Recip /\ Subscriber \subseteq Recip
           /\ Queued(m) \subseteq Addressed(m) \cap Subscriber
           /\ Queued(m) \subseteq Recip
<1>1. To[m] \in Seq(Recip) /\ Subscriber \subseteq Recip
  BY StoreAssumption
<1>2. \A i \in 1 .. Len(To[m]) : To[m][i] \in Recip
  BY <1>1
<1>3. Queued(m) \subseteq Addressed(m) \cap Subscriber
  BY DEF Queued, Addressed
<1> QED
  BY <1>1, <1>2, <1>3 DEF Addressed

\* A subscriber is left out only if the message is queued for as many as
\* msg_addMessage takes.
LEMMA DroppedFull ==
    ASSUME NEW m \in Msg,
           NEW r \in (Addressed(m) \cap Subscriber) \ Queued(m)
    PROVE  Cardinality(Queued(m)) = MaxRecips
<1> DEFINE s == To[m]
           n == Len(s)
           Ahead(j) == {k \in 1 .. j - 1 : s[k] \in Subscriber}
           P == {j \in 1 .. n : ~ Cardinality(Ahead(j)) < MaxRecips}
           J == {j \in 1 .. n : /\ s[j] \in Subscriber
                                /\ Cardinality(Ahead(j)) < MaxRecips}
<1>1. /\ s \in Seq(Recip) /\ n \in Nat /\ IsInjective(s)
      /\ MaxRecips \in Nat \ {0} /\ DOMAIN s = 1 .. n
  BY StoreAssumption
<1>2. ASSUME NEW j \in 1 .. n
      PROVE  IsFiniteSet(Ahead(j)) /\ Cardinality(Ahead(j)) \in Nat
  <2>1. IsFiniteSet(1 .. j - 1)
    BY <1>1, FS_Interval
  <2> QED
    BY <2>1, FS_Subset, FS_CardinalityType
<1>3. Queued(m) = {s[j] : j \in J}
  BY DEF Queued
<1>4. P # {}
  <2>1. PICK i \in 1 .. n : s[i] = r
    BY DEF Addressed
  <2>2. i \notin J
    BY <1>3, <2>1
  <2> QED
    BY <2>1, <2>2
<1> HIDE DEF s, n
<1>5. PICK j \in P : \A k \in P : j <= k
  <2>1. P \in SUBSET Nat
    BY <1>1
  <2> HIDE DEF P
  <2> QED
    BY <1>4, <2>1, Least
<1>6. j \in 1 .. n /\ ~ Cardinality(Ahead(j)) < MaxRecips
  BY <1>5
<1>7. ASSUME NEW k \in 1 .. n
      PROVE  k < j <=> Cardinality(Ahead(k)) < MaxRecips
  <2>1. CASE k < j
    <3>1. k \notin P
      BY <1>1, <1>5, <1>6, <2>1
    <3> QED
      BY <2>1, <3>1
  <2>2. CASE ~ k < j
    <3>1. Ahead(j) \subseteq Ahead(k)
      BY <1>1, <1>6, <2>2
    <3>2. Cardinality(Ahead(j)) <= Cardinality(Ahead(k))
      BY <1>2, <3>1, FS_Subset
    <3>3. Cardinality(Ahead(j)) \in Nat /\ Cardinality(Ahead(k)) \in Nat
      BY <1>2, <1>6
    <3> HIDE DEF Ahead
    <3> QED
      BY <1>1, <1>6, <2>2, <3>2, <3>3
  <2> QED
    BY <2>1, <2>2
<1>8. J = Ahead(j)
  <2>1. ASSUME NEW k \in J PROVE k \in Ahead(j)
    <3>1. k \in 1 .. n /\ s[k] \in Subscriber
      OBVIOUS
    <3>2. Cardinality(Ahead(k)) < MaxRecips
      OBVIOUS
    <3>3. k < j
      BY ONLY <1>7, <3>1, <3>2
    <3> QED
      BY ONLY <1>1, <1>6, <3>1, <3>3
  <2>2. ASSUME NEW k \in Ahead(j) PROVE k \in J
    <3>1. k \in 1 .. n /\ k < j /\ s[k] \in Subscriber
      BY <1>1, <1>6
    <3> QED
      BY <1>7, <3>1
  <2> QED
    BY <2>1, <2>2
\* The one at which the limit is passed follows the last that is queued.
<1>9. Cardinality(Ahead(j)) = MaxRecips
  <2>1. j # 1
    <3>1. ASSUME j = 1 PROVE Ahead(j) = {}
      BY <3>1
    <3>2. j = 1 => Cardinality(Ahead(j)) = 0
      BY <3>1, FS_EmptySet, Zenon
    <3> QED
      BY ONLY <1>1, <1>6, <3>2
  <2>2. j - 1 \in 1 .. n /\ j - 1 < j
    BY <1>1, <1>6, <2>1
  <2>3. Ahead(j) \subseteq Ahead(j - 1) \cup {j - 1}
    BY <1>1, <1>6, <2>2
  <2>4. Cardinality(Ahead(j - 1)) < MaxRecips
    BY <1>7, <2>2
  <2> HIDE DEF Ahead
  <2>5. /\ IsFiniteSet(Ahead(j - 1)) /\ Cardinality(Ahead(j - 1)) \in Nat
        /\ Cardinality(Ahead(j)) \in Nat
    BY <1>2, <1>6, <2>2
  <2>6. /\ IsFiniteSet(Ahead(j - 1) \cup {j - 1})
        /\ Cardinality(Ahead(j - 1) \cup {j - 1}) =
              IF j - 1 \in Ahead(j - 1) THEN Cardinality(Ahead(j - 1))
                                       ELSE Cardinality(Ahead(j - 1)) + 1
    BY <2>5, FS_AddElement
  <2>7. Cardinality(Ahead(j)) <= Cardinality(Ahead(j - 1) \cup {j - 1})
    BY <2>3, <2>6, FS_Subset
  <2> QED
    BY <1>1, <1>6, <2>4, <2>5, <2>6, <2>7
<1>10. ExistsBijection(J, Queued(m))
  <2> DEFINE f == [k \in J |-> s[k]]
  <2>1. \A k, l \in J : s[k] = s[l] => k = l
    BY <1>1 DEF IsInjective
  <2>2. f \in Bijection(J, Queued(m))
    BY <1>3, <2>1 DEF Bijection, Injection, Surjection, IsInjective
  <2> QED
    BY <2>2 DEF ExistsBijection
<1>11. IsFiniteSet(J)
  BY <1>2, <1>6, <1>8
<1> HIDE DEF J, Ahead
<1>12. Cardinality(Queued(m)) = Cardinality(J)
  BY ONLY <1>10, <1>11, FS_Bijection, Zenon
<1> QED
  BY ONLY <1>8, <1>9, <1>12, Zenon

\* SetToSeq lists the elements of a finite set.
LEMMA Listed ==
    ASSUME NEW S, IsFiniteSet(S)
    PROVE  SetToSeq(S) \in Seq(S)
<1>1. Cardinality(S) \in Nat /\ ExistsBijection(1 .. Cardinality(S), S)
  BY FS_CardinalityType
<1>2. PICK f \in [1 .. Cardinality(S) -> S] : IsInjective(f)
  BY <1>1 DEF ExistsBijection, Bijection, Injection, Surjection, IsInjective
<1>3. SetToSeq(S) \in [1 .. Cardinality(S) -> S]
  BY <1>2 DEF SetToSeq
<1> QED
  BY <1>1, <1>3

\* The types of the queues, by their names here.
Typed ==
    /\ now \in 1 .. LastArrival + Expiry + 1 /\ polled \in BOOLEAN
    /\ spool \subseteq Msg
    /\ recips \in Seq(Recip)
    /\ rq \in [Recip -> QueueRecord]
    /\ list \in [Recip -> Seq(Cell)]
    /\ cell \in [Cell -> CellRecord]
    /\ used \subseteq Cell
    /\ ops \subseteq OpRecord
    /\ down \in 0 .. MaxDown

LEMMA Types ==
    (StoreTypeOK <=> Typed) /\ (StoreTypeOK' <=> Typed')
<1>1. StoreTypeOK <=> Typed
  BY Zenon DEF StoreTypeOK, Typed, QueueRecord, CellRecord, OpRecord
<1>2. StoreTypeOK' <=> Typed'
  BY Zenon DEF StoreTypeOK, Typed, QueueRecord, CellRecord, OpRecord
<1> QED
  BY <1>1, <1>2

\* The cells counted for a recipient, one more and one less.
LEMMA Counting ==
    ASSUME NEW S \in SUBSET Cell, NEW T, NEW x
    PROVE  /\ Cardinality(S) \in Nat
           /\ T \subseteq S => Cardinality(T) <= Cardinality(S)
           /\ T \subseteq S \cup {x} => Cardinality(T) <= Cardinality(S) + 1
           /\ x \in S => Cardinality(S) >= 1
           /\ x \in S /\ T \subseteq S \ {x} =>
                Cardinality(T) <= Cardinality(S) - 1
<1>1. IsFiniteSet(S) /\ Cardinality(S) \in Nat
  BY Cells, FS_Subset, FS_CardinalityType
<1>2. /\ IsFiniteSet(S \cup {x})
      /\ Cardinality(S \cup {x}) <= Cardinality(S) + 1
  <2>1. Cardinality(S \cup {x}) =
          IF x \in S THEN Cardinality(S) ELSE Cardinality(S) + 1
    BY <1>1, FS_AddElement
  <2> QED
    BY <1>1, <2>1, FS_AddElement
<1>3. /\ IsFiniteSet(S \ {x})
      /\ x \in S => Cardinality(S \ {x}) = Cardinality(S) - 1
      /\ Cardinality(S \ {x}) \in Nat
  BY <1>1, FS_RemoveElement, FS_CardinalityType
<1>4. T \subseteq S => Cardinality(T) <= Cardinality(S)
  BY <1>1, FS_Subset
<1>5. T \subseteq S \cup {x} => Cardinality(T) <= Cardinality(S \cup {x})
  BY <1>2, FS_Subset
<1>6. T \subseteq S \ {x} => Cardinality(T) <= Cardinality(S \ {x})
  BY <1>3, FS_Subset
<1>7. T \subseteq S \cup {x} => Cardinality(T) <= Cardinality(S) + 1
  <2> SUFFICES ASSUME T \subseteq S \cup {x} 
               PROVE  Cardinality(T) <= Cardinality(S) + 1
    OBVIOUS
  <2>1. IsFiniteSet(T) /\ Cardinality(T) \in Nat
    BY <1>2, FS_Subset, FS_CardinalityType
  <2>2. Cardinality(S \cup {x}) \in Nat
    BY <1>2, FS_CardinalityType
  <2> QED
    BY <1>1, <1>2, <1>5, <2>1, <2>2
<1> QED
  BY <1>1, <1>3, <1>4, <1>6, <1>7

-----------------------------------------------------------------------------
(* The outcomes of a delivery.                                             *)

\* What every outcome of operation o does: its cell becomes y, the queue of
\* that cell q, and the operation is freed.
Ends(o, y, q) ==
    /\ cell' = [cell EXCEPT ![o.cell] = y]
    /\ rq' = [rq EXCEPT ![cell[o.cell].rcp] = q]
    /\ ops' = ops \ {o}
    /\ UNCHANGED <<now, polled, spool, recips, list, used, down>>

\* Only the state of the cell changes, and it leaves the count if it completes.
Settles(x, y, q, p) ==
    /\ y \in CellRecord
    /\ q \in [status : {"RQ_UNDEFINED", "RQ_READY", "RQ_DELIVERING"},
              count : Int, nextAttempt : Nat]
    /\ y.msg = x.msg /\ y.rcp = x.rcp /\ y.expiry = x.expiry
    /\ x.completed # 0 => y.completed = x.completed
    /\ q.count = IF x.completed = 0 /\ y.completed # 0 THEN p.count - 1
                                                       ELSE p.count

\* The type of the cell and of the queue an operation works on.
LEMMA CellOf ==
    ASSUME StoreTypeOK, NEW o \in ops
    PROVE  /\ o.cell \in Cell /\ o.rcp \in Recip /\ o.msg \in Msg
           /\ o.retryCount \in 0 .. MaxRetries - 1 /\ o.since \in Nat
           /\ cell[o.cell] \in CellRecord
           /\ rq[cell[o.cell].rcp] \in QueueRecord
<1>1. o \in OpRecord
  BY Types DEF Typed
<1>2. o.cell \in Cell /\ o.rcp \in Recip /\ o.msg \in Msg
      /\ o.retryCount \in 0 .. MaxRetries - 1 /\ o.since \in Nat
  BY <1>1 DEF OpRecord
<1>3. cell[o.cell] \in CellRecord
  BY <1>2, Types DEF Typed
<1>4. cell[o.cell].rcp \in Recip
  BY <1>3 DEF CellRecord
<1> QED
  BY <1>2, <1>3, <1>4, Types DEF Typed

\* An outcome keeps the types and takes at most one off a count, which was not
\* zero if it does, whatever has become of the cell meanwhile.
LEMMA EndTypes ==
    ASSUME StoreTypeOK, Covered, NEW o \in ops, NEW y, NEW q, Ends(o, y, q),
           Settles(cell[o.cell], y, q, rq[cell[o.cell].rcp])
    PROVE  StoreTypeOK' /\ Covered'
<1>0. PICK x \in CellRecord, s \in Recip : x = cell[o.cell] /\ s = x.rcp
  BY CellOf DEF CellRecord
<1>1. /\ o.cell \in Cell /\ x \in CellRecord /\ rq[s] \in QueueRecord
      /\ s \in Recip /\ cell[o.cell] = x
  BY <1>0, CellOf DEF CellRecord
<1>2. /\ y \in CellRecord /\ y.rcp = s
      /\ x.completed # 0 => y.completed # 0
      /\ x.completed \in Nat /\ rq[s].count \in Nat
      /\ q.count = IF x.completed = 0 /\ y.completed # 0
                     THEN rq[s].count - 1 ELSE rq[s].count
  BY <1>0, <1>1 DEF Settles, CellRecord, QueueRecord
<1>3. InUse \subseteq Cell /\ InUse' \subseteq InUse /\ o.cell \in InUse
  BY Types, CellOf DEF Typed, InUse, Ends
<1>4. /\ cell' = [cell EXCEPT ![o.cell] = y]
      /\ rq' = [rq EXCEPT ![s] = q]
  BY <1>0 DEF Ends
<1>5. cell \in [Cell -> CellRecord] /\ rq \in [Recip -> QueueRecord]
  BY Types DEF Typed
<1>6. ASSUME NEW c \in InUse'
      PROVE  /\ cell'[c].rcp = cell[c].rcp
             /\ cell'[c].completed = 0 => cell[c].completed = 0
  <2>1. c \in Cell /\ cell'[c] = IF c = o.cell THEN y ELSE cell[c]
    BY <1>1, <1>3, <1>4, <1>5
  <2>2. CASE c = o.cell
    BY <1>0, <1>1, <1>2, <2>1, <2>2
  <2>3. CASE c # o.cell
    BY <2>1, <2>3
  <2> QED
    BY <2>2, <2>3
<1>7. ASSUME NEW r \in Recip
      PROVE  Counted(r)' \subseteq Counted(r) /\ Counted(r) \in SUBSET Cell
  BY <1>3, <1>6 DEF Counted
<1>8. ASSUME q \in QueueRecord PROVE StoreTypeOK'
  <2>1. cell' \in [Cell -> CellRecord]
    BY <1>1, <1>2, <1>4, <1>5
  <2>2. rq' \in [Recip -> QueueRecord]
    BY <1>1, <1>4, <1>5, <1>8
  <2>3. ops' \subseteq OpRecord
    BY Types DEF Typed, Ends
  <2> QED
    BY <2>1, <2>2, <2>3, Types DEF Typed, Ends
<1>9. CASE x.completed = 0 /\ y.completed # 0
  <2>1. o.cell \in Counted(s) /\ Counted(s)' \subseteq Counted(s) \ {o.cell}
    <3>1. o.cell \in Counted(s)
      BY <1>0, <1>1, <1>3, <1>9 DEF Counted
    <3>2. cell'[o.cell].completed # 0
      BY <1>1, <1>4, <1>5, <1>9
    <3>3. o.cell \notin Counted(s)'
      BY <3>2 DEF Counted
    <3> QED
      BY <1>1, <1>7, <3>1, <3>3
  <2>2. /\ Cardinality(Counted(s)) \in Nat /\ Cardinality(Counted(s)) >= 1
        /\ Cardinality(Counted(s)') <= Cardinality(Counted(s)) - 1
    BY <1>1, <1>7, <2>1, Counting
  <2>3. Cardinality(Counted(s)) <= rq[s].count
    BY <1>1 DEF Covered
  <2> QED
    <3>1. q.count = rq[s].count - 1 /\ q.count \in Nat
      BY <1>2, <1>9, <2>2, <2>3
    <3>2. q \in QueueRecord
      BY <3>1 DEF Settles, QueueRecord
    <3>3. StoreTypeOK'
      BY <1>8, <3>2
    <3>4. ASSUME NEW r \in Recip
          PROVE  Cardinality(Counted(r)') <= rq'[r].count
      <4>1. CASE r = s
        <5>1. rq'[s] = q
          BY <1>1, <1>4, <1>5
        <5>2. Cardinality(Counted(s)') \in Nat
          BY <1>1, <1>7, Counting
        <5> QED
          BY <1>2, <2>2, <2>3, <3>1, <4>1, <5>1, <5>2
      <4>2. CASE r # s
        <5>1. rq'[r] = rq[r]
          BY <1>1, <1>4, <1>5, <4>2
        <5>2. Cardinality(Counted(r)') <= Cardinality(Counted(r))
          BY <1>7, Counting
        <5>3. Cardinality(Counted(r)') \in Nat /\ Cardinality(Counted(r)) \in Nat
          BY <1>7, Counting
        <5> QED
          BY <1>5, <5>1, <5>2, <5>3 DEF Covered, QueueRecord
      <4> QED
        BY <4>1, <4>2
    <3> QED
      BY <3>3, <3>4 DEF Covered
<1>10. CASE ~ (x.completed = 0 /\ y.completed # 0)
  <2>1. q.count = rq[s].count /\ q \in QueueRecord
    BY <1>2, <1>10 DEF Settles, QueueRecord
  <2>2. StoreTypeOK'
    BY <1>8, <2>1
  <2>3. ASSUME NEW r \in Recip
        PROVE  Cardinality(Counted(r)') <= rq'[r].count
    <3>1. rq'[r].count = rq[r].count
      BY <1>1, <1>4, <1>5, <2>1
    <3>2. Cardinality(Counted(r)') <= Cardinality(Counted(r))
      BY <1>7, Counting
    <3>3. Cardinality(Counted(r)') \in Nat /\ Cardinality(Counted(r)) \in Nat
      BY <1>7, Counting
    <3> QED
      BY <1>5, <3>1, <3>2, <3>3 DEF Covered, QueueRecord
  <2> QED
    BY <2>2, <2>3 DEF Covered
<1> QED
  BY <1>9, <1>10

\* The elements of a queue.
LEMMA LinkedCells ==
    ASSUME StoreTypeOK, NEW r \in Recip
    PROVE  /\ Len(list[r]) \in Nat /\ list[r] \in Seq(Cell)
           /\ DOMAIN list[r] = 1 .. Len(list[r])
           /\ Linked(r) \subseteq Cell
           /\ \A i \in 1 .. Len(list[r]) : list[r][i] \in Linked(r)
           /\ \A c \in Linked(r) : \E i \in 1 .. Len(list[r]) : list[r][i] = c
BY Types DEF Typed, Linked

\* A cell is linked into a queue once.
LEMMA LinkedDistinct ==
    ASSUME StoreTypeOK, Links, NEW r \in Recip,
           NEW i \in 1 .. Len(list[r]), NEW j \in 1 .. Len(list[r]), i < j
    PROVE  list[r][i] # list[r][j]
<1>1. IsInjective(list[r]) /\ DOMAIN list[r] = 1 .. Len(list[r])
  BY LinkedCells DEF Links
<1>2. i # j
  BY LinkedCells
<1> QED
  BY <1>1, <1>2, Zenon DEF IsInjective

\* An outcome that is entered in the cell of its own message.
LEMMA EndInv ==
    ASSUME StoreTypeOK, QueueInv, NEW o \in ops, NEW y, NEW q, Ends(o, y, q),
           Settles(cell[o.cell], y, q, rq[cell[o.cell].rcp]),
           Held(o) = <<o.msg, o.rcp>>,
           y.status \in {"MQ_SUCCEDED", "MQ_FAILED"}, y.completed \in {0, now},
           y.status = "MQ_SUCCEDED" => y.completed # 0,
           y.status = "MQ_FAILED" /\ y.completed # 0 =>
               q.status = "RQ_DELIVERING",
           told \subseteq told',
           \A m \in Msg, r \in Recip :
               <<"arrived", m, r>> \in told' => <<"arrived", m, r>> \in told,
           y.completed # 0 => Settlement(o.msg, o.rcp)'
    PROVE  QueueInv'
<1>0. PICK d \in Cell, x \in CellRecord, s \in Recip :
        d = o.cell /\ x = cell[d] /\ s = o.rcp
  BY CellOf
<1>1. /\ o.msg \in Msg /\ x.msg = o.msg /\ x.rcp = s
      /\ x.status = "MQ_DELIVERING" /\ x.completed = 0
      /\ rq[s].status = "RQ_DELIVERING" /\ Taken(o.msg, s)
  BY <1>0, CellOf DEF QueueInv, OpOK, Held
<1>2. /\ cell \in [Cell -> CellRecord] /\ rq \in [Recip -> QueueRecord]
      /\ used \subseteq Cell /\ now \in Nat
  BY StoreAssumption, Types DEF Typed
<1>3. /\ y \in CellRecord /\ y.msg = x.msg /\ y.rcp = s /\ y.expiry = x.expiry
  BY <1>0, <1>1 DEF Settles
<1>4. /\ \A c \in Cell : cell'[c] = IF c = d THEN y ELSE cell[c]
      /\ \A r \in Recip : rq'[r] = IF r = s THEN q ELSE rq[r]
      /\ list' = list /\ used' = used /\ now' = now /\ spool' = spool
      /\ polled' = polled /\ ops' = ops \ {o}
  BY <1>0, <1>1, <1>2 DEF Ends
<1>5. ASSUME NEW c \in Cell
      PROVE  /\ cell'[c].msg = cell[c].msg /\ cell'[c].rcp = cell[c].rcp
             /\ cell'[c].expiry = cell[c].expiry
  BY <1>0, <1>1, <1>3, <1>4
<1>6. ASSUME NEW p \in ops
      PROVE  p.cell \in Cell /\ p.rcp \in Recip /\ Held(p)' = Held(p)
  BY <1>5, CellOf DEF Held
<1>7. \A r \in Recip : Linked(r)' = Linked(r)
  BY <1>4 DEF Linked
<1>8. Links'
  <2>1. ASSUME NEW r \in Recip, NEW c \in Linked(r)
        PROVE  c \in used /\ cell'[c].rcp = r
    BY <1>2, <1>5 DEF QueueInv, Links
  <2>2. UNION {Linked(r)' : r \in Recip} = UNION {Linked(r) : r \in Recip}
    BY <1>7
  <2> QED
    BY <1>4, <1>7, <2>1, <2>2 DEF QueueInv, Links
<1>9. Ordered'
  <2> SUFFICES ASSUME NEW r \in Recip, NEW i \in 1 .. Len(list[r]),
                      NEW j \in 1 .. Len(list[r]), i < j
               PROVE  Earlier(cell'[list[r][i]], cell'[list[r][j]])
    BY <1>4, SMTT(40) DEF Ordered, Earlier
  <2>1. PICK a \in used, b \in used : a = list[r][i] /\ b = list[r][j]
    BY LinkedCells DEF QueueInv, Links
  <2>2. a # b
    BY <2>1, LinkedDistinct DEF QueueInv
  <2>3. Earlier(cell[a], cell[b]) /\ CellOK(a) /\ CellOK(b)
    BY <2>1, SMTT(40) DEF QueueInv, Ordered
  <2>0. a \in Cell /\ b \in Cell /\ cell'[list'[r][i]] = cell'[a] /\ cell'[list'[r][j]] = cell'[b]
    BY <1>2, <1>4, <2>1
  <2>4. CASE a = d
    <3>1. cell'[a] = y /\ cell'[b] = cell[b] /\ cell[a] = x
      BY ONLY <1>0, <1>4, <2>0, <2>2, <2>4
    <3>2. cell[b].status = "MQ_READY" /\ x.expiry <= cell[b].expiry
      BY ONLY <1>1, <2>3, <3>1 DEF Earlier
    <3>3. cell[b].completed = 0
      BY ONLY <2>3, <3>2 DEF CellOK
    <3>4. Earlier(y, cell[b])
      BY ONLY <1>3, <3>2, <3>3 DEF Earlier
    <3> QED
      BY ONLY <1>4, <2>0, <3>1, <3>4, Zenon
  <2>5. CASE b = d
    <3>1. cell'[a] = cell[a] /\ cell'[b] = y /\ cell[b] = x
      BY ONLY <1>0, <1>4, <2>0, <2>2, <2>5
    <3>2. cell[a].completed # 0 /\ cell[a].expiry <= x.expiry
      BY ONLY <1>1, <2>3, <3>1 DEF Earlier
    <3>3. cell[a].completed <= now
      BY ONLY <2>3 DEF CellOK
    <3>4. Earlier(cell[a], y)
      BY <1>3, <3>2, <3>3 DEF Earlier
    <3> QED
      BY ONLY <1>4, <2>0, <3>1, <3>4, Zenon
  <2>6. CASE a # d /\ b # d
    BY <1>2, <1>4, <2>1, <2>3, <2>6
  <2> QED
    BY <2>4, <2>5, <2>6
<1>10. ASSUME NEW c \in used PROVE CellOK(c)'
  <2>1. CellOK(c) /\ c \in Cell
    BY <1>2 DEF QueueInv
  <2>2. Taken(cell[c].msg, cell[c].rcp)'
    BY <1>4, <1>5, <2>1 DEF CellOK, Taken
  <2>3. CASE c = d
    <3>1. cell'[c] = y /\ rq'[s] = q /\ \A p \in ops' : p.rcp # s
      BY <1>0, <1>4, <2>1, <2>3 DEF QueueInv, OpOK
    <3>2. y.completed <= now /\ y.expiry <= now + Expiry
      BY <1>0, <1>2, <1>3, <2>1, <2>3 DEF CellOK
    <3> QED
      BY <1>3, <1>4, <2>2, <3>1, <3>2 DEF CellOK
  <2>4. CASE c # d
    <3>1. cell'[c] = cell[c]
      BY <1>4, <2>1, <2>4
    <3>2. ASSUME cell[c].status = "MQ_DELIVERING"
          PROVE  \E p \in ops' : p.cell = c /\ Held(p)' = <<p.msg, p.rcp>>
      <4>1. PICK p \in ops : p.cell = c /\ Held(p) = <<p.msg, p.rcp>>
        BY <2>1, <3>2 DEF CellOK
      <4> QED
        BY <1>0, <1>4, <1>6, <2>4, <4>1
    <3>3. ASSUME cell[c].status = "MQ_FAILED", cell[c].completed # 0
          PROVE  /\ rq'[cell[c].rcp].status = "RQ_DELIVERING"
                 /\ \A p \in ops' : p.rcp # cell[c].rcp
      <4>1. /\ rq[cell[c].rcp].status = "RQ_DELIVERING"
            /\ \A p \in ops : p.rcp # cell[c].rcp
        BY <2>1, <3>3 DEF CellOK
      <4>2. cell[c].rcp # s /\ cell[c].rcp \in Recip
        BY <1>0, <1>2, <2>1, <4>1 DEF CellRecord
      <4> QED
        BY <1>4, <4>1, <4>2
    <3> QED
      BY <1>4, <2>1, <2>2, <3>1, <3>2, <3>3 DEF CellOK
  <2> QED
    BY <2>3, <2>4
<1>11. ASSUME NEW p \in ops' PROVE OpOK(p)'
  <2>1. p \in ops /\ p # o /\ OpOK(p)
    BY <1>4 DEF QueueInv
  <2>2. p.rcp # s /\ p.rcp \in Recip /\ p.cell \in Cell
    BY <1>0, <1>6, <2>1 DEF QueueInv, OpOK
  <2>3. rq'[p.rcp] = rq[p.rcp] /\ Held(p)' = Held(p)
    BY <1>4, <1>6, <2>1, <2>2
  <2>4. Held(p) = <<p.msg, p.rcp>> => p.cell # d
    BY <1>0, <1>1, <2>2 DEF Held
  <2>5. Taken(p.msg, p.rcp)'
    BY <1>4, <2>1 DEF OpOK, Taken
  <2> QED
    BY <1>4, <2>1, <2>2, <2>3, <2>4, <2>5 DEF OpOK
<1>12. ASSUME NEW m \in Msg, NEW r \in Subscriber PROVE Remembered(m, r)'
  <2>0. r \in Recip
    BY StoreAssumption
  <2>1. SUFFICES ASSUME <<"arrived", m, r>> \in told'
                 PROVE  \/ Settlement(m, r)'
                        \/ m \in spool
                        \/ \E c \in Linked(r) :
                              /\ cell'[c].msg = m /\ cell'[c].completed = 0
                              /\ InTime(c)'
    BY <1>4, <1>7, <2>0 DEF Remembered
  <2>2. \/ Settlement(m, r)
        \/ m \in spool
        \/ \E c \in Linked(r) :
              cell[c].msg = m /\ cell[c].completed = 0 /\ InTime(c)
    BY <2>0, <2>1 DEF QueueInv, Remembered
  <2>3. Settlement(m, r) => Settlement(m, r)'
    BY DEF Settlement
  <2>4. ASSUME NEW c \in Linked(r),
               cell[c].msg = m, cell[c].completed = 0, InTime(c)
        PROVE  \/ Settlement(m, r)'
               \/ cell'[c].msg = m /\ cell'[c].completed = 0 /\ InTime(c)'
    <3>1. c \in Cell /\ cell[c].rcp = r
      BY <1>2, <2>0 DEF QueueInv, Links
    <3>2. cell'[c].msg = m /\ InTime(c)'
      BY <1>4, <1>5, <2>4, <3>1 DEF InTime
    <3>3. c = d => o.msg = m /\ o.rcp = r
      BY <1>0, <1>1, <2>4, <3>1
    <3>4. c # d => cell'[c] = cell[c]
      BY <1>4, <3>1
    <3>5. c = d /\ y.completed = 0 => cell'[c].completed = 0
      BY <1>4, <3>1
    <3> QED
      BY <2>4, <3>2, <3>3, <3>4, <3>5
  <2> QED
    BY <2>2, <2>3, <2>4
<1> QED
  BY <1>4, <1>8, <1>9, <1>10, <1>11, <1>12 DEF QueueInv, Spooled

\* What an outcome leaves known: nothing more is said to have arrived.
LEMMA Learned ==
    ASSUME StoreTypeOK, Records, NEW o \in ops,
           NEW W \in SUBSET (Event \X Msg \X Recip),
           \A t \in W : t[1] \notin {"arrived", "dropped"}, Learn(o, W)
    PROVE  /\ Records' /\ told \subseteq told' /\ W \subseteq told'
           /\ \A n \in Msg, s \in Recip :
                <<"arrived", n, s>> \in told' => <<"arrived", n, s>> \in told
           /\ ~ Misapplied' => Held(o) = <<o.msg, o.rcp>>
<1> DEFINE f == <<"misapplied", o.msg, o.rcp>>
<1>1. f \in Event \X Msg \X Recip /\ f[1] = "misapplied"
  BY CellOf DEF Event
<1>2. \A t \in told' : t \in told \/ t \in W \/ t = f
  BY DEF Learn
<1>3. told \subseteq told' /\ W \subseteq told'
  BY DEF Learn
<1>4. Held(o) # <<o.msg, o.rcp>> => f \in told'
  BY DEF Learn
<1> HIDE DEF f
<1>5. Records'
  <2>1. told' \subseteq Event \X Msg \X Recip
    BY <1>1, <1>2 DEF Records
  <2>2. \A t \in told' : t[1] = "arrived" => t[3] \in Addressed(t[2])
    BY <1>1, <1>2 DEF Records
  <2>3. \A t \in told' : t[1] = "dropped" =>
          t[3] \in (Addressed(t[2]) \cap Subscriber) \ Queued(t[2])
    BY <1>1, <1>2 DEF Records
  <2> QED
    BY <2>1, <2>2, <2>3 DEF Records
<1>6. ASSUME NEW n \in Msg, NEW s \in Recip, <<"arrived", n, s>> \in told'
      PROVE  <<"arrived", n, s>> \in told
  BY <1>1, <1>2, <1>6
<1>7. f \in told' => Misapplied'
  BY <1>1 DEF Misapplied
<1> QED
  BY <1>3, <1>4, <1>5, <1>6, <1>7

\* RESULT.indication: the message is delivered.
LEMMA SucceededInv ==
    ASSUME StoreInv, ~ Misapplied, NEW o \in ops, DeliverySucceeded(o)
    PROVE  StoreInv'
<1>0. StoreTypeOK /\ Records /\ Covered /\ QueueInv
  BY DEF StoreInv
<1>1. PICK x \in CellRecord, s \in Recip, p \in QueueRecord :
        x = cell[o.cell] /\ s = x.rcp /\ p = rq[s]
  BY <1>0, CellOf DEF CellRecord
<1>2. now \in Nat /\ now # 0
  BY <1>0, StoreAssumption, Types DEF Typed
<1> DEFINE y == IF x.completed = 0
                  THEN [x EXCEPT !.status = "MQ_SUCCEDED", !.completed = now]
                  ELSE x
           q == IF x.completed = 0
                  THEN [status |-> "RQ_READY", count |-> p.count - 1,
                        nextAttempt |-> now]
                  ELSE p
<1>3. rq \in [Recip -> QueueRecord]
  BY <1>0, Types DEF Typed
<1>4. Ends(o, y, q)
  BY <1>1, <1>3 DEF Ends, DeliverySucceeded
<1>5. Settles(cell[o.cell], y, q, rq[cell[o.cell].rcp])
  <2>1. /\ y \in CellRecord
        /\ y.msg = x.msg /\ y.rcp = x.rcp /\ y.expiry = x.expiry
        /\ x.completed # 0 => y.completed = x.completed
    BY <1>2 DEF CellRecord
  <2>2. /\ q \in [status : {"RQ_UNDEFINED", "RQ_READY", "RQ_DELIVERING"},
                  count : Int, nextAttempt : Nat]
        /\ q.count = IF x.completed = 0 /\ y.completed # 0 THEN p.count - 1
                                                           ELSE p.count
    BY <1>2 DEF CellRecord, QueueRecord
  <2>3. Settles(x, y, q, p)
    BY <2>1, <2>2, Zenon DEF Settles
  <2> QED
    BY <1>1, <2>3
<1>6. StoreTypeOK' /\ Covered'
  BY <1>0, <1>4, <1>5, EndTypes
<1>7. o.msg \in Msg /\ o.rcp \in Recip
  BY <1>0, CellOf
<1>8. Learn(o, {<<"delivered", o.msg, o.rcp>>})
  BY DEF DeliverySucceeded
<1>9. /\ Records' /\ told \subseteq told'
      /\ <<"delivered", o.msg, o.rcp>> \in told'
      /\ \A n \in Msg, r \in Recip :
           <<"arrived", n, r>> \in told' => <<"arrived", n, r>> \in told
      /\ ~ Misapplied' => Held(o) = <<o.msg, o.rcp>>
  <2> DEFINE W == {<<"delivered", o.msg, o.rcp>>}
  <2>1. W \in SUBSET (Event \X Msg \X Recip) 
        /\ \A t \in W : t[1] \notin {"arrived", "dropped"}
    BY <1>7 DEF Event
  <2>2. Learn(o, W)
    BY <1>8
  <2>3. /\ Records' /\ told \subseteq told' /\ W \subseteq told'
        /\ \A n \in Msg, r \in Recip :
             <<"arrived", n, r>> \in told' => <<"arrived", n, r>> \in told
        /\ ~ Misapplied' => Held(o) = <<o.msg, o.rcp>>
    <3> HIDE DEF W
    <3> QED
      BY <1>0, <2>1, <2>2, Learned
  <2> QED
    BY <2>3
<1>10. ASSUME ~ Misapplied' PROVE QueueInv'
  <2>1. Held(o) = <<o.msg, o.rcp>> /\ x.completed = 0
    BY <1>0, <1>1, <1>9, <1>10 DEF QueueInv, OpOK
  <2>2. y.status = "MQ_SUCCEDED" /\ y.completed = now
    BY <1>1, <2>1 DEF CellRecord
  <2>3. Settlement(o.msg, o.rcp)'
    <3>1. <<"delivered", o.msg, o.rcp>> \in told'
      BY <1>9
    <3> QED
      BY <3>1 DEF Settlement
  <2> HIDE DEF y, q
  <2> QED
    BY <1>0, <1>2, <1>4, <1>5, <1>9, <2>1, <2>2, <2>3, EndInv
<1> QED
  BY <1>6, <1>9, <1>10 DEF StoreInv

\* An operation given up for now: the message waits for its next attempt.
LEMMA RespoolInv ==
    ASSUME StoreInv, ~ Misapplied, NEW o \in ops, Respool(o), Learn(o, {})
    PROVE  StoreInv'
<1>0. StoreTypeOK /\ Records /\ Covered /\ QueueInv
  BY DEF StoreInv
<1>1. PICK x \in CellRecord, s \in Recip, p \in QueueRecord :
        x = cell[o.cell] /\ s = x.rcp /\ p = rq[s]
  BY <1>0, CellOf DEF CellRecord
<1>2. now \in Nat /\ now + RetryDelay \in Nat
  BY <1>0, StoreAssumption, Types, SMTT(40) DEF Typed
<1> DEFINE y == [x EXCEPT !.status = "MQ_FAILED"]
           q == [p EXCEPT !.status = "RQ_READY",
                          !.nextAttempt = now + RetryDelay]
<1>3. rq \in [Recip -> QueueRecord] /\ cell \in [Cell -> CellRecord]
      /\ o.cell \in Cell
  BY <1>0, CellOf, Types DEF Typed
<1>4. Ends(o, y, q)
  BY <1>1, <1>3 DEF Ends, Respool, QueueRecord
<1>5. Settles(cell[o.cell], y, q, rq[cell[o.cell].rcp])
  <2>1. /\ y \in CellRecord
        /\ y.msg = x.msg /\ y.rcp = x.rcp /\ y.expiry = x.expiry
        /\ x.completed # 0 => y.completed = x.completed
    BY <1>2 DEF CellRecord
  <2>2. /\ q \in [status : {"RQ_UNDEFINED", "RQ_READY", "RQ_DELIVERING"},
                  count : Int, nextAttempt : Nat]
        /\ q.count = IF x.completed = 0 /\ y.completed # 0 THEN p.count - 1
                                                           ELSE p.count
    <3>1. y.completed = x.completed
      BY DEF CellRecord
    <3>2. q.count = p.count
      BY DEF QueueRecord
    <3>3. q \in QueueRecord
      BY <1>2 DEF QueueRecord
    <3> QED
      BY <3>1, <3>2, <3>3 DEF QueueRecord
  <2>3. Settles(x, y, q, p)
    BY <2>1, <2>2, Zenon DEF Settles
  <2> QED
    BY <1>1, <2>3
<1>6. StoreTypeOK' /\ Covered'
  BY <1>0, <1>4, <1>5, EndTypes
<1>7. /\ Records' /\ told \subseteq told'
      /\ \A n \in Msg, r \in Recip :
           <<"arrived", n, r>> \in told' => <<"arrived", n, r>> \in told
      /\ ~ Misapplied' => Held(o) = <<o.msg, o.rcp>>
  BY <1>0, Learned
<1>8. ASSUME ~ Misapplied' PROVE QueueInv'
  <2>1. Held(o) = <<o.msg, o.rcp>> /\ x.completed = 0
    BY <1>0, <1>1, <1>7, <1>8 DEF QueueInv, OpOK
  <2>2. y.status = "MQ_FAILED" /\ y.completed = 0
    BY <1>1, <2>1 DEF CellRecord
  <2> HIDE DEF y, q
  <2> QED
    BY <1>0, <1>4, <1>5, <1>7, <2>1, <2>2, EndInv
<1> QED
  BY <1>6, <1>7, <1>8 DEF StoreInv

\* ERROR.indication: whatever the error, the message is given up, its queue is
\* left in RQ_DELIVERING and a non-delivery report goes to its originator.
LEMMA ErrorInv ==
    ASSUME StoreInv, ~ Misapplied, NEW o \in ops, NEW error,
           DeliveryError(o, error)
    PROVE  StoreInv'
<1>0. StoreTypeOK /\ Records /\ Covered /\ QueueInv
  BY DEF StoreInv
<1>1. PICK x \in CellRecord, s \in Recip, p \in QueueRecord :
        x = cell[o.cell] /\ s = x.rcp /\ p = rq[s]
  BY <1>0, CellOf DEF CellRecord
<1>2. now \in Nat /\ now # 0
  BY <1>0, StoreAssumption, Types DEF Typed
<1> DEFINE y == msg_deleteMessage(x)
           q == Uncount(p, x)
<1>3. rq \in [Recip -> QueueRecord] /\ cell \in [Cell -> CellRecord]
      /\ o.cell \in Cell
  BY <1>0, CellOf, Types DEF Typed
<1>4. /\ Reject(o)
      /\ Learn(o, {<<"ndr", cell[o.cell].msg, cell[o.cell].rcp>>})
  BY DEF DeliveryError, TransientError
<1>5. Ends(o, y, q)
  BY <1>1, <1>3, <1>4 DEF Ends, Reject
<1>6. Settles(cell[o.cell], y, q, rq[cell[o.cell].rcp])
  <2>1. /\ y \in CellRecord
        /\ y.msg = x.msg /\ y.rcp = x.rcp /\ y.expiry = x.expiry
        /\ x.completed # 0 => y.completed = x.completed
    BY <1>2 DEF CellRecord, msg_deleteMessage
  <2>2. /\ q \in [status : {"RQ_UNDEFINED", "RQ_READY", "RQ_DELIVERING"},
                  count : Int, nextAttempt : Nat]
        /\ q.count = IF x.completed = 0 /\ y.completed # 0 THEN p.count - 1
                                                           ELSE p.count
    BY <1>2 DEF CellRecord, QueueRecord, msg_deleteMessage, Uncount
  <2>3. Settles(x, y, q, p)
    BY <2>1, <2>2, Zenon DEF Settles
  <2> QED
    BY <1>1, <2>3
<1>7. StoreTypeOK' /\ Covered'
  BY <1>0, <1>5, <1>6, EndTypes
<1>8. /\ Records' /\ told \subseteq told'
      /\ <<"ndr", x.msg, x.rcp>> \in told'
      /\ \A n \in Msg, r \in Recip :
           <<"arrived", n, r>> \in told' => <<"arrived", n, r>> \in told
      /\ ~ Misapplied' => Held(o) = <<o.msg, o.rcp>>
  <2> DEFINE W == {<<"ndr", x.msg, x.rcp>>}
  <2>1. W \in SUBSET (Event \X Msg \X Recip) 
        /\ \A t \in W : t[1] \notin {"arrived", "dropped"}
    BY DEF Event, CellRecord
  <2>2. Learn(o, W)
    BY <1>1, <1>4
  <2>3. /\ Records' /\ told \subseteq told' /\ W \subseteq told'
        /\ \A n \in Msg, r \in Recip :
             <<"arrived", n, r>> \in told' => <<"arrived", n, r>> \in told
        /\ ~ Misapplied' => Held(o) = <<o.msg, o.rcp>>
    <3> HIDE DEF W
    <3> QED
      BY <1>0, <2>1, <2>2, Learned
  <2> QED
    BY <2>3
<1>9. ASSUME ~ Misapplied' PROVE QueueInv'
  <2>1. /\ Held(o) = <<o.msg, o.rcp>> /\ x.completed = 0
        /\ rq[o.rcp].status = "RQ_DELIVERING"
    BY <1>0, <1>1, <1>8, <1>9 DEF QueueInv, OpOK
  <2>2. x.msg = o.msg /\ x.rcp = o.rcp
    BY <1>1, <2>1 DEF Held
  <2>3. y.status = "MQ_FAILED" /\ y.completed = now
    BY <2>1 DEF CellRecord, msg_deleteMessage
  <2>4. q.status = "RQ_DELIVERING"
    BY <1>1, <2>1, <2>2 DEF QueueRecord, Uncount
  <2>5. Settlement(o.msg, o.rcp)'
    <3>1. <<"ndr", o.msg, o.rcp>> \in told'
      BY <1>8, <2>2
    <3> QED
      BY <3>1 DEF Settlement
  <2> HIDE DEF y, q
  <2> QED
    BY <1>0, <1>2, <1>5, <1>6, <1>8, <2>1, <2>3, <2>4, <2>5, EndInv
<1> QED
  BY <1>7, <1>8, <1>9 DEF StoreInv

\* A step that leaves the queues and the cells alone.
LEMMA SameQueues ==
    ASSUME Links, Ordered, list' = list, cell' = cell, used' = used
    PROVE  Links' /\ Ordered'
<1>1. \A r \in Recip : Linked(r)' = Linked(r)
  BY DEF Linked
<1>2. UNION {Linked(r)' : r \in Recip} = UNION {Linked(r) : r \in Recip}
  BY <1>1
<1>3. Links'
  BY <1>1, <1>2 DEF Links
<1>4. Ordered'
  BY DEF Ordered, Earlier
<1> QED
  BY <1>3, <1>4

\* FAILURE.indication while attempts are left: the same operation again.
LEMMA RetryInv ==
    ASSUME StoreInv, ~ Misapplied, NEW o \in ops,
           o.retryCount + 1 < MaxRetries,
           ops' = (ops \ {o}) \cup {[o EXCEPT !.retryCount = @ + 1]},
           UNCHANGED <<now, polled, spool, recips, rq, list, cell, used,
                       down, told>>
    PROVE  StoreInv'
<1>0. StoreTypeOK /\ Records /\ Covered /\ QueueInv
  BY DEF StoreInv
<1>1. o \in OpRecord /\ o.retryCount \in Nat
  BY <1>0, StoreAssumption, Types DEF Typed, OpRecord
<1>2. PICK n \in OpRecord : n = [o EXCEPT !.retryCount = @ + 1]
  <2>1. o.retryCount + 1 \in 0 .. MaxRetries - 1
    BY <1>1, StoreAssumption
  <2>2. [o EXCEPT !.retryCount = @ + 1] \in OpRecord
    BY <1>1, <2>1 DEF OpRecord
  <2> QED
    BY <2>2
<1>3. n.cell = o.cell /\ n.rcp = o.rcp /\ n.msg = o.msg
  BY <1>1, <1>2 DEF OpRecord
<1>4. ops' = (ops \ {o}) \cup {n}
  BY <1>2
<1>5. /\ now' = now /\ polled' = polled /\ spool' = spool /\ rq' = rq
      /\ list' = list /\ cell' = cell /\ used' = used /\ told' = told
  OBVIOUS
<1>6. StoreTypeOK'
  BY <1>0, <1>4, Types DEF Typed
<1>7. Records'
  BY <1>0 DEF Records
<1>8. InUse' = InUse
  BY <1>3, <1>4 DEF InUse
<1>9. Covered'
  BY <1>0, <1>5, <1>8 DEF Covered, Counted
<1>10. Links' /\ Ordered'
  BY <1>0, <1>5, SameQueues DEF QueueInv
<1>11. ASSUME NEW c \in used PROVE CellOK(c)'
  <2>1. CellOK(c)
    BY <1>0 DEF QueueInv
  <2>2. ASSUME NEW p \in ops, p.cell = c, Held(p) = <<p.msg, p.rcp>>
        PROVE  \E u \in ops' : u.cell = c /\ Held(u)' = <<u.msg, u.rcp>>
    BY <1>3, <1>4, <1>5, <2>2 DEF Held
  <2>3. ASSUME \A p \in ops : p.rcp # cell[c].rcp
        PROVE  \A p \in ops' : p.rcp # cell[c].rcp
    BY <1>3, <1>4, <2>3
  <2> QED
    BY <1>5, <2>1, <2>2, <2>3 DEF CellOK, Taken
<1>12. ASSUME NEW p \in ops' PROVE OpOK(p)'
  <2>1. PICK u \in ops : u.cell = p.cell /\ u.rcp = p.rcp /\ u.msg = p.msg
                         /\ (p = n <=> u = o) /\ (p # n => p = u)
    BY <1>3, <1>4
  <2>2. OpOK(u)
    BY <1>0 DEF QueueInv
  <2>3. ASSUME NEW v \in ops', v.rcp = p.rcp PROVE v = p
    <3>1. PICK w \in ops : w.rcp = v.rcp /\ (v = n <=> w = o) /\ (v # n => v = w)
      BY <1>3, <1>4
    <3>2. w = u
      BY <2>1, <2>2, <2>3, <3>1 DEF OpOK
    <3> QED
      BY <2>1, <3>1, <3>2
  <2> QED
    BY <1>5, <2>1, <2>2, <2>3 DEF OpOK, Held, Taken
<1>13. ASSUME NEW m \in Msg, NEW r \in Subscriber PROVE Remembered(m, r)'
  <2>1. Remembered(m, r)
    BY <1>0 DEF QueueInv
  <2> QED
    BY <1>5, <2>1 DEF Remembered, Settlement, Linked, InTime
<1> QED
  BY <1>0, <1>5, <1>6, <1>7, <1>9, <1>10, <1>11, <1>12, <1>13 DEF StoreInv, QueueInv, Spooled

LEMMA OutcomeInv ==
    ASSUME StoreInv, ~ Misapplied, NEW o \in ops, Outcome(o)
    PROVE  StoreInv'
<1>1. CASE DeliverySucceeded(o)
  BY <1>1, SucceededInv
<1>2. CASE \E error \in {"ResourceError", "ProtocolViolation"} :
             DeliveryError(o, error)
  BY <1>2, ErrorInv
<1>3. CASE DeliveryFailed(o)
  <2>1. CASE o.retryCount + 1 < MaxRetries
    BY <1>3, <2>1, RetryInv DEF DeliveryFailed
  <2>2. CASE ~ (o.retryCount + 1 < MaxRetries)
    BY <1>3, <2>2, RespoolInv DEF DeliveryFailed
  <2> QED
    BY <2>1, <2>2
<1> QED
  BY <1>1, <1>2, <1>3 DEF Outcome

-----------------------------------------------------------------------------
(* What leaves the queues as they are.                                     *)

LEMMA DeliverNowInv ==
    ASSUME StoreInv, ~ Misapplied, NEW r \in Recip, msg_deliverNow(r)
    PROVE  StoreInv'
<1>0. StoreTypeOK /\ Records /\ Covered /\ QueueInv
  BY DEF StoreInv
<1>1. /\ now' = now /\ polled' = polled /\ spool' = spool /\ ops' = ops
      /\ list' = list /\ cell' = cell /\ used' = used /\ told' = told
  BY DEF msg_deliverNow
<1>2. now \in Nat /\ rq \in [Recip -> QueueRecord]
  BY <1>0, StoreAssumption, Types, SMTT(40) DEF Typed
<1>3. /\ rq' \in [Recip -> QueueRecord]
      /\ \A s \in Recip : rq'[s].status = rq[s].status
                          /\ rq'[s].count = rq[s].count
  BY <1>2 DEF msg_deliverNow, QueueRecord
<1>4. StoreTypeOK'
  BY <1>0, <1>3, Types DEF Typed, msg_deliverNow
<1>5. Records'
  BY <1>0, <1>1 DEF Records
<1>6. Covered'
  <2>1. \A s \in Recip : Counted(s)' = Counted(s)
    BY <1>1 DEF Counted, InUse
  <2> QED
    BY <1>0, <1>3, <2>1 DEF Covered
<1>7. Links' /\ Ordered'
  BY <1>0, <1>1, SameQueues DEF QueueInv
<1>8. ASSUME NEW c \in used PROVE CellOK(c)'
  <2>1. CellOK(c) /\ cell[c].rcp \in Recip
    BY <1>0, Types DEF QueueInv, Typed, CellRecord
  <2> QED
    BY <1>1, <1>3, <2>1 DEF CellOK, Taken, Held
<1>9. ASSUME NEW o \in ops PROVE OpOK(o)'
  <2>1. OpOK(o) /\ o.rcp \in Recip
    BY <1>0, CellOf DEF QueueInv
  <2> QED
    BY <1>1, <1>3, <2>1 DEF OpOK, Taken, Held
<1>10. ASSUME NEW m \in Msg, NEW s \in Subscriber PROVE Remembered(m, s)'
  <2>1. Remembered(m, s)
    BY <1>0 DEF QueueInv
  <2> QED
    BY <1>1, <2>1 DEF Remembered, Settlement, Linked, InTime
<1> QED
  BY <1>0, <1>1, <1>4, <1>5, <1>6, <1>7, <1>8, <1>9, <1>10 DEF StoreInv, QueueInv, Spooled

\* A message that is in time when mts_tryDelivery has run is in time for one
\* tick more until it runs again.
LEMMA TickInv ==
    ASSUME StoreInv, ~ Misapplied, Tick
    PROVE  StoreInv'
<1>0. StoreTypeOK /\ Records /\ Covered /\ QueueInv
  BY DEF StoreInv
<1>1. /\ now' = now + 1 /\ polled' = FALSE /\ polled /\ spool' = spool
      /\ ops' = ops /\ list' = list /\ cell' = cell /\ used' = used
      /\ told' = told /\ rq' = rq
  BY DEF Tick, memory
<1>2. /\ now \in Nat /\ Expiry \in Nat /\ LastArrival \in Nat
      /\ used \subseteq Cell /\ cell \in [Cell -> CellRecord]
  BY <1>0, StoreAssumption, Types DEF Typed
<1>3. StoreTypeOK'
  <2>1. now' \in 1 .. LastArrival + Expiry + 1
    BY <1>2 DEF Tick
  <2> QED
    BY <1>0, <2>1, Types DEF Typed, Tick, memory
<1>4. Records'
  BY <1>0, <1>1 DEF Records
<1>5. Covered'
  BY <1>0, <1>1 DEF Covered, Counted, InUse
<1>6. Links' /\ Ordered'
  BY <1>0, <1>1, SameQueues DEF QueueInv
<1>7. ASSUME NEW c \in used PROVE CellOK(c)'
  <2>1. /\ CellOK(c)
        /\ cell[c].completed \in Nat /\ cell[c].expiry \in Nat
    BY <1>0, <1>2 DEF QueueInv, CellRecord
  <2>2. cell[c].completed <= now + 1 /\ cell[c].expiry <= now + 1 + Expiry
    BY <1>2, <2>1 DEF CellOK
  <2> QED
    BY <1>1, <2>1, <2>2 DEF CellOK, Taken, Held
<1>8. ASSUME NEW o \in ops PROVE OpOK(o)'
  <2>1. OpOK(o)
    BY <1>0 DEF QueueInv
  <2> QED
    BY <1>1, <2>1 DEF OpOK, Taken, Held
<1>9. ASSUME NEW m \in Msg, NEW r \in Subscriber PROVE Remembered(m, r)'
  <2>1. Remembered(m, r) /\ r \in Recip
    BY <1>0, StoreAssumption DEF QueueInv
  <2>2. ASSUME NEW c \in Linked(r), InTime(c) PROVE InTime(c)'
    <3>1. cell[c].expiry \in Nat
      BY <1>2, <2>1, <1>0, LinkedCells DEF CellRecord
    <3> QED
      BY <1>1, <1>2, <2>2, <3>1 DEF InTime
  <2> QED
    BY <1>1, <2>1, <2>2 DEF Remembered, Settlement, Linked
<1> QED
  BY <1>0, <1>1, <1>3, <1>4, <1>5, <1>6, <1>7, <1>8, <1>9 DEF StoreInv, QueueInv, Spooled

\* A message arrives.  No cell and no operation has it, as none of its
\* recipients is known.
LEMMA ArriveInv ==
    ASSUME StoreInv, ~ Misapplied, NEW m \in Msg, Arrive(m)
    PROVE  StoreInv'
<1>0. StoreTypeOK /\ Records /\ Covered /\ QueueInv
  BY DEF StoreInv
<1> DEFINE N == {<<"arrived", m, r>> : r \in Addressed(m)}
<1>1. /\ now' = now /\ polled' = polled /\ ops' = ops /\ list' = list
      /\ cell' = cell /\ used' = used /\ rq' = rq
      /\ spool' = spool \cup {m} /\ told' = told \cup N
      /\ \A t \in told : t[2] # m
  BY DEF Arrive, memory
<1>2. /\ Addressed(m) \subseteq Recip /\ used \subseteq Cell
      /\ cell \in [Cell -> CellRecord]
  BY <1>0, Addresses, Types DEF Typed
<1>3. StoreTypeOK'
  BY <1>0, <1>1, Types DEF Typed, Arrive, memory
<1>4. Records'
  <2>1. \A t \in N : /\ t \in Event \X Msg \X Recip
                     /\ t[1] = "arrived" /\ t[3] \in Addressed(t[2])
    BY <1>2 DEF Event
  <2> HIDE DEF N
  <2> QED
    BY <1>0, <1>1, <2>1 DEF Records
<1>5. Covered'
  BY <1>0, <1>1 DEF Covered, Counted, InUse
<1>6. Links' /\ Ordered'
  BY <1>0, <1>1, SameQueues DEF QueueInv
<1>7. ASSUME NEW n \in Msg, NEW s \in Recip, Taken(n, s) PROVE Taken(n, s)'
  <2>1. <<"arrived", n, s>>[2] # m
    BY <1>1, <1>7, Zenon DEF Taken
  <2>2. n # m
    BY <2>1
  <2> QED
    BY <1>1, <1>7, <2>2 DEF Taken
<1>8. ASSUME NEW c \in used PROVE CellOK(c)'
  <2>1. CellOK(c) /\ cell[c].msg \in Msg /\ cell[c].rcp \in Recip
    BY <1>0, <1>2 DEF QueueInv, CellRecord
  <2>2. Taken(cell[c].msg, cell[c].rcp)'
    BY <1>1, <1>7, <2>1 DEF CellOK, Taken
  <2> QED
    BY <1>1, <2>1, <2>2 DEF CellOK, Held
<1>9. ASSUME NEW o \in ops PROVE OpOK(o)'
  <2>1. OpOK(o) /\ o.msg \in Msg /\ o.rcp \in Recip
    BY <1>0, CellOf DEF QueueInv
  <2>2. Taken(o.msg, o.rcp)'
    BY <1>7, <2>1 DEF OpOK
  <2> QED
    BY <1>1, <2>1, <2>2 DEF OpOK, Held
<1>10. ASSUME NEW n \in Msg, NEW s \in Subscriber PROVE Remembered(n, s)'
  <2>1. Remembered(n, s) /\ told \subseteq told' /\ spool \subseteq spool'
        /\ m \in spool'
    BY <1>0, <1>1 DEF QueueInv
  <2>2. <<"arrived", n, s>> \in told' =>
           <<"arrived", n, s>> \in told \/ n = m
    BY <1>1
  <2>3. Settlement(n, s) => Settlement(n, s)'
    BY <2>1 DEF Settlement
  <2> QED
    BY <1>1, <2>1, <2>2, <2>3 DEF Remembered, Linked, InTime
<1>11. Spooled'
  BY <1>0, <1>1 DEF QueueInv, Spooled
<1> QED
  BY <1>1, <1>3, <1>4, <1>5, <1>6, <1>8, <1>9, <1>10, <1>11
     DEF StoreInv, QueueInv

-----------------------------------------------------------------------------
(* The start, and a new one.                                               *)

\* Empty queues are of the right type.
LEMMA EmptyQueues ==
    /\ [r \in Recip |-> NoQueue] \in [Recip -> QueueRecord]
    /\ [r \in Recip |-> <<>>] \in [Recip -> Seq(Cell)]
    /\ [c \in Cell |-> NoCell] \in [Cell -> CellRecord]
    /\ NoQueue.count = 0
<1>1. NoQueue \in QueueRecord /\ NoQueue.count = 0
  BY DEF NoQueue, QueueRecord
<1> QED
  BY <1>1, Cells

LEMMA InitInv ==
    ASSUME Init
    PROVE  StoreInv
<1>1. /\ now = 1 /\ polled = FALSE /\ spool = {} /\ down = 0 /\ told = {}
      /\ used = {} /\ ops = {} /\ recips = <<>>
      /\ rq = [r \in Recip |-> NoQueue] /\ list = [r \in Recip |-> <<>>]
      /\ cell = [c \in Cell |-> NoCell]
  BY DEF Init, msg_init
<1>2. StoreTypeOK
  <2>1. LastArrival \in Nat /\ Expiry \in Nat /\ MaxDown \in Nat
    BY StoreAssumption
  <2>2. now \in 1 .. LastArrival + Expiry + 1 /\ down \in 0 .. MaxDown
    BY <1>1, <2>1
  <2>3. /\ recips \in Seq(Recip) /\ rq \in [Recip -> QueueRecord]
        /\ list \in [Recip -> Seq(Cell)] /\ cell \in [Cell -> CellRecord]
    BY <1>1, EmptyQueues
  <2>4. /\ polled \in BOOLEAN /\ spool \subseteq Msg /\ used \subseteq Cell
        /\ ops \subseteq OpRecord
    BY <1>1
  <2> QED
    BY <2>2, <2>3, <2>4, Types DEF Typed
<1>3. Records
  BY <1>1 DEF Records
<1>4. ASSUME NEW r \in Recip
      PROVE  /\ Linked(r) = {} /\ IsInjective(list[r]) /\ Len(list[r]) = 0
             /\ Counted(r) = {} /\ rq[r].count = 0
  BY <1>1, EmptyQueues DEF Linked, IsInjective, Counted, InUse
<1>5. Covered
  BY <1>4, FS_EmptySet DEF Covered
<1>6. Links /\ Ordered
  BY <1>1, <1>4 DEF Links, Ordered
<1>7. QueueInv
  BY <1>1, <1>6 DEF QueueInv, Spooled, Remembered
<1> QED
  BY <1>2, <1>3, <1>5, <1>7 DEF StoreInv

\* The MTS stops: what was in a queue is lost.
LEMMA RestartInv ==
    ASSUME StoreInv, ~ Misapplied, Restart
    PROVE  StoreInv'
<1>0. StoreTypeOK /\ Records /\ Covered /\ QueueInv
  BY DEF StoreInv
<1> DEFINE N == {<<"lost", cell[c].msg, cell[c].rcp>> : c \in used}
<1>1. /\ now' = now /\ polled' = polled /\ spool' = spool
      /\ down < MaxDown /\ down' = down + 1 /\ told' = told \cup N
      /\ used' = {} /\ ops' = {} /\ recips' = <<>>
      /\ rq' = [r \in Recip |-> NoQueue] /\ list' = [r \in Recip |-> <<>>]
      /\ cell' = [c \in Cell |-> NoCell]
  BY DEF Restart
<1>2. StoreTypeOK'
  <2>1. MaxDown \in Nat /\ down \in 0 .. MaxDown
    BY <1>0, StoreAssumption, Types DEF Typed
  <2>2. down' \in 0 .. MaxDown
    BY <1>1, <2>1
  <2> QED
    BY <1>0, <1>1, <2>2, EmptyQueues, Types DEF Typed
<1>3. \A t \in N : /\ t \in Event \X Msg \X Recip
                  /\ t[1] \notin {"arrived", "dropped"}
  BY <1>0, Types DEF Typed, CellRecord, Event
<1>4. Records'
  <2> HIDE DEF N
  <2> QED
    BY <1>0, <1>1, <1>3 DEF Records
<1>5. ASSUME NEW r \in Recip
      PROVE  /\ Linked(r)' = {} /\ IsInjective(list'[r]) /\ Len(list'[r]) = 0
             /\ Counted(r)' = {} /\ rq'[r].count = 0
  BY <1>1, EmptyQueues DEF Linked, IsInjective, Counted, InUse
<1>6. Covered'
  <2>1. ASSUME NEW r \in Recip PROVE Cardinality(Counted(r)') <= rq'[r].count
    <3>1. Cardinality(Counted(r)') = 0
      BY <1>5, FS_EmptySet
    <3> QED
      BY <1>5, <3>1
  <2> QED
    BY <2>1 DEF Covered
<1>7. Links' /\ Ordered'
  BY <1>1, <1>5 DEF Links, Ordered
<1>8. ASSUME NEW m \in Msg, NEW r \in Subscriber PROVE Remembered(m, r)'
  <2>1. Remembered(m, r) /\ r \in Recip
    BY <1>0, StoreAssumption DEF QueueInv
  <2>2. <<"arrived", m, r>> \in told' => <<"arrived", m, r>> \in told
    BY <1>1
  <2>3. Settlement(m, r) => Settlement(m, r)'
    BY <1>1 DEF Settlement
  <2>4. ASSUME NEW c \in Linked(r), cell[c].msg = m PROVE Settlement(m, r)'
    <3>1. c \in used /\ cell[c].rcp = r
      BY <1>0, <2>1 DEF QueueInv, Links
    <3>2. <<"lost", m, r>> \in told'
      BY <1>1, <2>4, <3>1
    <3> QED
      BY <3>2 DEF Settlement
  <2> QED
    BY <1>1, <2>1, <2>2, <2>3, <2>4 DEF Remembered
<1> QED
  BY <1>0, <1>1, <1>2, <1>4, <1>6, <1>7, <1>8 DEF StoreInv, QueueInv, Spooled

-----------------------------------------------------------------------------
(* A message is queued.                                                    *)

\* A queue with one more cell at its end.
LEMMA Appended ==
    ASSUME NEW q \in Seq(Cell), NEW c \in Cell
    PROVE  /\ Append(q, c) \in Seq(Cell) /\ Len(Append(q, c)) = Len(q) + 1
           /\ \A i \in 1 .. Len(q) : Append(q, c)[i] = q[i]
           /\ Append(q, c)[Len(q) + 1] = c
           /\ {Append(q, c)[i] : i \in 1 .. Len(Append(q, c))} =
                {q[i] : i \in 1 .. Len(q)} \cup {c}
<1>1. /\ Append(q, c) \in Seq(Cell) /\ Len(Append(q, c)) = Len(q) + 1
      /\ Len(q) \in Nat
      /\ \A i \in 1 .. Len(q) : Append(q, c)[i] = q[i]
      /\ Append(q, c)[Len(q) + 1] = c
  OBVIOUS
<1>2. 1 .. Len(q) + 1 = 1 .. Len(q) \cup {Len(q) + 1}
  BY <1>1
<1> QED
  BY <1>1, <1>2

\* The cells msg_addMessage fills are not allocated, and one goes to each
\* recipient.
LEMMA Allocated ==
    ASSUME StoreTypeOK, NEW R \in SUBSET Recip, NEW at \in Allocations(R)
    PROVE  /\ \A r \in R : at[r] \in Cell /\ at[r] \notin used
           /\ \A r, s \in R : at[r] = at[s] => r = s
<1>1. /\ at \in [R -> Cell] /\ IsInjective(at)
      /\ \A r \in R : at[r] \in Stale \cup Fresh
  BY DEF Allocations
<1>2. Stale \cap used = {} /\ Fresh \cap used = {}
  BY DEF Stale, Fresh
<1>3. ASSUME NEW r \in R, NEW s \in R, at[r] = at[s] PROVE r = s
  BY <1>1, <1>3, Zenon DEF IsInjective
<1> QED
  BY <1>1, <1>2, <1>3

\* What one more message for the recipients R does, cell by cell.
Queues(m, R, at) ==
    /\ \A r \in R :
          /\ list'[r] = Append(list[r], at[r])
          /\ cell'[at[r]] = [msg |-> m, rcp |-> r, status |-> "MQ_READY",
                             completed |-> 0, expiry |-> now + Expiry]
          /\ rq'[r] = DQ_addMessage(rq[r])
    /\ \A r \in Recip \ R : list'[r] = list[r] /\ rq'[r] = rq[r]
    /\ \A c \in Cell : (\A r \in R : at[r] # c) => cell'[c] = cell[c]
    /\ used' = used \cup {at[r] : r \in R}

LEMMA QueuedMessage ==
    ASSUME StoreTypeOK, NEW m \in Msg, mts_spoolToDevice(m)
    PROVE  /\ recips' \in Seq(Recip) /\ rq' \in [Recip -> QueueRecord]
           /\ list' \in [Recip -> Seq(Cell)] /\ cell' \in [Cell -> CellRecord]
           /\ used' \subseteq Cell
           /\ \E at : /\ \A r \in Queued(m) :
                            at[r] \in Cell /\ at[r] \notin used
                      /\ \A r, s \in Queued(m) : at[r] = at[s] => r = s
                      /\ Queues(m, Queued(m), at)
<1> DEFINE R == Queued(m)
<1>0. R \in SUBSET Recip
  BY Addresses
<1>1. PICK at \in Allocations(R) :
        /\ recips' = DQ_getRecipQueue(R)
        /\ rq' = [r \in Recip |->
                    IF r \in R THEN DQ_addMessage(rq[r]) ELSE rq[r]]
        /\ list' = [r \in Recip |->
                      IF r \in R THEN Append(list[r], at[r]) ELSE list[r]]
        /\ cell' = [c \in Cell |->
                      IF \E r \in R : at[r] = c
                        THEN [msg |-> m, rcp |-> CHOOSE r \in R : at[r] = c,
                              status |-> "MQ_READY", completed |-> 0,
                              expiry |-> now + Expiry]
                        ELSE cell[c]]
        /\ used' = used \cup {at[r] : r \in R}
  <2>1. msg_addMessage(m)
    BY DEF mts_spoolToDevice
  <2> QED
    BY <2>1, Zenon DEF msg_addMessage
<1> HIDE DEF R
<1>2. /\ \A r \in R : at[r] \in Cell /\ at[r] \notin used
      /\ \A r, s \in R : at[r] = at[s] => r = s
  BY <1>0, Allocated
<1>3. /\ now \in Nat /\ now + Expiry \in Nat /\ recips \in Seq(Recip)
      /\ rq \in [Recip -> QueueRecord] /\ list \in [Recip -> Seq(Cell)]
      /\ cell \in [Cell -> CellRecord] /\ used \subseteq Cell
  <2>1. Expiry \in Nat /\ LastArrival \in Nat
    BY StoreAssumption
  <2> QED
    BY <2>1, Types DEF Typed
<1>4. recips' \in Seq(Recip)
  <2> DEFINE new == R \ {recips[i] : i \in 1 .. Len(recips)}
  <2>1. IsFiniteSet(new) /\ new \subseteq Recip
    BY <1>0, StoreAssumption, FS_Subset
  <2>2. SetToSeq(new) \in Seq(new)
    BY <2>1, Listed
  <2>3. SetToSeq(new) \in Seq(Recip)
    BY <2>1, <2>2, SeqMonotonic
  <2>4. SetToSeq(new) \o recips \in Seq(Recip)
    BY <1>3, <2>3, ConcatProperties
  <2> QED
    BY <1>1, <2>4 DEF DQ_getRecipQueue
<1>5. \A q \in QueueRecord : DQ_addMessage(q) \in QueueRecord
  BY <1>3 DEF QueueRecord, DQ_addMessage
<1>6. rq' \in [Recip -> QueueRecord]
  BY <1>1, <1>3, <1>5
<1>7. ASSUME NEW r \in Recip PROVE list'[r] \in Seq(Cell)
  BY <1>1, <1>2, <1>3, Appended
<1>8. list' \in [Recip -> Seq(Cell)]
  <2>1. \A r \in Recip :
          (IF r \in R THEN Append(list[r], at[r]) ELSE list[r]) \in Seq(Cell)
    BY <1>1, <1>7
  <2> QED
    BY <1>1, <2>1
<1>9. ASSUME NEW r \in R
      PROVE  cell'[at[r]] = [msg |-> m, rcp |-> r, status |-> "MQ_READY",
                             completed |-> 0, expiry |-> now + Expiry]
  <2>1. (CHOOSE s \in R : at[s] = at[r]) = r
    BY <1>2
  <2>2. \E s \in R : at[s] = at[r]
    OBVIOUS
  <2> QED
    BY <1>1, <1>2, <2>1, <2>2
<1>10. ASSUME NEW c \in Cell PROVE cell'[c] \in CellRecord
  <2>1. CASE \E r \in R : at[r] = c
    <3>1. PICK r \in R : at[r] = c
      BY <2>1
    <3>2. [msg |-> m, rcp |-> r, status |-> "MQ_READY", completed |-> 0,
           expiry |-> now + Expiry] \in CellRecord
      BY <1>0, <1>3 DEF CellRecord
    <3> QED
      BY <1>9, <3>1, <3>2
  <2>2. CASE ~ \E r \in R : at[r] = c
    BY <1>1, <1>3, <2>2
  <2> QED
    BY <2>1, <2>2
<1>11. cell' \in [Cell -> CellRecord]
  <2>1. cell' = [c \in Cell |-> cell'[c]]
    BY <1>1
  <2> QED
    BY <1>10, <2>1
<1>12. Queues(m, R, at)
  <2>1. \A r \in R : list'[r] = Append(list[r], at[r])
                     /\ rq'[r] = DQ_addMessage(rq[r])
    BY <1>0, <1>1
  <2>2. \A r \in Recip \ R : list'[r] = list[r] /\ rq'[r] = rq[r]
    BY <1>1
  <2>3. \A c \in Cell : (\A r \in R : at[r] # c) => cell'[c] = cell[c]
    BY <1>1
  <2> QED
    BY <1>1, <1>9, <2>1, <2>2, <2>3 DEF Queues
<1>13. used' \subseteq Cell
  BY <1>1, <1>2, <1>3
<1> QED
  BY <1>2, <1>4, <1>6, <1>8, <1>11, <1>12, <1>13, Zenon DEF R

\* What DQ_addMessage makes of a queue.
LEMMA CountedOneMore ==
    ASSUME NEW q
    PROVE  /\ DQ_addMessage(q).count = q.count + 1
           /\ q.status = "RQ_DELIVERING" =>
                DQ_addMessage(q).status = "RQ_DELIVERING"
BY DEF DQ_addMessage

\* The control file of a message is taken: the message is in the queues of its
\* recipients from then on.
LEMMA SpoolInv ==
    ASSUME StoreInv, ~ Misapplied, NEW m \in Msg, mts_spoolToDevice(m)
    PROVE  StoreInv'
<1>0. StoreTypeOK /\ Records /\ Covered /\ QueueInv
  BY DEF StoreInv
<1> DEFINE N == {<<IF r \in Subscriber THEN "dropped" ELSE "unknown", m, r>> :
                   r \in Addressed(m) \ Queued(m)}
<1>1. /\ now' = now /\ polled' = polled /\ ops' = ops /\ down' = down
      /\ m \in spool /\ spool' = spool \ {m} /\ told' = told \cup N
  BY DEF mts_spoolToDevice
<1>2. PICK R \in SUBSET Recip : R = Queued(m)
  BY Addresses
<1>3. PICK at : /\ \A r \in R : at[r] \in Cell /\ at[r] \notin used
                /\ \A r, s \in R : at[r] = at[s] => r = s
                /\ Queues(m, R, at)
  BY <1>0, <1>2, QueuedMessage, Zenon
<1>4. /\ recips' \in Seq(Recip) /\ rq' \in [Recip -> QueueRecord]
      /\ list' \in [Recip -> Seq(Cell)] /\ cell' \in [Cell -> CellRecord]
      /\ used' \subseteq Cell
  BY <1>0, QueuedMessage
<1>5. /\ now \in Nat /\ Expiry \in Nat /\ rq \in [Recip -> QueueRecord]
      /\ list \in [Recip -> Seq(Cell)] /\ cell \in [Cell -> CellRecord]
      /\ used \subseteq Cell
  BY <1>0, StoreAssumption, Types DEF Typed
<1>6. StoreTypeOK'
  BY <1>0, <1>1, <1>4, Types DEF Typed
<1>7. told \subseteq told'
      /\ \A n \in Msg, s \in Recip :
           <<"arrived", n, s>> \in told' => <<"arrived", n, s>> \in told
  BY <1>1
<1>8. Records'
  <2>1. ASSUME NEW t \in N
        PROVE  /\ t \in Event \X Msg \X Recip /\ t[1] # "arrived"
               /\ t[1] = "dropped" =>
                    t[3] \in (Addressed(t[2]) \cap Subscriber) \ Queued(t[2])
    BY Addresses DEF Event
  <2> HIDE DEF N
  <2> QED
    BY <1>0, <1>1, <2>1 DEF Records
\* Old cells and new ones.
<1>9. ASSUME NEW c \in Cell, c \in used \/ \A r \in R : at[r] # c
      PROVE  cell'[c] = cell[c]
  BY <1>3, <1>9 DEF Queues
<1>10. ASSUME NEW r \in R
       PROVE  /\ cell'[at[r]].msg = m /\ cell'[at[r]].rcp = r
              /\ cell'[at[r]].status = "MQ_READY"
              /\ cell'[at[r]].completed = 0
              /\ cell'[at[r]].expiry = now + Expiry
  <2>1. cell'[at[r]] = [msg |-> m, rcp |-> r, status |-> "MQ_READY",
                       completed |-> 0, expiry |-> now + Expiry]
    BY <1>3 DEF Queues
  <2> QED
    BY <2>1
<1>11. ASSUME NEW r \in Recip
       PROVE  Linked(r)' = IF r \in R THEN Linked(r) \cup {at[r]} ELSE Linked(r)
  <2>1. CASE r \in R
    <3>1. list'[r] = Append(list[r], at[r]) /\ at[r] \in Cell
          /\ list[r] \in Seq(Cell)
      BY <1>3, <1>5, <2>1 DEF Queues
    <3>2. Linked(r)' = {Append(list[r], at[r])[i] :
                            i \in 1 .. Len(Append(list[r], at[r]))}
      BY <3>1 DEF Linked
    <3> QED
      BY <2>1, <3>1, <3>2, Appended DEF Linked
  <2>2. CASE r \notin R
    BY <1>3, <2>2 DEF Queues, Linked
  <2> QED
    BY <2>1, <2>2
<1>12. \A r \in Recip : \A c \in Linked(r) :
          c \in used /\ c \in Cell /\ cell[c].rcp = r
  BY <1>0, <1>5 DEF QueueInv, Links
<1>13. Covered'
  <2>1. ASSUME NEW r \in Recip
        PROVE  Cardinality(Counted(r)') <= rq'[r].count
    <3>1. Counted(r) \in SUBSET Cell
      <4>1. \A o \in ops : o.cell \in Cell
        BY <1>0, CellOf
      <4> QED
        BY <1>5, <4>1 DEF Counted, InUse
    <3>2. ASSUME NEW c \in Counted(r)' 
          PROVE  c \in Counted(r) \/ (r \in R /\ c = at[r])
      <4>1. c \in InUse \/ \E s \in R : c = at[s]
        BY <1>1, <1>3 DEF Counted, InUse, Queues
      <4>2. ASSUME NEW s \in R, c = at[s] PROVE r \in R /\ c = at[r]
        <5>1. cell'[c].rcp = s /\ cell'[c].rcp = r
          BY <1>10, <4>2 DEF Counted
        <5> QED
          BY <4>2, <5>1
      <4>3. ASSUME c \in InUse, \A s \in R : at[s] # c PROVE c \in Counted(r)
        <5>1. c \in Cell
          <6>1. \A o \in ops : o.cell \in Cell
            BY <1>0, CellOf
          <6> QED
            BY <1>5, <4>3, <6>1 DEF InUse
        <5>2. cell'[c] = cell[c]
          BY <1>9, <4>3, <5>1
        <5>3. cell'[c].rcp = r /\ cell'[c].completed = 0
          BY DEF Counted
        <5> QED
          BY <4>3, <5>2, <5>3 DEF Counted
      <4> QED
        BY <4>1, <4>2, <4>3
    <3>3. Cardinality(Counted(r)) <= rq[r].count /\ rq[r].count \in Nat
      BY <1>0, <1>5 DEF Covered, QueueRecord
    <3>4. Cardinality(Counted(r)) \in Nat
      BY <3>1, Counting
    <3>5. CASE r \in R
      <4>1. Counted(r)' \subseteq Counted(r) \cup {at[r]}
        BY <3>2, <3>5
      <4>2. Cardinality(Counted(r)') <= Cardinality(Counted(r)) + 1
        BY <3>1, <4>1, Counting
      <4>3. Counted(r)' \in SUBSET Cell
        BY <1>3, <3>1, <3>5, <4>1
      <4>4. Cardinality(Counted(r)') \in Nat
        BY <4>3, Counting
      <4>5. rq'[r].count = rq[r].count + 1
        BY <1>3, <3>5, CountedOneMore DEF Queues
      <4> QED
        BY <3>3, <3>4, <4>2, <4>4, <4>5
    <3>6. CASE r \notin R
      <4>1. Counted(r)' \subseteq Counted(r)
        BY <3>2, <3>6
      <4>2. Cardinality(Counted(r)') <= Cardinality(Counted(r))
        BY <3>1, <4>1, Counting
      <4>3. Cardinality(Counted(r)') \in Nat
        BY <3>1, <4>1, Counting
      <4>4. rq'[r] = rq[r]
        BY <1>3, <3>6 DEF Queues
      <4> QED
        BY <3>3, <3>4, <4>2, <4>3, <4>4
    <3> QED
      BY <3>5, <3>6
  <2> QED
    BY <2>1 DEF Covered
<1>14. Links'
  <2>1. ASSUME NEW r \in Recip, NEW c \in Linked(r)'
        PROVE  c \in used' /\ cell'[c].rcp = r
    <3>1. CASE c \in Linked(r)
      BY <1>3, <1>9, <1>12, <3>1 DEF Queues
    <3>2. CASE r \in R /\ c = at[r]
      BY <1>3, <1>10, <3>2 DEF Queues
    <3> QED
      BY <1>11, <2>1, <3>1, <3>2
  <2>2. ASSUME NEW r \in Recip PROVE IsInjective(list'[r])
    <3>1. CASE r \in R
      <4>1. /\ list'[r] = Append(list[r], at[r]) /\ at[r] \in Cell
            /\ at[r] \notin used /\ list[r] \in Seq(Cell)
        BY <1>3, <1>5, <3>1 DEF Queues
      <4>2. IsInjective(list[r])
        BY <1>0 DEF QueueInv, Links
      <4>3. \A i \in 1 .. Len(list[r]) : list[r][i] # at[r]
        BY <1>0, <1>12, <4>1, LinkedCells
      <4>4. \A i, j \in DOMAIN list[r] : list[r][i] = list[r][j] => i = j
        BY <4>2, Zenon DEF IsInjective
      <4>5. DOMAIN list[r] = 1 .. Len(list[r]) /\ Len(list[r]) \in Nat
        BY <1>0, LinkedCells
      <4>6. DOMAIN list'[r] = 1 .. Len(list[r]) + 1
        BY <4>1, Appended
      <4>7. ASSUME NEW i \in DOMAIN list'[r], NEW j \in DOMAIN list'[r],
                   list'[r][i] = list'[r][j]
            PROVE  i = j
        <5>1. /\ \A k \in 1 .. Len(list[r]) : list'[r][k] = list[r][k]
              /\ list'[r][Len(list[r]) + 1] = at[r]
          BY <4>1, Appended
        <5>2. /\ i \in 1 .. Len(list[r]) \/ i = Len(list[r]) + 1
              /\ j \in 1 .. Len(list[r]) \/ j = Len(list[r]) + 1
          BY <4>5, <4>6
        <5>3. CASE i \in 1 .. Len(list[r]) /\ j \in 1 .. Len(list[r])
          BY <4>4, <4>5, <4>7, <5>1, <5>3
        <5>4. CASE i = Len(list[r]) + 1 /\ j \in 1 .. Len(list[r])
          BY <4>3, <4>7, <5>1, <5>4
        <5>5. CASE i \in 1 .. Len(list[r]) /\ j = Len(list[r]) + 1
          BY <4>3, <4>7, <5>1, <5>5
        <5> QED
          BY <5>2, <5>3, <5>4, <5>5
      <4> QED
        BY <4>7, Zenon DEF IsInjective
    <3>2. CASE r \notin R
      <4>1. list'[r] = list[r] /\ IsInjective(list[r])
        BY <1>0, <1>3, <3>2 DEF Queues, QueueInv, Links
      <4> QED
        BY <4>1 
    <3> QED
      BY <3>1, <3>2
  <2>3. used' = UNION {Linked(r)' : r \in Recip}
    <3>1. ASSUME NEW c \in used' PROVE \E r \in Recip : c \in Linked(r)'
      <4>1. CASE c \in used
        <5>1. PICK r \in Recip : c \in Linked(r)
          BY <1>0, <4>1 DEF QueueInv, Links
        <5> QED
          BY <1>11, <5>1
      <4>2. CASE \E r \in R : c = at[r]
        BY <1>11, <4>2
      <4> QED
        BY <1>3, <3>1, <4>1, <4>2 DEF Queues
    <3> QED
      BY <2>1, <3>1
  <2> QED
    BY <2>1, <2>2, <2>3 DEF Links
<1>15. Ordered'
  <2> SUFFICES ASSUME NEW r \in Recip, NEW i \in 1 .. Len(list'[r]),
                      NEW j \in 1 .. Len(list'[r]), i < j
               PROVE  Earlier(cell'[list'[r][i]], cell'[list'[r][j]])
    BY DEF Ordered, Earlier
  <2>1. Len(list[r]) \in Nat /\ list[r] \in Seq(Cell)
    BY <1>5
  <2>2. ASSUME NEW k \in 1 .. Len(list[r])
        PROVE  cell'[list[r][k]] = cell[list[r][k]] /\ list[r][k] \in used
    BY <1>0, <1>9, <1>12, LinkedCells
  <2>3. \A k, l \in 1 .. Len(list[r]) : k < l =>
           Earlier(cell[list[r][k]], cell[list[r][l]])
    BY <1>0 DEF QueueInv, Ordered
  <2>4. CASE r \in R
    <3>1. list'[r] = Append(list[r], at[r]) /\ at[r] \in Cell
      BY <1>3, <2>4 DEF Queues
    <3>2. /\ Len(list'[r]) = Len(list[r]) + 1
          /\ \A k \in 1 .. Len(list[r]) : list'[r][k] = list[r][k]
          /\ list'[r][Len(list[r]) + 1] = at[r]
      BY <2>1, <3>1, Appended
    <3>3. i \in 1 .. Len(list[r])
          /\ (j \in 1 .. Len(list[r]) \/ j = Len(list[r]) + 1)
      BY <2>1, <3>2
    <3>4. CASE j \in 1 .. Len(list[r])
      BY <2>2, <2>3, <3>2, <3>3, <3>4
    <3>5. CASE j = Len(list[r]) + 1
      <4>1. PICK a \in used : a = list[r][i] /\ cell'[a] = cell[a]
        BY <2>2, <3>3
      <4>2. cell[a].expiry <= now + Expiry
        BY <1>0 DEF QueueInv, CellOK
      <4>3. list'[r][i] = a /\ list'[r][j] = at[r]
        BY <3>2, <3>3, <3>5, <4>1
      <4> QED
        BY <1>10, <2>4, <4>1, <4>2, <4>3 DEF Earlier
    <3> QED
      BY <3>3, <3>4, <3>5
  <2>5. CASE r \notin R
    <3>1. list'[r] = list[r]
      BY <1>3, <2>5 DEF Queues
    <3> QED
      BY <2>2, <2>3, <3>1
  <2> QED
    BY <2>4, <2>5
\* The queues that wait keep waiting.
<1>16. ASSUME NEW r \in Recip, rq[r].status = "RQ_DELIVERING"
       PROVE  rq'[r].status = "RQ_DELIVERING"
  <2>1. CASE r \in R
    <3>1. rq'[r] = DQ_addMessage(rq[r])
      BY <1>3, <2>1 DEF Queues
    <3> QED
      BY <1>16, <3>1, CountedOneMore
  <2>2. CASE r \notin R
    BY <1>3, <1>16, <2>2 DEF Queues
  <2> QED
    BY <2>1, <2>2
<1>17. ASSUME NEW n \in Msg, NEW s \in Recip, Taken(n, s)
       PROVE  Taken(n, s)' /\ n # m
  BY <1>1, <1>7, <1>17 DEF Taken
<1>18. ASSUME NEW c \in used' PROVE CellOK(c)'
  <2>1. CASE c \in used
    <3>1. /\ CellOK(c) /\ cell'[c] = cell[c]
          /\ cell[c].msg \in Msg /\ cell[c].rcp \in Recip
      BY <1>0, <1>5, <1>9, <2>1 DEF QueueInv, CellRecord
    <3>2. Taken(cell[c].msg, cell[c].rcp)'
      BY <1>17, <3>1 DEF CellOK
    <3>3. \A o \in ops : o.cell = c => Held(o)' = Held(o)
      BY <3>1 DEF Held
    <3> QED
      BY <1>1, <1>16, <3>1, <3>2, <3>3 DEF CellOK, Taken
  <2>2. ASSUME NEW r \in R, c = at[r] PROVE CellOK(c)'
    <3>1. Taken(m, r)'
      <4>1. <<"arrived", m, r>> \in told
        BY <1>0, <1>1, <1>2, Addresses DEF QueueInv, Spooled
      <4> QED
        BY <1>1, <4>1 DEF Taken
    <3>2. 0 <= now /\ now + Expiry <= now' + Expiry
      BY <1>1, <1>5
    <3> QED
      BY <1>1, <1>10, <2>2, <3>1, <3>2 DEF CellOK, Taken
  <2> QED
    BY <1>3, <2>1, <2>2 DEF Queues
<1>19. ASSUME NEW o \in ops PROVE OpOK(o)'
  <2>1. OpOK(o) /\ o.msg \in Msg /\ o.rcp \in Recip /\ o.cell \in Cell
    BY <1>0, CellOf DEF QueueInv
  <2>2. Taken(o.msg, o.rcp)' /\ o.msg # m
    BY <1>17, <2>1 DEF OpOK
  <2>3. CASE \E r \in R : at[r] = o.cell
    <3>1. Held(o)' # <<o.msg, o.rcp>>
      BY <1>10, <2>2, <2>3 DEF Held
    <3> QED
      BY <1>1, <1>16, <2>1, <2>2, <3>1 DEF OpOK
  <2>4. CASE ~ \E r \in R : at[r] = o.cell
    <3>1. cell'[o.cell] = cell[o.cell]
      BY <1>9, <2>1, <2>4
    <3> QED
      BY <1>1, <1>16, <2>1, <2>2, <3>1 DEF OpOK, Held
  <2> QED
    BY <2>3, <2>4
<1>20. ASSUME NEW n \in Msg, NEW s \in Subscriber PROVE Remembered(n, s)'
  <2>0. s \in Recip
    BY StoreAssumption
  <2> SUFFICES ASSUME <<"arrived", n, s>> \in told'
               PROVE  \/ Settlement(n, s)'
                      \/ n \in spool'
                      \/ \E c \in Linked(s)' :
                            /\ cell'[c].msg = n /\ cell'[c].completed = 0
                            /\ InTime(c)'
    BY DEF Remembered
  <2>1. <<"arrived", n, s>> \in told
    BY <1>7, <2>0
  <2>2. CASE n = m
    <3>1. s \in Addressed(m)
      <4>1. <<"arrived", n, s>>[3] \in Addressed(<<"arrived", n, s>>[2])
        BY <1>0, <2>1 DEF Records
      <4> QED
        BY <2>2, <4>1
    <3>2. CASE s \in R
      <4>1. at[s] \in Linked(s)'
        BY <1>11, <2>0, <3>2
      <4>2. now <= now + Expiry + 0 /\ now <= now + Expiry + 1
        BY <1>5
      <4>3. InTime(at[s])'
        BY <1>1, <1>5, <1>10, <3>2, <4>2 DEF InTime
      <4> QED
        BY <1>10, <2>2, <3>2, <4>1, <4>3
    <3>3. CASE s \notin R
      <4>1. <<"dropped", m, s>> \in N
        BY <1>2, <3>1, <3>3
      <4> QED
        BY <1>1, <2>2, <4>1 DEF Settlement
    <3> QED
      BY <3>2, <3>3
  <2>3. CASE n # m
    <3>1. \/ Settlement(n, s)
          \/ n \in spool
          \/ \E c \in Linked(s) :
                cell[c].msg = n /\ cell[c].completed = 0 /\ InTime(c)
      BY <1>0, <2>1 DEF QueueInv, Remembered
    <3>2. Settlement(n, s) => Settlement(n, s)'
      BY <1>7 DEF Settlement
    <3>3. n \in spool => n \in spool'
      BY <1>1, <2>3
    <3>4. ASSUME NEW c \in Linked(s), InTime(c)
          PROVE  c \in Linked(s)' /\ cell'[c] = cell[c] /\ InTime(c)'
      <4>1. c \in Linked(s)' /\ cell'[c] = cell[c]
        BY <1>9, <1>11, <1>12, <2>0
      <4> QED
        BY <1>1, <3>4, <4>1 DEF InTime
    <3> QED
      BY <3>1, <3>2, <3>3, <3>4
  <2> QED
    BY <2>2, <2>3
<1>21. Spooled'
  BY <1>0, <1>1, <1>7 DEF QueueInv, Spooled
<1> QED
  BY <1>1, <1>6, <1>8, <1>13, <1>14, <1>15, <1>18, <1>19, <1>20, <1>21
     DEF StoreInv, QueueInv

-----------------------------------------------------------------------------
(* The queues are served.                                                  *)

\* What is ahead of a cell that msg_cleanQueue removes is removed too: it
\* completed before and expires before.
LEMMA RemovedInOrder ==
    ASSUME StoreTypeOK, NEW a \in used, NEW b \in used, CellOK(b),
           Earlier(cell[a], cell[b]), Deletable(b)
    PROVE  Deletable(a)
<1>1. /\ cell[a] \in CellRecord /\ cell[b] \in CellRecord
      /\ now \in Nat /\ Keep \in Nat
  BY StoreAssumption, Types DEF Typed
<1>2. /\ cell[a].completed \in Nat /\ cell[b].completed \in Nat
      /\ cell[a].expiry \in Nat /\ cell[b].expiry \in Nat
  BY <1>1 DEF CellRecord
<1>3. CASE Settled(b)
  <2>1. cell[b].status # "MQ_READY" /\ now - cell[b].completed > Keep
    BY <1>3 DEF Settled, CellOK
  <2>2. cell[a].completed # 0 /\ cell[a].completed <= cell[b].completed
    BY <1>3, <2>1 DEF Settled, Earlier
  <2> QED
    BY <1>1, <1>2, <2>1, <2>2 DEF Deletable, Settled
<1>4. CASE Expired(b)
  BY <1>1, <1>2, <1>4 DEF Deletable, Expired, Earlier
<1> QED
  BY <1>3, <1>4 DEF Deletable

\* So a queue loses a first part.
LEMMA Cleaning ==
    ASSUME StoreTypeOK, QueueInv, NEW r \in Recip
    PROVE  \E k \in 0 .. Len(list[r]) :
              /\ Cleaned(r) \in Seq(Cell)
              /\ Len(Cleaned(r)) = Len(list[r]) - k
              /\ \A i \in 1 .. Len(list[r]) - k :
                    Cleaned(r)[i] = list[r][k + i]
              /\ \A i \in 1 .. Len(list[r]) : Deletable(list[r][i]) <=> i <= k
<1> DEFINE n == Len(list[r])
           P == {i \in 1 .. n : ~ Deletable(list[r][i])}
<1>1. n \in Nat /\ list[r] \in Seq(Cell) /\ \A i \in 1 .. n : list[r][i] \in Cell
  BY LinkedCells
<1>2. Cleaned(r) = IF P = {} THEN <<>> ELSE SubSeq(list[r], Min(P), n)
  BY DEF Cleaned
<1>3. ASSUME NEW i \in 1 .. n, NEW j \in 1 .. n, i < j, Deletable(list[r][j])
      PROVE  Deletable(list[r][i])
  <2>1. PICK a \in used, b \in used : a = list[r][i] /\ b = list[r][j]
    BY LinkedCells DEF QueueInv, Links
  <2>2. CellOK(b) /\ Earlier(cell[a], cell[b])
    BY <1>3, <2>1 DEF QueueInv, Ordered
  <2> QED
    BY <1>3, <2>1, <2>2, RemovedInOrder
<1>4. CASE P = {}
  <2>1. Cleaned(r) = <<>>
    BY <1>2, <1>4
  <2>2. \A i \in 1 .. n : Deletable(list[r][i])
    BY <1>4
  <2>3. n \in 0 .. n /\ n - n = 0 /\ \A i \in 1 .. n : i <= n
    BY <1>1
  <2>4. Cleaned(r) \in Seq(Cell) /\ Len(Cleaned(r)) = n - n
    BY <2>1, <2>3, EmptySeq
  <2> QED
    BY <2>2, <2>3, <2>4
<1>5. CASE P # {}
  <2>1. Min(P) \in P /\ \A j \in P : Min(P) <= j
    <3>1. P \in SUBSET Nat
      BY <1>1
    <3> HIDE DEF P
    <3> QED
      BY <1>5, <3>1, Least
  <2>2. PICK f \in 1 .. n : f = Min(P)
    BY <2>1
  <2>3. ~ Deletable(list[r][f]) /\ \A j \in 1 .. n : j < f => Deletable(list[r][j])
    <3>1. ~ Deletable(list[r][f])
      BY <2>1, <2>2
    <3>2. ASSUME NEW j \in 1 .. n, j < f PROVE Deletable(list[r][j])
      <4>1. j \in P => f <= j
        BY <2>1, <2>2
      <4>2. j \notin P
        <5> HIDE DEF P
        <5> QED
          BY <1>1, <3>2, <4>1
      <4> QED
        BY <4>2
    <3> QED
      BY <3>1, <3>2
  <2>4. \A j \in 1 .. n : f <= j => ~ Deletable(list[r][j])
    BY <1>1, <1>3, <2>3
  <2>5. Cleaned(r) = SubSeq(list[r], f, n)
    BY <1>2, <1>5, <2>2
  <2>6. /\ Cleaned(r) \in Seq(Cell) /\ Len(Cleaned(r)) = n - f + 1
        /\ \A i \in 1 .. n - f + 1 : Cleaned(r)[i] = list[r][f + i - 1]
    <3>1. f \in Int /\ n \in Int /\ f <= n /\ \A i \in f .. n : list[r][i] \in Cell
      BY <1>1
    <3> QED
      BY <2>5, <3>1, SubSeqProperties
  <2>7. PICK k \in 0 .. n : k = f - 1
    BY <1>1
  <2>8. /\ Len(Cleaned(r)) = n - k
        /\ \A i \in 1 .. n - k : Cleaned(r)[i] = list[r][k + i]
    <3>0. n \in Nat /\ f \in 1 .. n /\ k = f - 1
      BY <1>1, <2>7
    <3>1. n - f + 1 = n - k
      BY ONLY <3>0
    <3>2. ASSUME NEW i \in 1 .. n - k
          PROVE  i \in 1 .. n - f + 1 /\ f + i - 1 = k + i
      BY ONLY <3>0, <3>2
    <3> QED
      BY ONLY <2>6, <3>1, <3>2
  <2>9. \A i \in 1 .. n : Deletable(list[r][i]) <=> i <= k
    BY <1>1, <2>3, <2>4, <2>7
  <2> QED
    BY <2>6, <2>8, <2>9
<1> QED
  BY <1>4, <1>5

\* What is left of a queue.
LEMMA CleanedCells ==
    ASSUME StoreTypeOK, QueueInv, NEW r \in Recip
    PROVE  /\ Cleaned(r) \in Seq(Cell) /\ Len(Cleaned(r)) \in Nat
           /\ DOMAIN Cleaned(r) = 1 .. Len(Cleaned(r))
           /\ {Cleaned(r)[i] : i \in 1 .. Len(Cleaned(r))} =
                {c \in Linked(r) : ~ Deletable(c)}
           /\ \A i, j \in 1 .. Len(Cleaned(r)) : i < j =>
                /\ Cleaned(r)[i] # Cleaned(r)[j]
                /\ Earlier(cell[Cleaned(r)[i]], cell[Cleaned(r)[j]])
<1> DEFINE n == Len(list[r])
           q == Cleaned(r)
<1>1. PICK k \in 0 .. n :
        /\ q \in Seq(Cell) /\ Len(q) = n - k
        /\ \A i \in 1 .. n - k : q[i] = list[r][k + i]
        /\ \A i \in 1 .. n : Deletable(list[r][i]) <=> i <= k
  BY Cleaning
<1>2. n \in Nat
  BY LinkedCells
<1> HIDE DEF q
<1>3. ASSUME NEW c \in Linked(r), ~ Deletable(c)
      PROVE  \E i \in 1 .. Len(q) : q[i] = c
  <2>1. PICK j \in 1 .. n : list[r][j] = c
    BY LinkedCells
  <2>2. k < j
    BY <1>1, <1>2, <1>3, <2>1
  <2>3. j - k \in 1 .. n - k /\ k + (j - k) = j
    BY <1>2, <2>2
  <2> QED
    BY <1>1, <2>1, <2>3
<1>4. ASSUME NEW i \in 1 .. Len(q)
      PROVE  q[i] \in Linked(r) /\ ~ Deletable(q[i])
  <2>1. k + i \in 1 .. n /\ i \in 1 .. n - k /\ ~ (k + i <= k)
    BY <1>1, <1>2
  <2>2. list[r][k + i] \in Linked(r)
    BY <2>1, LinkedCells
  <2> QED
    BY <1>1, <2>1, <2>2
<1>5. {q[i] : i \in 1 .. Len(q)} = {c \in Linked(r) : ~ Deletable(c)}
  BY <1>3, <1>4
<1>6. ASSUME NEW i \in 1 .. Len(q), NEW j \in 1 .. Len(q), i < j
      PROVE  q[i] # q[j] /\ Earlier(cell[q[i]], cell[q[j]])
  <2>1. /\ k + i \in 1 .. n /\ k + j \in 1 .. n /\ k + i < k + j
        /\ i \in 1 .. n - k /\ j \in 1 .. n - k
    BY <1>1, <1>2, <1>6
  <2>2. list[r][k + i] # list[r][k + j]
    BY <2>1, LinkedDistinct DEF QueueInv
  <2>3. Earlier(cell[list[r][k + i]], cell[list[r][k + j]])
    BY <2>1 DEF QueueInv, Ordered
  <2> QED
    BY <1>1, <2>1, <2>2, <2>3
<1> QED
  BY <1>1, <1>2, <1>5, <1>6 DEF q

\* The message msg_getMessage takes from a queue that is due: it is not done
\* with, what is ahead of it is, and what is behind it was never tried.
Chosen(r, c) ==
    /\ rq[r].status = "RQ_READY"
    /\ c \in Linked(r) /\ ~ Deletable(c)
    /\ cell[c].completed = 0
    /\ \E w \in 1 .. Len(Cleaned(r)) :
          /\ Cleaned(r)[w] = c
          /\ \A i \in 1 .. Len(Cleaned(r)) :
                /\ i < w => cell[Cleaned(r)[i]].completed # 0
                /\ w < i => cell[Cleaned(r)[i]].status = "MQ_READY"

LEMMA NextMessage ==
    ASSUME StoreTypeOK, QueueInv, NEW r \in Recip, Due(r)
    PROVE  Chosen(r, msg_getMessage(r))
<1> DEFINE q == Cleaned(r)
<1>1. rq[r].status = "RQ_READY" /\ Waiting(r) # {}
  BY DEF Due
<1>2. /\ Len(q) \in Nat
      /\ {q[i] : i \in 1 .. Len(q)} = {c \in Linked(r) : ~ Deletable(c)}
      /\ \A i, j \in 1 .. Len(q) : i < j => Earlier(cell[q[i]], cell[q[j]])
  BY CleanedCells
<1>3. Waiting(r) = {i \in 1 .. Len(q) :
                       cell[q[i]].status \in {"MQ_READY", "MQ_FAILED"}}
  BY DEF Waiting
<1>4. PICK w \in Waiting(r) : w = Min(Waiting(r)) /\ \A j \in Waiting(r) : w <= j
  <2>1. Waiting(r) \in SUBSET Nat
    BY <1>2, <1>3, SMTT(40)
  <2> QED
    BY <1>1, <2>1, Least
<1>5. w \in 1 .. Len(q) /\ cell[q[w]].status \in {"MQ_READY", "MQ_FAILED"}
  BY <1>3, <1>4
<1>6. msg_getMessage(r) = q[w]
  BY <1>4 DEF msg_getMessage
<1> HIDE DEF q
<1>7. ASSUME NEW i \in 1 .. Len(q)
      PROVE  /\ q[i] \in Linked(r) /\ ~ Deletable(q[i])
             /\ CellOK(q[i]) /\ cell[q[i]].rcp = r /\ cell[q[i]] \in CellRecord
  <2>1. q[i] \in Linked(r) /\ ~ Deletable(q[i])
    BY <1>2
  <2> QED
    BY <2>1, Types DEF QueueInv, Links, Typed
<1>8. ASSUME NEW i \in 1 .. Len(q) PROVE cell[q[i]].status # "MQ_DELIVERING"
  <2>1. \A o \in ops : o.rcp # r
    BY <1>1 DEF QueueInv, OpOK
  <2> QED
    BY <1>7, <2>1 DEF CellOK, Held
<1>9. cell[q[w]].completed = 0
  BY <1>1, <1>5, <1>7 DEF CellOK
<1>10. ASSUME NEW i \in 1 .. Len(q), i < w PROVE cell[q[i]].completed # 0
  <2>1. i \notin Waiting(r)
    BY <1>2, <1>4, <1>5, <1>10
  <2>2. cell[q[i]].status = "MQ_SUCCEDED"
    BY <1>3, <1>7, <1>8, <2>1 DEF CellOK, CellRecord
  <2> QED
    BY <1>7, <2>2 DEF CellOK
<1>11. ASSUME NEW i \in 1 .. Len(q), w < i PROVE cell[q[i]].status = "MQ_READY"
  BY <1>2, <1>5, <1>9, <1>11 DEF Earlier
<1> QED
  BY <1>1, <1>5, <1>6, <1>7, <1>9, <1>10, <1>11 DEF Chosen, q

\* What a run of mts_tryDelivery does that begins an operation for each of the
\* recipients B on the cell g[r], and gives up the message of those in D.
Begun(r, c) == [cell |-> c, rcp |-> r, msg |-> cell[c].msg,
                retryCount |-> 0, since |-> now]
Serves(B, D, g) ==
    /\ B \subseteq Recip /\ D \subseteq Recip /\ B \cap D = {}
    /\ \A r \in B \cup D : Chosen(r, g[r])
    /\ \A r \in B : cell'[g[r]] = [cell[g[r]] EXCEPT !.status = "MQ_DELIVERING"]
    /\ \A r \in D : cell'[g[r]] = [cell[g[r]] EXCEPT !.status = "MQ_FAILED",
                                                     !.completed = now]
    /\ \A c \in Cell : (\A r \in B \cup D : g[r] # c) => cell'[c] = cell[c]
    /\ \A r \in B : rq'[r] = [rq[r] EXCEPT !.status = "RQ_DELIVERING"]
    /\ \A r \in D : rq'[r] = [rq[r] EXCEPT !.count = @ - 1,
                                           !.status = "RQ_DELIVERING"]
    /\ \A r \in Recip \ (B \cup D) : rq'[r] = rq[r]
    /\ ops' = ops \cup {Begun(r, g[r]) : r \in B}
    /\ \A r \in Recip : list'[r] = Cleaned(r)
    /\ used' = {c \in used : ~ Deletable(c)}
    /\ \A c \in used : Expired(c) => <<"ndr", cell[c].msg, cell[c].rcp>> \in told'
    /\ \A r \in D : <<"refused", cell[g[r]].msg, r>> \in told'
    /\ told \subseteq told'
    /\ \A t \in told' : t \in told \/ (t \in Event \X Msg \X Recip
                                       /\ t[1] \notin {"arrived", "dropped"})
    /\ polled' = TRUE /\ UNCHANGED <<now, spool, recips, down>>
    /\ rq' = [r \in Recip |-> rq'[r]] /\ cell' = [c \in Cell |-> cell'[c]]
    /\ list' = [r \in Recip |-> list'[r]]

LEMMA Service ==
    ASSUME StoreTypeOK, QueueInv, mts_tryDelivery
    PROVE  \E B, D, g : Serves(B, D, g)
<1>1. /\ recips \in Seq(Recip) /\ Len(recips) \in Nat
      /\ now \in Nat /\ used \subseteq Cell
      /\ cell \in [Cell -> CellRecord] /\ rq \in [Recip -> QueueRecord]
  BY StoreAssumption, Types DEF Typed
<1>0. PICK n \in 0 .. Len(recips) :
        /\ n < Len(recips) => Due(recips[n + 1])
        /\ TryDelivery({r \in {recips[i] : i \in 1 .. n} : Due(r)},
                       {recips[i] : i \in {n + 1} \cap 1 .. Len(recips)})
  BY Zenon DEF mts_tryDelivery
<1>a. PICK B, E : /\ B = {r \in {recips[i] : i \in 1 .. n} : Due(r)}
                  /\ E = {recips[i] : i \in {n + 1} \cap 1 .. Len(recips)}
  OBVIOUS
<1>b. TryDelivery(B, E)
  BY <1>0, <1>a, Zenon
<1>2. /\ msg_cleanQueue
      /\ cell' = [c \in Cell |->
           IF \E r \in B : c = msg_getMessage(r)
             THEN [cell[c] EXCEPT !.status = "MQ_DELIVERING"]
           ELSE IF \E r \in E : c = msg_getMessage(r)
             THEN msg_deleteMessage(cell[c])
           ELSE cell[c]]
      /\ rq' = [r \in Recip |->
           IF r \in B THEN [rq[r] EXCEPT !.status = "RQ_DELIVERING"]
           ELSE IF r \in E
             THEN [Uncount(rq[r], cell[msg_getMessage(r)])
                     EXCEPT !.status = "RQ_DELIVERING"]
           ELSE rq[r]]
      /\ ops' = ops \cup
           {[cell |-> msg_getMessage(r), rcp |-> r,
             msg |-> cell[msg_getMessage(r)].msg,
             retryCount |-> 0, since |-> now] : r \in B}
      /\ told' = told
           \cup {<<"ndr", cell[c].msg, cell[c].rcp>> :
                   c \in {d \in UNION {Linked(r) : r \in Recip} :
                            Expired(d)}}
           \cup {<<"refused", cell[msg_getMessage(r)].msg, r>> : r \in E}
      /\ polled' = TRUE
      /\ UNCHANGED <<now, spool, recips, down>>
  BY <1>b, Zenon DEF TryDelivery
<1>3. /\ B \subseteq Recip /\ E \subseteq Recip
      /\ \A r \in B \cup E : Due(r)
  BY <1>0, <1>1, <1>a
<1>4. PICK D : D = E \ B
  OBVIOUS
<1>5. PICK g : g = [r \in B \cup D |-> msg_getMessage(r)]
  OBVIOUS
<1>6. ASSUME NEW r \in B \cup D
      PROVE  /\ r \in Recip /\ g[r] = msg_getMessage(r) /\ Chosen(r, g[r])
             /\ g[r] \in used /\ g[r] \in Cell /\ cell[g[r]].rcp = r
             /\ cell[g[r]].completed = 0
  <2>1. r \in Recip /\ g[r] = msg_getMessage(r) /\ Chosen(r, g[r])
    BY <1>3, <1>4, <1>5, NextMessage
  <2> QED
    BY <1>1, <2>1 DEF Chosen, QueueInv, Links
<1>7. \A r, s \in B \cup D : g[r] = g[s] => r = s
  BY <1>6
<1>8. ASSUME NEW r \in B
      PROVE  /\ cell'[g[r]] = [cell[g[r]] EXCEPT !.status = "MQ_DELIVERING"]
             /\ rq'[r] = [rq[r] EXCEPT !.status = "RQ_DELIVERING"]
  BY <1>2, <1>6
<1>9. ASSUME NEW r \in D
      PROVE  /\ cell'[g[r]] = [cell[g[r]] EXCEPT !.status = "MQ_FAILED",
                                                 !.completed = now]
             /\ rq'[r] = [rq[r] EXCEPT !.count = @ - 1,
                                       !.status = "RQ_DELIVERING"]
  <2>1. r \in E /\ r \notin B /\ ~ \E s \in B : g[r] = msg_getMessage(s)
    BY <1>4, <1>6, <1>7
  <2>2. cell'[g[r]] = msg_deleteMessage(cell[g[r]])
    BY <1>2, <1>6, <2>1
  <2>3. rq'[r] = [Uncount(rq[r], cell[g[r]]) EXCEPT !.status = "RQ_DELIVERING"]
    BY <1>2, <1>6, <2>1
  <2>4. msg_deleteMessage(cell[g[r]]) =
          [cell[g[r]] EXCEPT !.status = "MQ_FAILED", !.completed = now]
    BY <1>6 DEF msg_deleteMessage
  <2>5. Uncount(rq[r], cell[g[r]]) = [rq[r] EXCEPT !.count = @ - 1]
    BY <1>6 DEF Uncount
  <2>6. rq[r] \in QueueRecord
    BY <1>1, <1>6
  <2> QED
    BY <2>2, <2>3, <2>4, <2>5, <2>6 DEF QueueRecord
<1>10. ASSUME NEW c \in Cell, \A r \in B \cup D : g[r] # c
       PROVE  cell'[c] = cell[c]
  <2>1. ~ \E r \in B : c = msg_getMessage(r)
    BY <1>6, <1>10
  <2>2. ~ \E r \in E : c = msg_getMessage(r)
    BY <1>4, <1>6, <1>10
  <2> QED
    BY <1>2, <2>1, <2>2
<1>11. \A r \in Recip \ (B \cup D) : rq'[r] = rq[r]
  BY <1>2, <1>4
<1>12. ops' = ops \cup {Begun(r, g[r]) : r \in B}
  BY <1>2, <1>6 DEF Begun
<1>13. /\ \A r \in Recip : list'[r] = Cleaned(r)
       /\ used' = {c \in used : ~ Deletable(c)}
       /\ list' = [r \in Recip |-> list'[r]]
  BY <1>2 DEF msg_cleanQueue, QueueInv, Links
<1>14. /\ told \subseteq told'
       /\ \A c \in used : Expired(c) =>
             <<"ndr", cell[c].msg, cell[c].rcp>> \in told'
       /\ \A r \in D : <<"refused", cell[g[r]].msg, r>> \in told'
  BY <1>2, <1>4, <1>6 DEF QueueInv, Links
<1>15. ASSUME NEW t \in told', t \notin told
       PROVE  /\ t \in Event \X Msg \X Recip
              /\ t[1] \notin {"arrived", "dropped"}
  <2>1. CASE \E c \in used : t = <<"ndr", cell[c].msg, cell[c].rcp>>
    BY <1>1, <2>1 DEF CellRecord, Event
  <2>2. CASE \E r \in E : t = <<"refused", cell[msg_getMessage(r)].msg, r>>
    <3>1. PICK r \in E : t = <<"refused", cell[msg_getMessage(r)].msg, r>>
      BY <2>2
    <3>2. r \in Recip /\ msg_getMessage(r) \in Cell
      <4>1. r \in Recip /\ Chosen(r, msg_getMessage(r))
        BY <1>3, NextMessage
      <4> QED
        BY <1>1, <4>1 DEF Chosen, QueueInv, Links
    <3>3. cell[msg_getMessage(r)].msg \in Msg
      BY <1>1, <3>2 DEF CellRecord
    <3> QED
      BY <3>1, <3>2, <3>3 DEF Event
  <2> QED
    BY <1>2, <1>15, <2>1, <2>2 DEF QueueInv, Links
<1>16. /\ B \subseteq Recip /\ D \subseteq Recip /\ B \cap D = {}
       /\ rq' = [r \in Recip |-> rq'[r]] /\ cell' = [c \in Cell |-> cell'[c]]
  BY <1>2, <1>3, <1>4
<1>17. Serves(B, D, g)
  BY <1>2, <1>6, <1>8, <1>9, <1>10, <1>11, <1>12, <1>13, <1>14, <1>15, <1>16,
     Zenon DEF Serves
<1> QED
  BY <1>17

\* The cells and operations that are served, and the others.
LEMMA Served ==
    ASSUME StoreTypeOK, QueueInv, NEW B, NEW D, NEW g, Serves(B, D, g)
    PROVE  /\ \A r \in B \cup D :
                /\ r \in Recip /\ g[r] \in Cell /\ g[r] \in used /\ g[r] \in used'
                /\ cell[g[r]].rcp = r /\ cell[g[r]].completed = 0
                /\ rq[r].status = "RQ_READY" /\ \A o \in ops : o.rcp # r
           /\ \A r \in B : cell'[g[r]].status = "MQ_DELIVERING"
                           /\ cell'[g[r]].completed = 0
           /\ \A r \in D : cell'[g[r]].status = "MQ_FAILED"
                           /\ cell'[g[r]].completed = now
           /\ \A c \in Cell : cell'[c] \in CellRecord
                              /\ cell'[c].msg = cell[c].msg
                              /\ cell'[c].rcp = cell[c].rcp
                              /\ cell'[c].expiry = cell[c].expiry
           /\ \A r \in B \cup D : rq'[r].status = "RQ_DELIVERING"
           /\ \A r \in Recip : Linked(r)' = {c \in Linked(r) : ~ Deletable(c)}
<1>1. /\ now \in Nat /\ used \subseteq Cell
      /\ cell \in [Cell -> CellRecord] /\ rq \in [Recip -> QueueRecord]
  BY StoreAssumption, Types DEF Typed
<1>2. ASSUME NEW r \in B \cup D
      PROVE  /\ r \in Recip /\ g[r] \in Cell /\ g[r] \in used /\ g[r] \in used'
             /\ cell[g[r]].rcp = r /\ cell[g[r]].completed = 0
             /\ rq[r].status = "RQ_READY"
             /\ cell[g[r]] \in CellRecord /\ rq[r] \in QueueRecord
  <2>1. r \in Recip /\ Chosen(r, g[r])
    BY DEF Serves
  <2>2. g[r] \in used /\ ~ Deletable(g[r]) /\ cell[g[r]].rcp = r
    BY <2>1 DEF Chosen, QueueInv, Links
  <2> QED
    BY <1>1, <2>1, <2>2, ZenonT(60) DEF Chosen, Serves
<1>3. ASSUME NEW r \in B \cup D, NEW o \in ops PROVE o.rcp # r
  BY <1>2 DEF QueueInv, OpOK
<1>4. ASSUME NEW r \in B
      PROVE  /\ cell'[g[r]] \in CellRecord
             /\ cell'[g[r]].msg = cell[g[r]].msg /\ cell'[g[r]].rcp = r
             /\ cell'[g[r]].expiry = cell[g[r]].expiry
             /\ cell'[g[r]].status = "MQ_DELIVERING"
             /\ cell'[g[r]].completed = 0
             /\ rq'[r].status = "RQ_DELIVERING"
  <2>1. /\ cell'[g[r]] = [cell[g[r]] EXCEPT !.status = "MQ_DELIVERING"]
        /\ rq'[r] = [rq[r] EXCEPT !.status = "RQ_DELIVERING"]
    BY DEF Serves
  <2> QED
    BY <1>2, <2>1 DEF CellRecord, QueueRecord
<1>5. ASSUME NEW r \in D
      PROVE  /\ cell'[g[r]] \in CellRecord
             /\ cell'[g[r]].msg = cell[g[r]].msg /\ cell'[g[r]].rcp = r
             /\ cell'[g[r]].expiry = cell[g[r]].expiry
             /\ cell'[g[r]].status = "MQ_FAILED"
             /\ cell'[g[r]].completed = now
             /\ rq'[r].status = "RQ_DELIVERING"
  <2>1. /\ cell'[g[r]] = [cell[g[r]] EXCEPT !.status = "MQ_FAILED",
                                            !.completed = now]
        /\ rq'[r] = [rq[r] EXCEPT !.count = @ - 1, !.status = "RQ_DELIVERING"]
    BY DEF Serves
  <2>2. PICK x \in CellRecord : x = cell[g[r]]
    BY <1>2
  <2>3. cell'[g[r]] = [x EXCEPT !.status = "MQ_FAILED", !.completed = now]
    BY <2>1, <2>2
  <2>4. /\ cell'[g[r]] \in CellRecord
        /\ cell'[g[r]].msg = x.msg /\ cell'[g[r]].rcp = x.rcp
        /\ cell'[g[r]].expiry = x.expiry
        /\ cell'[g[r]].status = "MQ_FAILED" /\ cell'[g[r]].completed = now
    BY <1>1, <2>3 DEF CellRecord
  <2>5. rq'[r].status = "RQ_DELIVERING"
    BY <1>2, <2>1 DEF QueueRecord
  <2> QED
    BY <1>2, <2>2, <2>4, <2>5
<1>6. ASSUME NEW c \in Cell
      PROVE  /\ cell'[c] \in CellRecord /\ cell'[c].msg = cell[c].msg
             /\ cell'[c].rcp = cell[c].rcp /\ cell'[c].expiry = cell[c].expiry
  <2>1. CASE \E r \in B \cup D : g[r] = c
    BY <1>2, <1>4, <1>5, <2>1
  <2>2. CASE ~ \E r \in B \cup D : g[r] = c
    BY <1>1, <2>2 DEF Serves
  <2> QED
    BY <2>1, <2>2
<1>7. ASSUME NEW r \in Recip
      PROVE  Linked(r)' = {c \in Linked(r) : ~ Deletable(c)}
  <2>1. list'[r] = Cleaned(r)
    BY DEF Serves
  <2>2. Linked(r)' = {list'[r][i] : i \in 1 .. Len(list'[r])}
    BY DEF Linked
  <2> QED
    BY <2>1, <2>2, CleanedCells
<1> QED
  BY <1>2, <1>3, <1>4, <1>5, <1>6, <1>7

LEMMA ServedTypes ==
    ASSUME StoreTypeOK, Records, Covered, QueueInv,
           NEW B, NEW D, NEW g, Serves(B, D, g)
    PROVE  StoreTypeOK' /\ Records' /\ Covered'
<1>1. /\ now \in Nat /\ used \subseteq Cell /\ Cell \subseteq Nat
      /\ cell \in [Cell -> CellRecord] /\ rq \in [Recip -> QueueRecord]
      /\ ops \subseteq OpRecord /\ MaxRetries \in Nat \ {0}
  BY StoreAssumption, Types, Cells, SMTT(40) DEF Typed
<1>2. /\ B \subseteq Recip /\ D \subseteq Recip /\ B \cap D = {}
      /\ ops' = ops \cup {Begun(r, g[r]) : r \in B}
      /\ used' = {c \in used : ~ Deletable(c)}
  BY DEF Serves
<1>3. \A c \in Cell : /\ cell'[c] \in CellRecord /\ cell'[c].rcp = cell[c].rcp
  BY Served
<1>4. ASSUME NEW r \in B \cup D
      PROVE  r \in Recip /\ g[r] \in Cell /\ g[r] \in used
             /\ cell[g[r]].rcp = r /\ cell[g[r]].completed = 0
  BY Served
<1>5. InUse' \subseteq InUse /\ InUse \subseteq Cell
  <2>1. \A r \in B : Begun(r, g[r]).cell = g[r]
    BY DEF Begun
  <2>2. \A o \in ops : o.cell \in Cell
    BY CellOf
  <2>3. \A o \in ops' : o.cell \in InUse
    BY <1>2, <1>4, <2>1 DEF InUse
  <2>4. used' \subseteq InUse
    BY <1>2 DEF InUse
  <2> QED
    BY <1>1, <2>2, <2>3, <2>4 DEF InUse
<1>6. ASSUME NEW c \in Cell, cell'[c].completed = 0 PROVE cell[c].completed = 0
  <2>1. CASE \E r \in B \cup D : g[r] = c
    BY <1>4, <2>1
  <2>2. CASE ~ \E r \in B \cup D : g[r] = c
    BY <1>6, <2>2 DEF Serves
  <2> QED
    BY <2>1, <2>2
<1>7. ASSUME NEW r \in Recip
      PROVE  /\ Counted(r) \in SUBSET Cell /\ Counted(r)' \subseteq Counted(r)
             /\ Cardinality(Counted(r)) \in Nat
             /\ Cardinality(Counted(r)') \in Nat
             /\ Cardinality(Counted(r)') <= Cardinality(Counted(r))
             /\ Cardinality(Counted(r)) <= rq[r].count /\ rq[r].count \in Nat
  <2>1. Counted(r) \in SUBSET Cell /\ Counted(r)' \subseteq Counted(r)
    BY <1>3, <1>5, <1>6 DEF Counted
  <2> QED
    BY <1>1, <2>1, Counting DEF Covered, QueueRecord
<1>8. ASSUME NEW r \in D
      PROVE  /\ rq'[r] \in QueueRecord
             /\ Cardinality(Counted(r)') <= rq'[r].count
  <2>1. g[r] \in Counted(r) /\ g[r] \notin Counted(r)'
    <3>1. cell'[g[r]].completed = now /\ now # 0
      BY Served, Types DEF Typed
    <3> QED
      BY <1>4, <3>1 DEF Counted, InUse
  <2>2. /\ Cardinality(Counted(r)) >= 1
        /\ Cardinality(Counted(r)') <= Cardinality(Counted(r)) - 1
    <3>1. Counted(r)' \subseteq Counted(r) \ {g[r]}
      BY <1>2, <1>7, <2>1
    <3> QED
      BY <1>2, <1>7, <2>1, <3>1, Counting
  <2>3. rq[r].count - 1 \in Nat
    BY <1>2, <1>7, <2>2
  <2>4. rq'[r] = [rq[r] EXCEPT !.count = @ - 1, !.status = "RQ_DELIVERING"]
    BY DEF Serves
  <2>5. rq'[r].count = rq[r].count - 1 /\ rq'[r] \in QueueRecord
    BY <1>1, <1>2, <2>3, <2>4 DEF QueueRecord
  <2> QED
    BY <1>2, <1>7, <2>2, <2>5
<1>9. ASSUME NEW r \in Recip, r \notin D
      PROVE  rq'[r] \in QueueRecord /\ rq'[r].count = rq[r].count
  <2>1. CASE r \in B
    <3>1. rq'[r] = [rq[r] EXCEPT !.status = "RQ_DELIVERING"]
      BY <2>1 DEF Serves
    <3> QED
      BY <1>1, <3>1 DEF QueueRecord
  <2>2. CASE r \notin B
    <3>1. rq'[r] = rq[r]
      BY <1>9, <2>2 DEF Serves
    <3> QED
      BY <1>1, <3>1
  <2> QED
    BY <2>1, <2>2
<1>10. Covered'
  <2>1. ASSUME NEW r \in Recip PROVE Cardinality(Counted(r)') <= rq'[r].count
    BY <1>7, <1>8, <1>9
  <2> QED
    BY <2>1 DEF Covered
<1>11. ASSUME NEW r \in B PROVE Begun(r, g[r]) \in OpRecord
  <2>1. g[r] \in Cell /\ r \in Recip /\ cell[g[r]].msg \in Msg
        /\ 0 \in 0 .. MaxRetries - 1
    <3>1. r \in Recip /\ g[r] \in Cell
      BY <1>4
    <3>2. cell[g[r]] \in CellRecord
      BY <1>1, <3>1
    <3>3. 0 \in 0 .. MaxRetries - 1
      BY <1>1
    <3> QED
      BY <3>1, <3>2, <3>3 DEF CellRecord
  <2> QED
    BY <1>1, <2>1 DEF Begun, OpRecord
<1>12. StoreTypeOK'
  <2>1. rq' \in [Recip -> QueueRecord]
    <3>1. rq' = [r \in Recip |-> rq'[r]]
      BY DEF Serves
    <3> QED
      BY <1>8, <1>9, <3>1
  <2>2. cell' \in [Cell -> CellRecord]
    <3>1. cell' = [c \in Cell |-> cell'[c]]
      BY DEF Serves
    <3> QED
      BY <1>3, <3>1
  <2>3. list' \in [Recip -> Seq(Cell)]
    <3>1. ASSUME NEW r \in Recip PROVE list'[r] \in Seq(Cell)
      <4>1. list'[r] = Cleaned(r)
        BY DEF Serves
      <4>2. Cleaned(r) \in Seq(Cell)
        BY CleanedCells
      <4> QED
        BY <4>1, <4>2, Zenon
    <3>2. list' = [r \in Recip |-> list'[r]]
      BY DEF Serves
    <3> QED
      BY <3>1, <3>2
  <2>4. ops' \subseteq OpRecord /\ used' \subseteq Cell
    BY <1>1, <1>2, <1>11
  <2>5. polled' \in BOOLEAN
    BY DEF Serves
  <2> QED
    BY <2>1, <2>2, <2>3, <2>4, <2>5, Types DEF Typed, Serves
<1>13. Records'
  BY DEF Records, Serves
<1> QED
  BY <1>10, <1>12, <1>13

LEMMA ServedQueues ==
    ASSUME StoreTypeOK, QueueInv, NEW B, NEW D, NEW g, Serves(B, D, g)
    PROVE  Links' /\ Ordered'
<1>1. /\ now \in Nat /\ used \subseteq Cell
      /\ cell \in [Cell -> CellRecord]
      /\ used' = {c \in used : ~ Deletable(c)}
  <2>1. used' = {c \in used : ~ Deletable(c)}
    BY DEF Serves
  <2> QED
    BY <2>1, StoreAssumption, Types DEF Typed
<1>2. /\ \A c \in Cell : cell'[c].rcp = cell[c].rcp
                         /\ cell'[c].expiry = cell[c].expiry
      /\ \A r \in Recip : Linked(r)' = {c \in Linked(r) : ~ Deletable(c)}
  BY Served
<1>3. ASSUME NEW r \in Recip
      PROVE  list'[r] = Cleaned(r) /\ IsInjective(list'[r])
  <2>1. list'[r] = Cleaned(r)
    BY DEF Serves
  <2>2. /\ DOMAIN Cleaned(r) = 1 .. Len(Cleaned(r)) /\ Len(Cleaned(r)) \in Nat
        /\ \A i, j \in 1 .. Len(Cleaned(r)) :
              i < j => Cleaned(r)[i] # Cleaned(r)[j]
    BY CleanedCells
  <2>3. ASSUME NEW i \in DOMAIN Cleaned(r), NEW j \in DOMAIN Cleaned(r),
               Cleaned(r)[i] = Cleaned(r)[j]
        PROVE  i = j
    <3>1. i < j \/ j < i \/ i = j
      BY <2>2
    <3> QED
      BY <2>2, <2>3, <3>1
  <2>4. IsInjective(Cleaned(r))
    BY <2>3, Zenon DEF IsInjective
  <2> QED
    BY <2>1, <2>4
<1>4. Links'
  <2>1. ASSUME NEW r \in Recip, NEW c \in Linked(r)'
        PROVE  c \in used' /\ cell'[c].rcp = r
    <3>1. c \in Linked(r) /\ ~ Deletable(c)
      BY <1>2, <2>1
    <3>2. c \in used /\ cell[c].rcp = r
      BY <3>1 DEF QueueInv, Links
    <3> QED
      BY <1>1, <1>2, <3>1, <3>2
  <2>2. ASSUME NEW c \in used' PROVE \E r \in Recip : c \in Linked(r)'
    <3>1. c \in used /\ ~ Deletable(c)
      BY <1>1, <2>2
    <3>2. PICK r \in Recip : c \in Linked(r)
      BY <3>1 DEF QueueInv, Links
    <3> QED
      BY <1>2, <3>1, <3>2
  <2>3. used' = UNION {Linked(r)' : r \in Recip}
    BY <2>1, <2>2
  <2> QED
    BY <1>3, <2>1, <2>3 DEF Links
<1>5. ASSUME NEW r \in Recip, NEW i \in 1 .. Len(list'[r]),
             NEW j \in 1 .. Len(list'[r]), i < j
      PROVE  Earlier(cell'[list'[r][i]], cell'[list'[r][j]])
  <2> DEFINE q == Cleaned(r)
  <2>1. list'[r] = q /\ i \in 1 .. Len(q) /\ j \in 1 .. Len(q)
    BY <1>3
  <2>2. PICK a, b : a = q[i] /\ b = q[j]
    OBVIOUS
  <2>3. a # b /\ Earlier(cell[a], cell[b])
    BY <1>5, <2>1, <2>2, CleanedCells
  <2>4. a \in Linked(r) /\ b \in Linked(r)
    <3>1. {q[k] : k \in 1 .. Len(q)} = {c \in Linked(r) : ~ Deletable(c)}
      BY CleanedCells
    <3> QED
      BY <2>1, <2>2, <3>1
  <2>5. a \in Cell /\ b \in Cell /\ cell[a].rcp = r /\ cell[b].rcp = r
        /\ CellOK(a) /\ CellOK(b)
    BY <1>1, <2>4 DEF QueueInv, Links
  <2>6. /\ cell'[a].expiry = cell[a].expiry /\ cell'[b].expiry = cell[b].expiry
        /\ cell[a].expiry <= cell[b].expiry
    BY <1>2, <2>3, <2>5 DEF Earlier
  <2>7. ASSUME NEW c \in Cell, cell[c].rcp = r, r \notin B \cup D \/ g[r] # c
        PROVE  cell'[c] = cell[c]
    <3>1. \A s \in B \cup D : g[s] # c
      BY <2>7, Served
    <3> QED
      BY <3>1 DEF Serves
  <2>8. CASE r \notin B \cup D
    BY <2>1, <2>2, <2>3, <2>5, <2>7, <2>8
  <2>9. CASE r \in B \cup D
    <3>1. PICK w \in 1 .. Len(q) :
            /\ q[w] = g[r]
            /\ \A k \in 1 .. Len(q) :
                  /\ k < w => cell[q[k]].completed # 0
                  /\ w < k => cell[q[k]].status = "MQ_READY"
      BY <2>9, ZenonT(60) DEF Serves, Chosen
    <3>2. cell[g[r]].completed = 0 /\ cell'[g[r]].completed \in {0, now}
          /\ cell'[g[r]].status # "MQ_READY"
      BY <2>9, Served
    <3>3. CASE i = w
      <4>1. cell[b].status = "MQ_READY" /\ cell'[b] = cell[b]
        BY <1>5, <2>1, <2>2, <2>3, <2>5, <2>7, <3>1, <3>3
      <4>2. cell'[b].completed = 0
        BY <2>5, <4>1 DEF CellOK
      <4> QED
        BY <2>1, <2>2, <2>6, <4>1, <4>2 DEF Earlier
    <3>4. CASE j = w
      <4>1. cell[a].completed # 0 /\ cell'[a] = cell[a]
        BY <1>5, <2>1, <2>2, <2>3, <2>5, <2>7, <3>1, <3>4
      <4>2. cell[a].completed <= now /\ b = g[r]
        BY <2>2, <2>5, <3>1, <3>4 DEF CellOK
      <4> QED
        BY <2>1, <2>2, <2>6, <3>2, <4>1, <4>2 DEF Earlier
    <3>5. CASE i # w /\ j # w
      <4>1. a # g[r] /\ b # g[r]
        <5>1. \A k, l \in 1 .. Len(q) : k < l => q[k] # q[l]
          BY CleanedCells
        <5>2. i < w \/ w < i
          BY <2>1, <3>5
        <5>3. j < w \/ w < j
          BY <2>1, <3>5
        <5> QED
          BY <2>1, <2>2, <3>1, <5>1, <5>2, <5>3
      <4> QED
        BY <2>1, <2>2, <2>3, <2>5, <2>7, <4>1
    <3> QED
      BY <3>3, <3>4, <3>5
  <2> QED
    BY <2>8, <2>9
<1> QED
  BY <1>4, <1>5 DEF Ordered

\* mts_tryDelivery keeps the invariant.
LEMMA TryDeliveryInv ==
    ASSUME StoreInv, ~ Misapplied, mts_tryDelivery
    PROVE  StoreInv'
<1>0. StoreTypeOK /\ Records /\ Covered /\ QueueInv
  BY DEF StoreInv
<1>1. PICK B, D, g : Serves(B, D, g)
  BY <1>0, Service
<1>2. StoreTypeOK' /\ Records' /\ Covered' /\ Links' /\ Ordered'
  BY <1>0, <1>1, ServedTypes, ServedQueues
<1>3. /\ B \subseteq Recip /\ D \subseteq Recip /\ B \cap D = {}
      /\ ops' = ops \cup {Begun(r, g[r]) : r \in B}
      /\ used' = {c \in used : ~ Deletable(c)}
      /\ now' = now /\ spool' = spool /\ polled' = TRUE
      /\ told \subseteq told'
  BY <1>1 DEF Serves
<1>4. /\ now \in Nat /\ now # 0 /\ Expiry \in Nat /\ used \subseteq Cell
      /\ cell \in [Cell -> CellRecord] /\ rq \in [Recip -> QueueRecord]
  BY <1>0, StoreAssumption, Types DEF Typed
<1>5. ASSUME NEW r \in B \cup D
      PROVE  /\ r \in Recip /\ g[r] \in Cell /\ g[r] \in used
             /\ cell[g[r]].rcp = r /\ rq[r].status = "RQ_READY"
             /\ rq'[r].status = "RQ_DELIVERING"
             /\ cell[g[r]].completed = 0
             /\ \A o \in ops : o.rcp # r
  BY <1>0, <1>1, Served
<1>6. \A c \in Cell : /\ cell'[c].msg = cell[c].msg
                      /\ cell'[c].rcp = cell[c].rcp
                      /\ cell'[c].expiry = cell[c].expiry
                      /\ cell'[c] \in CellRecord
  BY <1>0, <1>1, Served
<1>7. ASSUME NEW c \in Cell, \A r \in B \cup D : g[r] # c
      PROVE  cell'[c] = cell[c]
  BY <1>1, <1>7 DEF Serves
<1>8. ASSUME NEW r \in Recip, rq[r].status = "RQ_DELIVERING"
      PROVE  r \notin B \cup D /\ rq'[r] = rq[r]
  <2>1. r \notin B \cup D
    BY <1>5, <1>8
  <2> QED
    BY <1>1, <2>1 DEF Serves
<1>9. ASSUME NEW m \in Msg, NEW s \in Recip
      PROVE  /\ <<"arrived", m, s>> \in told' => <<"arrived", m, s>> \in told
             /\ Taken(m, s) => Taken(m, s)'
  <2>1. <<"arrived", m, s>> \in told' => <<"arrived", m, s>> \in told
    <3>1. <<"arrived", m, s>>[1] = "arrived"
      OBVIOUS
    <3> QED
      BY <1>1, <3>1 DEF Serves
  <2> QED
    BY <1>3, <2>1 DEF Taken
<1>10. \A o \in ops : o.cell \in Cell /\ o.rcp \in Recip /\ o.msg \in Msg
  BY <1>0, CellOf
<1>11. \A o \in ops : Held(o)' = Held(o)
  BY <1>6, <1>10 DEF Held
<1>12. ASSUME NEW r \in B, NEW o, o = Begun(r, g[r])
       PROVE  /\ o \in ops' /\ o.cell = g[r] /\ o.rcp = r
              /\ o.msg = cell[g[r]].msg /\ Held(o)' = <<o.msg, o.rcp>>
  <2>1. o \in ops' /\ o.cell = g[r] /\ o.rcp = r /\ o.msg = cell[g[r]].msg
    BY <1>3, <1>12 DEF Begun
  <2> QED
    BY <1>5, <1>6, <2>1 DEF Held
<1>13. ASSUME NEW c \in used' PROVE CellOK(c)'
  <2>1. /\ c \in used /\ c \in Cell /\ CellOK(c)
        /\ cell[c].msg \in Msg /\ cell[c].rcp \in Recip
    BY <1>0, <1>3, <1>4 DEF QueueInv, CellRecord
  <2>2. Taken(cell[c].msg, cell[c].rcp)'
    BY <1>6, <1>9, <2>1 DEF CellOK, Taken
  <2>3. cell'[c].expiry <= now' + Expiry
    BY <1>3, <1>6, <2>1 DEF CellOK
  <2>4. ASSUME NEW r \in B, g[r] = c PROVE CellOK(c)'
    <3>1. cell'[c].status = "MQ_DELIVERING" /\ cell'[c].completed = 0
      BY <1>0, <1>1, <2>4, Served
    <3>2. \E o \in ops' : o.cell = c /\ Held(o)' = <<o.msg, o.rcp>>
      BY <1>12, <2>4
    <3> QED
      BY <1>3, <1>4, <2>2, <2>3, <3>1, <3>2 DEF CellOK, Taken
  <2>5. ASSUME NEW r \in D, g[r] = c PROVE CellOK(c)'
    <3>1. cell'[c].status = "MQ_FAILED" /\ cell'[c].completed = now
      BY <1>0, <1>1, <2>5, Served
    <3>2. cell'[c].rcp = r /\ rq'[r].status = "RQ_DELIVERING"
      BY <1>5, <1>6, <2>5
    <3>3. \A o \in ops' : o.rcp # r
      BY <1>3, <1>5, <1>12
    <3> QED
      BY <1>3, <1>4, <2>2, <2>3, <3>1, <3>2, <3>3 DEF CellOK, Taken
  <2>6. ASSUME \A r \in B \cup D : g[r] # c PROVE CellOK(c)'
    <3>1. cell'[c] = cell[c]
      BY <1>7, <2>1, <2>6
    <3>2. ASSUME cell[c].status = "MQ_DELIVERING"
          PROVE  \E o \in ops' : o.cell = c /\ Held(o)' = <<o.msg, o.rcp>>
      <4>1. PICK o \in ops : o.cell = c /\ Held(o) = <<o.msg, o.rcp>>
        BY <2>1, <3>2 DEF CellOK
      <4> QED
        BY <1>3, <1>11, <4>1
    <3>3. ASSUME cell[c].status = "MQ_FAILED", cell[c].completed # 0
          PROVE  /\ rq'[cell[c].rcp].status = "RQ_DELIVERING"
                 /\ \A o \in ops' : o.rcp # cell[c].rcp
      <4>1. /\ rq[cell[c].rcp].status = "RQ_DELIVERING"
            /\ \A o \in ops : o.rcp # cell[c].rcp
        BY <2>1, <3>3 DEF CellOK
      <4>2. cell[c].rcp \notin B /\ rq'[cell[c].rcp] = rq[cell[c].rcp]
        BY <1>8, <2>1, <4>1
      <4> QED
        BY <1>3, <1>12, <4>1, <4>2
    <3> QED
      BY <1>3, <2>1, <2>2, <3>1, <3>2, <3>3 DEF CellOK, Taken
  <2> QED
    BY <2>4, <2>5, <2>6
<1>14. ASSUME NEW o \in ops' PROVE OpOK(o)'
  <2>1. CASE o \in ops
    <3>1. OpOK(o) /\ o.rcp \in Recip /\ o.msg \in Msg /\ o.cell \in Cell
      BY <1>0, <1>10, <2>1 DEF QueueInv
    <3>2. o.rcp \notin B \cup D /\ rq'[o.rcp].status = "RQ_DELIVERING"
      BY <1>8, <3>1 DEF OpOK
    <3>3. Held(o) = <<o.msg, o.rcp>> => cell'[o.cell] = cell[o.cell]
      BY <1>5, <1>7, <3>1, <3>2 DEF Held
    <3>4. \A p \in ops' : p.rcp = o.rcp => p = o
      BY <1>3, <1>12, <3>1, <3>2 DEF OpOK
    <3>5. Taken(o.msg, o.rcp)'
      BY <1>9, <3>1 DEF OpOK
    <3> QED
      BY <1>11, <2>1, <3>1, <3>2, <3>3, <3>4, <3>5 DEF OpOK
  <2>2. ASSUME NEW r \in B, o = Begun(r, g[r]) PROVE OpOK(o)'
    <3>1. /\ o.cell = g[r] /\ o.rcp = r /\ o.msg = cell[g[r]].msg
      BY <1>12, <2>2
    <3>2. \A p \in ops' : p.rcp = r => p = o
      BY <1>3, <1>5, <1>12, <2>2
    <3>3. cell'[g[r]].status = "MQ_DELIVERING" /\ cell'[g[r]].completed = 0
      BY <1>0, <1>1, Served
    <3>4. Taken(cell[g[r]].msg, r)
      BY <1>0, <1>5 DEF QueueInv, CellOK
    <3>5. Taken(o.msg, o.rcp)'
      BY <1>4, <1>5, <1>9, <3>1, <3>4 DEF CellRecord
    <3> QED
      BY <1>5, <3>1, <3>2, <3>3, <3>5 DEF OpOK
  <2> QED
    BY <1>3, <2>1, <2>2
<1>15. ASSUME NEW m \in Msg, NEW r \in Subscriber PROVE Remembered(m, r)'
  <2>0. r \in Recip
    BY StoreAssumption
  <2> SUFFICES ASSUME <<"arrived", m, r>> \in told'
               PROVE  \/ Settlement(m, r)'
                      \/ m \in spool'
                      \/ \E c \in Linked(r)' :
                            /\ cell'[c].msg = m /\ cell'[c].completed = 0
                            /\ InTime(c)'
    BY DEF Remembered
  <2>1. \/ Settlement(m, r)
        \/ m \in spool
        \/ \E c \in Linked(r) :
              cell[c].msg = m /\ cell[c].completed = 0 /\ InTime(c)
    BY <1>0, <1>9, <2>0 DEF QueueInv, Remembered
  <2>2. Settlement(m, r) => Settlement(m, r)'
    BY <1>3 DEF Settlement
  <2>3. ASSUME NEW c \in Linked(r), cell[c].msg = m, cell[c].completed = 0
        PROVE  \/ Settlement(m, r)'
               \/ c \in Linked(r)' /\ cell'[c].msg = m
                  /\ cell'[c].completed = 0 /\ InTime(c)'
    <3>1. c \in used /\ c \in Cell /\ cell[c].rcp = r /\ cell[c].expiry \in Nat
      BY <1>0, <1>4, <2>0 DEF QueueInv, Links, CellRecord
    <3>2. CASE Deletable(c)
      <4>1. Expired(c)
        BY <2>3, <3>2 DEF Deletable, Settled
      <4>2. <<"ndr", m, r>> \in told'
        BY <1>1, <2>3, <3>1, <4>1 DEF Serves
      <4> QED
        BY <4>2 DEF Settlement
    <3>3. CASE ~ Deletable(c)
      <4>1. c \in Linked(r)'
        BY <1>0, <1>1, <2>0, <3>3, Served
      <4>2. now <= cell[c].expiry
        BY <1>4, <3>1, <3>3 DEF Deletable, Expired
      <4>3. cell'[c].msg = m /\ InTime(c)'
        BY <1>3, <1>4, <1>6, <2>3, <3>1, <4>2 DEF InTime
      <4>4. CASE r \in D /\ g[r] = c
        <5>1. <<"refused", m, r>> \in told'
          BY <1>1, <2>3, <4>4 DEF Serves
        <5> QED
          BY <5>1 DEF Settlement
      <4>5. CASE r \in B /\ g[r] = c
        <5>1. cell'[c].completed = 0
          BY <1>0, <1>1, <4>5, Served
        <5> QED
          BY <4>1, <4>3, <5>1
      <4>6. CASE r \notin B \cup D \/ g[r] # c
        <5>1. \A s \in B \cup D : g[s] # c
          BY <1>5, <3>1, <4>6
        <5>2. cell'[c] = cell[c]
          BY <1>7, <3>1, <5>1
        <5> QED
          BY <2>3, <4>1, <4>3, <5>2
      <4> QED
        BY <4>4, <4>5, <4>6
    <3> QED
      BY <3>2, <3>3
  <2> QED
    BY <1>3, <2>1, <2>2, <2>3
<1>16. Spooled'
  BY <1>0, <1>3 DEF QueueInv, Spooled
<1> QED
  BY <1>2, <1>13, <1>14, <1>15, <1>16 DEF StoreInv, QueueInv

-----------------------------------------------------------------------------
(* The theorems.                                                           *)

LEMMA StepInv == StoreInv /\ [Next]_vars => StoreInv'
<1> SUFFICES ASSUME StoreInv, [Next]_vars PROVE StoreInv'
  OBVIOUS
<1>1. CASE UNCHANGED vars
  <2>1. /\ now' = now /\ polled' = polled /\ spool' = spool /\ recips' = recips
        /\ rq' = rq /\ list' = list /\ cell' = cell /\ used' = used
        /\ ops' = ops /\ down' = down /\ told' = told
    BY <1>1 DEF vars, memory
  <2>2. StoreTypeOK' /\ Records' /\ Covered'
    BY <2>1, Types DEF StoreInv, Typed, Records, Covered, Counted, InUse
  <2>3. ASSUME QueueInv PROVE QueueInv'
    <3>1. Links' /\ Ordered'
      BY <2>1, <2>3, SameQueues DEF QueueInv
    <3>2. (\A c \in used : CellOK(c))' /\ (\A o \in ops : OpOK(o))'
      BY <2>1, <2>3 DEF QueueInv, CellOK, OpOK, Taken, Held
    <3>3. ASSUME NEW m \in Msg, NEW r \in Subscriber PROVE Remembered(m, r)'
      <4>1. Remembered(m, r)
        BY <2>3 DEF QueueInv
      <4> QED
        BY <2>1, <4>1 DEF Remembered, Settlement, Linked, InTime
    <3>4. Spooled'
      BY <2>1, <2>3 DEF QueueInv, Spooled
    <3> QED
      BY <3>1, <3>2, <3>3, <3>4 DEF QueueInv
  <2>4. Misapplied => Misapplied'
    BY <2>1 DEF Misapplied
  <2> QED
    BY <2>2, <2>3, <2>4 DEF StoreInv
<1>2. CASE Next
  <2>0. ~ Misapplied
    BY <1>2 DEF Next
  <2>1. CASE \E m \in Msg : Arrive(m)
    BY <2>0, <2>1, ArriveInv
  <2>2. CASE \E m \in Msg : mts_spoolToDevice(m)
    BY <2>0, <2>2, SpoolInv
  <2>3. CASE mts_tryDelivery
    BY <2>0, <2>3, TryDeliveryInv
  <2>4. CASE \E r \in Recip : msg_deliverNow(r)
    BY <2>0, <2>4, DeliverNowInv
  <2>5. CASE \E o \in ops : Outcome(o)
    BY <2>0, <2>5, OutcomeInv
  <2>6. CASE Tick
    BY <2>0, <2>6, TickInv
  <2>7. CASE Restart
    BY <2>0, <2>7, RestartInv
  <2> QED
    BY <1>2, <2>1, <2>2, <2>3, <2>4, <2>5, <2>6, <2>7 DEF Next
<1> QED
  BY <1>1, <1>2

LEMMA Invariance == Spec => []StoreInv
<1>1. Init => StoreInv
  BY InitInv
<1> QED
  BY <1>1, StepInv, PTL DEF Spec

\* Every variable keeps its type: the count of a queue is an unsigned number
\* that is taken down by outcomes whose message may be gone, and never below
\* zero.
THEOREM StoreTypeCorrect == Spec => []StoreTypeOK
<1>1. StoreInv => StoreTypeOK
  BY DEF StoreInv
<1> QED
  BY <1>1, Invariance, PTL

\* msg_cleanQueue, which can unlink the first cell only, leaves no freed cell
\* linked and loses none.
THEOREM ListsIntact == Spec => []ListIntact
<1>1. StoreInv => ListIntact
  BY DEF StoreInv, QueueInv, Links, ListIntact
<1> QED
  BY <1>1, Invariance, PTL

\* A device is sent one message at a time, in the order of arrival.
THEOREM SentInOrder == Spec => []InOrder
<1>1. StoreInv => InOrder
  BY DEF StoreInv, QueueInv, Ordered, Earlier, OpOK, InOrder
<1> QED
  BY <1>1, Invariance, PTL

\* msg_getMessage, which does not look at "completed", takes no message that is
\* done with.
THEOREM DoneNotRetried == Spec => []CompletedNotRetried
<1>1. StoreInv => CompletedNotRetried
  <2> SUFFICES ASSUME StoreInv, ~ Misapplied, NEW r \in Recip,
                      NEW c \in Linked(r), cell[c].status = "MQ_DELIVERING"
               PROVE  cell[c].completed = 0
    BY DEF CompletedNotRetried
  <2>1. CellOK(c) /\ \A o \in ops : OpOK(o)
    BY DEF StoreInv, QueueInv, Links
  <2>2. PICK o \in ops : o.cell = c /\ Held(o) = <<o.msg, o.rcp>>
    BY <2>1 DEF CellOK
  <2> QED
    BY <2>1, <2>2 DEF OpOK
<1> QED
  BY <1>1, Invariance, PTL

\* The count of a queue covers the messages that are still to be delivered:
\* msg_deliverNow skips no queue that has one.
THEOREM CountsCover == Spec => []CountCovers
<1>1. StoreInv => CountCovers
  <2> SUFFICES ASSUME StoreInv, ~ Misapplied, NEW r \in Recip
               PROVE  rq[r].count >=
                        Cardinality({c \in Linked(r) : cell[c].completed = 0})
    BY DEF CountCovers
  <2> DEFINE T == {c \in Linked(r) : cell[c].completed = 0}
  <2>1. T \subseteq Counted(r)
    BY DEF StoreInv, QueueInv, Links, Counted, InUse
  <2>2. Counted(r) \in SUBSET Cell
    <3>1. \A o \in ops : o.cell \in Cell
      BY CellOf DEF StoreInv
    <3> QED
      BY <3>1, Types DEF StoreInv, Typed, Counted, InUse
  <2>3. Cardinality(T) <= Cardinality(Counted(r))
    BY <2>1, <2>2, Counting
  <2>4. Cardinality(T) \in Nat /\ Cardinality(Counted(r)) \in Nat
    <3>1. T \in SUBSET Cell
      BY <2>1, <2>2
    <3> QED
      BY <2>2, <3>1, Counting
  <2>5. Cardinality(Counted(r)) <= rq[r].count /\ rq[r].count \in Nat
    BY Types DEF StoreInv, Typed, Covered, QueueRecord
  <2> QED
    BY <2>3, <2>4, <2>5
<1> QED
  BY <1>1, Invariance, PTL

\* No message for a subscriber is forgotten, and none waits longer than an hour
\* and the time between two runs of mts_tryDelivery.  The subscribers that
\* msg_addMessage drops behind the first MaxRecips are left out.
THEOREM NoneForgotten == Spec => []NotForgotten
<1>1. StoreInv => NotForgotten
  <2> SUFFICES ASSUME StoreInv, ~ Misapplied, NEW m \in Msg,
                      NEW r \in Subscriber, "arrived" \in Known(m, r)
               PROVE  \/ Known(m, r) \cap {"delivered", "ndr", "refused", "lost"}
                           # {}
                      \/ "dropped" \in Known(m, r)
                         /\ Cardinality(Queued(m)) = MaxRecips
                      \/ m \in spool
                      \/ \E c \in Linked(r) :
                            /\ cell[c].msg = m /\ cell[c].completed = 0
                            /\ now <= cell[c].expiry + (IF polled THEN 0 ELSE 1)
    BY DEF NotForgotten
  <2>1. PICK t \in told : t[1] = "arrived" /\ t[2] = m /\ t[3] = r
    BY DEF Known
  <2>2. t = <<"arrived", m, r>>
    BY <2>1 DEF StoreInv, Records
  <2>3. Remembered(m, r)
    BY DEF StoreInv, QueueInv
  <2>4. CASE <<"dropped", m, r>> \in told
    <3>1. r \in (Addressed(m) \cap Subscriber) \ Queued(m)
      <4>1. <<"dropped", m, r>>[1] = "dropped"
        OBVIOUS
      <4> QED
        BY <2>4, <4>1 DEF StoreInv, Records
    <3>2. "dropped" \in Known(m, r)
      BY <2>4 DEF Known
    <3> QED
      BY <3>1, <3>2, DroppedFull
  <2>5. Settlement(m, r) =>
          \/ Known(m, r) \cap {"delivered", "ndr", "refused", "lost"} # {}
          \/ <<"dropped", m, r>> \in told
    BY DEF Settlement, Known
  <2> QED
    BY <2>1, <2>2, <2>3, <2>4, <2>5 DEF Remembered, InTime
<1> QED
  BY <1>1, Invariance, PTL

=============================================================================
