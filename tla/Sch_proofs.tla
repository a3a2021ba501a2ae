----------------------------- MODULE Sch_proofs -----------------------------
(***************************************************************************)
(* Theorems about the scheduler, for any sockets, any pool, any sanity     *)
(* limit and any load: its two queues implement one queue of tasks, no     *)
(* element of the pool is lost, and a pool of a given size is enough.      *)
(***************************************************************************)
EXTENDS Sch, FiniteSetTheorems, WellFoundedInduction, TLAPS

-----------------------------------------------------------------------------
(* The tasks of a queue that are in a set.                                 *)

\* A nonempty set of naturals has a smallest element.
LEMMA LeastNat ==
    ASSUME NEW T \in SUBSET Nat, T # {}
    PROVE  \E k \in T : \A j \in T : k <= j
<1> DEFINE R == {ss \in Nat \X Nat : ss[1] < ss[2]}
<1>1. IsWellFoundedOn(R, Nat)
  BY NatLessThanWellFounded, Zenon DEF OpToRel
<1>2. \E k \in T : \A j \in T : ~ (<<j, k>> \in R)
  BY <1>1, WFMin, Zenon
<1>3. PICK k \in T : \A j \in T : ~ (<<j, k>> \in R)
  BY <1>2
<1>4. ASSUME NEW j \in T PROVE k <= j
  <2>1. j \in Nat /\ k \in Nat /\ ~ (<<j, k>> \in R)
    BY <1>3
  <2> QED
    BY <2>1
<1> QED
  BY <1>4

\* What the function inside Those does at an index.
TakeAt(f, queue, set, i) ==
    IF i = 0 THEN <<>>
    ELSE IF queue[i] \in set THEN Append(f[i - 1], queue[i])
    ELSE f[i - 1]

Takes(f, X, queue, set, n) ==
    /\ f \in [0 .. n -> Seq(X)]
    /\ \A i \in 0 .. n : f[i] = TakeAt(f, queue, set, i)

\* There is such a function.
LEMMA TakeExists ==
    ASSUME NEW X, NEW queue \in Seq(X), NEW set, NEW n \in 0 .. Len(queue)
    PROVE  \E f : Takes(f, X, queue, set, n)
<1> DEFINE Has(k) == \E f \in [0 .. k -> Seq(X)] :
                        \A i \in 0 .. k : f[i] = TakeAt(f, queue, set, i)
           Bad == {k \in 0 .. Len(queue) : ~ Has(k)}
<1>1. Has(0)
  <2>1. [i \in 0 .. 0 |-> <<>>] \in [0 .. 0 -> Seq(X)]
    OBVIOUS
  <2>2. \A i \in 0 .. 0 : [j \in 0 .. 0 |-> <<>>][i] =
                             TakeAt([j \in 0 .. 0 |-> <<>>], queue, set, i)
    BY DEF TakeAt
  <2> QED
    BY <2>1, <2>2
<1>2. ASSUME NEW k \in 0 .. Len(queue), k # 0, Has(k - 1) PROVE Has(k)
  <2>1. PICK f \in [0 .. k - 1 -> Seq(X)] :
             \A i \in 0 .. k - 1 : f[i] = TakeAt(f, queue, set, i)
    BY <1>2
  <2>2. PICK last : last = TakeAt(f, queue, set, k)
    OBVIOUS
  <2>3. last \in Seq(X)
    <3>1. f[k - 1] \in Seq(X) /\ queue[k] \in X
      BY <1>2
    <3> QED
      BY <1>2, <2>2, <3>1 DEF TakeAt
  <2>4. PICK g : g = [i \in 0 .. k |-> IF i = k THEN last ELSE f[i]]
    OBVIOUS
  <2>5. g \in [0 .. k -> Seq(X)]
    BY <1>2, <2>3, <2>4
  <2>6. ASSUME NEW i \in 0 .. k PROVE g[i] = TakeAt(g, queue, set, i)
    <3>1. CASE i = 0
      BY <1>2, <2>1, <2>4, <3>1 DEF TakeAt
    <3>2. CASE i # 0
      <4>1. i - 1 \in 0 .. k - 1 /\ g[i - 1] = f[i - 1]
        BY <1>2, <2>4, <3>2
      <4>2. TakeAt(g, queue, set, i) = TakeAt(f, queue, set, i)
        BY <3>2, <4>1 DEF TakeAt
      <4> QED
        BY <1>2, <2>1, <2>2, <2>4, <4>2
    <3> QED
      BY <3>1, <3>2
  <2> QED
    BY <2>5, <2>6
<1>3. Bad = {}
  <2> HIDE DEF Has
  <2>1. ASSUME Bad # {} PROVE FALSE
    <3>0. Bad \in SUBSET Nat
      OBVIOUS
    <3>1. PICK k \in Bad : \A j \in Bad : k <= j
      <4> HIDE DEF Bad
      <4> QED
        BY <2>1, <3>0, LeastNat
    <3>2. k \in 0 .. Len(queue) /\ ~ Has(k) /\ k # 0
      BY <1>1, <3>1
    <3>3. k - 1 \in 0 .. Len(queue) /\ k - 1 \notin Bad
      BY <3>1, <3>2
    <3>4. Has(k - 1)
      BY <3>3
    <3> QED
      BY <1>2, <3>2, <3>4
  <2> QED
    BY <2>1
<1> QED
  BY <1>3 DEF Takes

\* And one for the whole queue.
LEMMA TakeAllExists ==
    ASSUME NEW X, NEW queue \in Seq(X), NEW set
    PROVE  \E f : Takes(f, X, queue, set, Len(queue))
<1>1. PICK n \in 0 .. Len(queue) : n = Len(queue)
  OBVIOUS
<1>2. \E f : Takes(f, X, queue, set, n)
  BY TakeExists, Zenon
<1> QED
  BY ONLY <1>1, <1>2

\* A function that does it at every index gives what Those gives.
LEMMA ThoseIs ==
    ASSUME NEW X, NEW queue \in Seq(X), NEW set,
           NEW f, Takes(f, X, queue, set, Len(queue))
    PROVE  Those(queue, set) = f[Len(queue)]
<1> DEFINE Body(g) == [i \in 0 .. Len(queue) |->
                          IF i = 0 THEN <<>>
                          ELSE IF queue[i] \in set THEN Append(g[i - 1], queue[i])
                          ELSE g[i - 1]]
<1>1. PICK take : take = CHOOSE g : g = Body(g)
  OBVIOUS
<1>2. f = Body(f)
  <2>1. \A i \in 0 .. Len(queue) : f[i] = Body(f)[i]
    BY DEF TakeAt, Takes
  <2> QED
    BY <2>1 DEF Takes
<1>3. take = Body(take)
  BY ONLY <1>1, <1>2, Zenon
<1>4. Those(queue, set) = take[Len(queue)]
  BY <1>1 DEF Those
<1> DEFINE Bad == {k \in 0 .. Len(queue) : take[k] # f[k]}
<1>5. Bad = {}
  <2>1. ASSUME Bad # {} PROVE FALSE
    <3>1. Bad \in SUBSET Nat
      OBVIOUS
    <3>2. PICK k \in Bad : \A j \in Bad : k <= j
      <4> HIDE DEF Bad
      <4> QED
        BY <2>1, <3>1, LeastNat
    <3>3. k \in 0 .. Len(queue) /\ take[k] # f[k]
      BY <3>2
    <3>4. f[k] = Body(f)[k] /\ take[k] = Body(take)[k]
      BY ONLY <1>2, <1>3
    <3>5. k # 0
      BY ONLY <3>3, <3>4
    <3>6. k - 1 \in 0 .. Len(queue) /\ ~ (k <= k - 1)
      BY ONLY <3>3, <3>5
    <3>7. take[k - 1] = f[k - 1]
      BY <3>2, <3>6
    <3> QED
      BY ONLY <3>3, <3>4, <3>5, <3>7
  <2> QED
    BY <2>1
<1> QED
  BY <1>4, <1>5

\* None of an empty queue.
LEMMA ThoseEmpty ==
    ASSUME NEW set
    PROVE  Those(<<>>, set) = <<>>
<1>1. PICK q : q = <<>>
  OBVIOUS
<1>2. q \in Seq({}) /\ Len(q) = 0
  BY <1>1
<1>3. PICK f : Takes(f, {}, q, set, Len(q))
  BY <1>2, TakeAllExists
<1>4. Those(q, set) = f[Len(q)]
  BY <1>2, <1>3, ThoseIs
<1>5. f[0] = <<>>
  BY <1>2, <1>3 DEF Takes, TakeAt
<1> QED
  BY <1>1, <1>2, <1>4, <1>5

\* One more task at the end of the queue.
LEMMA ThoseAppend ==
    ASSUME NEW X, NEW queue \in Seq(X), NEW task \in X, NEW set
    PROVE  /\ Those(queue, set) \in Seq(X)
           /\ Those(Append(queue, task), set) =
                 IF task \in set THEN Append(Those(queue, set), task)
                 ELSE Those(queue, set)
<1>1. PICK n : n = Len(queue)
  OBVIOUS
<1>2. PICK longer : longer = Append(queue, task)
  OBVIOUS
<1>3. /\ n \in Nat /\ longer \in Seq(X) /\ Len(longer) = n + 1 /\ longer[n + 1] = task
      /\ \A i \in 1 .. n : longer[i] = queue[i]
  BY <1>1, <1>2
<1>4. PICK f : Takes(f, X, longer, set, Len(longer))
  <2>1. longer \in Seq(X)
    BY <1>3
  <2> QED
    BY <2>1, TakeAllExists
<1>5. Those(longer, set) = f[n + 1]
  <2>1. longer \in Seq(X)
    BY <1>3
  <2>2. Those(longer, set) = f[Len(longer)]
    BY <1>4, <2>1, ThoseIs
  <2> QED
    BY <1>3, <2>2
<1>f. /\ f \in [0 .. n + 1 -> Seq(X)]
      /\ \A i \in 0 .. n + 1 : f[i] = TakeAt(f, longer, set, i)
  BY <1>3, <1>4 DEF Takes
<1>6. PICK g : g = [i \in 0 .. n |-> f[i]]
  OBVIOUS
<1>7. g \in [0 .. Len(queue) -> Seq(X)]
  BY <1>1, <1>3, <1>f, <1>6
<1>8. ASSUME NEW i \in 0 .. Len(queue) PROVE g[i] = TakeAt(g, queue, set, i)
  <2>1. f[i] = TakeAt(f, longer, set, i) /\ g[i] = f[i]
    BY <1>1, <1>3, <1>f, <1>6
  <2>2. CASE i = 0
    BY <2>1, <2>2 DEF TakeAt
  <2>3. CASE i # 0
    <3>1. g[i - 1] = f[i - 1] /\ longer[i] = queue[i]
      BY <1>1, <1>3, <1>6, <2>3
    <3> QED
      BY <2>1, <2>3, <3>1 DEF TakeAt
  <2> QED
    BY <2>2, <2>3
<1>9. Those(queue, set) = f[n]
  <2>1. Those(queue, set) = g[Len(queue)]
    BY <1>7, <1>8, ThoseIs DEF Takes
  <2> QED
    BY <1>1, <1>3, <1>6, <2>1
<1>10. f[n] \in Seq(X)
  BY <1>3, <1>f
<1>11. f[n + 1] = IF task \in set THEN Append(f[n], task) ELSE f[n]
  <2>1. f[n + 1] = TakeAt(f, longer, set, n + 1)
    BY <1>3, <1>f
  <2>2. n + 1 # 0 /\ (n + 1) - 1 = n
    BY <1>3
  <2> QED
    BY ONLY <1>3, <2>1, <2>2 DEF TakeAt
<1> QED
  BY <1>2, <1>5, <1>9, <1>10, <1>11

\* The same, with operators that the provers do not expand.
Then(queue, task) == Append(queue, task)
Both(front, back) == front \o back
None == <<>>

LEMMA ThenIs ==
    ASSUME NEW X, NEW queue \in Seq(X), NEW task \in X
    PROVE  Then(queue, task) \in Seq(X) /\ Len(Then(queue, task)) = Len(queue) + 1
BY DEF Then

LEMMA BothIs ==
    ASSUME NEW X, NEW front \in Seq(X), NEW back \in Seq(X)
    PROVE  /\ Both(front, back) \in Seq(X)
           /\ Len(Both(front, back)) = Len(front) + Len(back)
           /\ Both(front, None) = front /\ Both(None, front) = front
BY DEF Both, None

LEMMA BothThen ==
    ASSUME NEW X, NEW front \in Seq(X), NEW back \in Seq(X), NEW task \in X
    PROVE  Both(front, Then(back, task)) = Then(Both(front, back), task)
BY DEF Both, Then

LEMMA NoneIs ==
    ASSUME NEW X
    PROVE  None \in Seq(X) /\ Len(None) = 0 /\ \A set : Those(None, set) = None
BY ThoseEmpty DEF None

LEMMA ThoseThen ==
    ASSUME NEW X, NEW queue \in Seq(X), NEW task \in X, NEW set
    PROVE  Those(Then(queue, task), set) =
              IF task \in set THEN Then(Those(queue, set), task) ELSE Those(queue, set)
BY ThoseAppend DEF Then

\* A set of queues that has the empty one and each of its own with one more
\* task at the end has all of them.
LEMMA AllQueues ==
    ASSUME NEW X, NEW G, None \in G,
           \A q \in G \cap Seq(X) : \A x \in X : Then(q, x) \in G
    PROVE  \A q \in Seq(X) : q \in G
<1> DEFINE Bad == {n \in Nat : \E q \in Seq(X) : Len(q) = n /\ q \notin G}
<1>1. Bad = {}
  <2>1. ASSUME Bad # {} PROVE FALSE
    <3>1. Bad \in SUBSET Nat
      OBVIOUS
    <3>2. PICK k \in Bad : \A j \in Bad : k <= j
      <4> HIDE DEF Bad
      <4> QED
        BY <2>1, <3>1, LeastNat
    <3>3. PICK q \in Seq(X) : Len(q) = k /\ q \notin G
      BY <3>2
    <3>4. k \in Nat /\ k # 0
      <4>1. CASE k = 0
        BY <3>3, <4>1 DEF None
      <4> QED
        BY <3>2, <4>1
    <3>5. PICK r : r = SubSeq(q, 1, k - 1)
      OBVIOUS
    <3>6. r \in Seq(X) /\ Len(r) = k - 1 /\ q[k] \in X /\ q = Append(r, q[k])
      BY <3>3, <3>4, <3>5
    <3>7. r \in G
      BY <3>2, <3>4, <3>6
    <3>8. Then(r, q[k]) \in G
      BY <3>6, <3>7
    <3> QED
      BY <3>3, <3>6, <3>8 DEF Then
  <2> QED
    BY <2>1
<1> QED
  BY <1>1

\* They are a queue of tasks that are in the set.
LEMMA ThoseSeq ==
    ASSUME NEW X, NEW queue \in Seq(X), NEW set
    PROVE  Those(queue, set) \in Seq(X) /\ Those(queue, set) \in Seq(X \cap set)
<1> DEFINE G == {q \in Seq(X) : Those(q, set) \in Seq(X \cap set)}
<1>1. None \in G
  BY NoneIs
<1>2. ASSUME NEW q \in G \cap Seq(X), NEW x \in X PROVE Then(q, x) \in G
  <2>1. q \in Seq(X) /\ Those(q, set) \in Seq(X \cap set)
    BY <1>2
  <2>2. Those(Then(q, x), set) = IF x \in set THEN Then(Those(q, set), x) ELSE Those(q, set)
    BY <2>1, ThoseThen
  <2>3. x \in set => Then(Those(q, set), x) \in Seq(X \cap set)
    BY <2>1, ThenIs
  <2>4. Then(q, x) \in Seq(X)
    BY <2>1, ThenIs
  <2> QED
    BY <2>1, <2>2, <2>3, <2>4
<1>3. queue \in G
  <2> HIDE DEF G
  <2> QED
    BY <1>1, <1>2, AllQueues
<1> QED
  BY <1>3

\* Of two queues in a row.
LEMMA ThoseBoth ==
    ASSUME NEW X, NEW front \in Seq(X), NEW back \in Seq(X), NEW set
    PROVE  Those(Both(front, back), set) = Both(Those(front, set), Those(back, set))
<1> DEFINE Good(q) == Those(Both(front, q), set) = Both(Those(front, set), Those(q, set))
           G == {q \in Seq(X) : Good(q)}
<1>1. None \in G
  <2>1. /\ Both(front, None) = front /\ Those(None, set) = None /\ None \in Seq(X)
        /\ Both(Those(front, set), None) = Those(front, set)
    BY NoneIs, BothIs, ThoseSeq
  <2> QED
    BY <2>1
<1>2. ASSUME NEW q \in G \cap Seq(X), NEW x \in X PROVE Then(q, x) \in G
  <2>1. q \in Seq(X) /\ Good(q)
    BY <1>2
  <2>2. Those(Then(q, x), set) = IF x \in set THEN Then(Those(q, set), x) ELSE Those(q, set)
    BY <2>1, ThoseThen
  <2>3. Both(front, q) \in Seq(X) /\ Both(front, Then(q, x)) = Then(Both(front, q), x)
    BY <2>1, BothIs, BothThen
  <2>4. Those(Then(Both(front, q), x), set) =
           IF x \in set THEN Then(Those(Both(front, q), set), x) ELSE Those(Both(front, q), set)
    BY <2>3, ThoseThen
  <2>5. Those(front, set) \in Seq(X) /\ Those(q, set) \in Seq(X)
    BY <2>1, ThoseSeq
  <2>6. Both(Those(front, set), Then(Those(q, set), x)) =
           Then(Both(Those(front, set), Those(q, set)), x)
    BY <2>5, BothThen
  <2>7. Good(Then(q, x)) /\ Then(q, x) \in Seq(X)
    BY <2>1, <2>2, <2>3, <2>4, <2>6, ThenIs
  <2> QED
    BY <2>7
<1>3. back \in G
  <2> HIDE DEF G
  <2> QED
    BY <1>1, <1>2, AllQueues
<1> QED
  BY <1>3

LEMMA ThoseConcat ==
    ASSUME NEW X, NEW front \in Seq(X), NEW back \in Seq(X), NEW set
    PROVE  Those(front \o back, set) = Those(front, set) \o Those(back, set)
BY ThoseBoth DEF Both

\* Those of those: the tasks that are in both sets.
LEMMA ThoseOfThose ==
    ASSUME NEW X, NEW queue \in Seq(X), NEW A, NEW B
    PROVE  Those(Those(queue, A), B) = Those(queue, A \cap B)
<1> DEFINE Good(q) == Those(Those(q, A), B) = Those(q, A \cap B)
           G == {q \in Seq(X) : Good(q)}
<1>1. None \in G
  BY NoneIs
<1>2. ASSUME NEW q \in G \cap Seq(X), NEW x \in X PROVE Then(q, x) \in G
  <2>1. q \in Seq(X) /\ Good(q)
    BY <1>2
  <2>2. Those(Then(q, x), A) = IF x \in A THEN Then(Those(q, A), x) ELSE Those(q, A)
    BY <2>1, ThoseThen
  <2>3. Those(Then(q, x), A \cap B) =
           IF x \in A \cap B THEN Then(Those(q, A \cap B), x) ELSE Those(q, A \cap B)
    BY <2>1, ThoseThen
  <2>4. Those(q, A) \in Seq(X)
    BY <2>1, ThoseSeq
  <2>5. Those(Then(Those(q, A), x), B) =
           IF x \in B THEN Then(Those(Those(q, A), B), x) ELSE Those(Those(q, A), B)
    BY <2>4, ThoseThen
  <2>6. Then(q, x) \in Seq(X)
    BY <2>1, ThenIs
  <2>7. Good(Then(q, x))
    BY <2>1, <2>2, <2>3, <2>5
  <2> QED
    BY <2>6, <2>7
<1>3. queue \in G
  <2> HIDE DEF G
  <2> QED
    BY <1>1, <1>2, AllQueues
<1> QED
  BY <1>3

\* All the tasks of a queue, when the set has each.
LEMMA ThoseAll ==
    ASSUME NEW X, NEW queue \in Seq(X), NEW set, X \subseteq set
    PROVE  Those(queue, set) = queue
<1> DEFINE G == {q \in Seq(X) : Those(q, set) = q}
<1>1. None \in G
  BY NoneIs
<1>2. ASSUME NEW q \in G \cap Seq(X), NEW x \in X PROVE Then(q, x) \in G
  <2>1. q \in Seq(X) /\ Those(q, set) = q /\ x \in set
    BY <1>2
  <2>2. Those(Then(q, x), set) = Then(q, x) /\ Then(q, x) \in Seq(X)
    BY <2>1, ThoseThen, ThenIs
  <2> QED
    BY <2>2
<1>3. queue \in G
  <2> HIDE DEF G
  <2> QED
    BY <1>1, <1>2, AllQueues
<1> QED
  BY <1>3

\* None, when it has none.
LEMMA ThoseNone ==
    ASSUME NEW X, NEW queue \in Seq(X), NEW set, X \cap set = {}
    PROVE  Those(queue, set) = <<>>
<1>1. Those(queue, set) \in Seq({})
  BY ThoseSeq
<1> QED
  BY <1>1

-----------------------------------------------------------------------------
(* How many they are.                                                      *)

Count(queue, set) == Len(Those(queue, set))

LEMMA CountNat ==
    ASSUME NEW X, NEW queue \in Seq(X), NEW set
    PROVE  Count(queue, set) \in Nat
BY ThoseSeq DEF Count

LEMMA CountThen ==
    ASSUME NEW X, NEW queue \in Seq(X), NEW task \in X, NEW set
    PROVE  Count(Then(queue, task), set) =
              IF task \in set THEN Count(queue, set) + 1 ELSE Count(queue, set)
<1>1. Those(queue, set) \in Seq(X)
  BY ThoseSeq
<1>2. Len(Then(Those(queue, set), task)) = Len(Those(queue, set)) + 1
  BY <1>1, ThenIs
<1> QED
  BY <1>2, ThoseThen DEF Count

\* Those in one of two disjoint sets.
LEMMA CountSplit ==
    ASSUME NEW X, NEW queue \in Seq(X), NEW A, NEW B, A \cap B = {}
    PROVE  Count(queue, A \cup B) = Count(queue, A) + Count(queue, B)
<1> DEFINE Good(q) == Count(q, A \cup B) = Count(q, A) + Count(q, B)
           G == {q \in Seq(X) : Good(q)}
<1>1. None \in G
  BY NoneIs DEF Count
<1>2. ASSUME NEW q \in G \cap Seq(X), NEW x \in X PROVE Then(q, x) \in G
  <2>1. q \in Seq(X) /\ Good(q)
    BY <1>2
  <2>2. /\ Count(Then(q, x), A) = IF x \in A THEN Count(q, A) + 1 ELSE Count(q, A)
        /\ Count(Then(q, x), B) = IF x \in B THEN Count(q, B) + 1 ELSE Count(q, B)
        /\ Count(Then(q, x), A \cup B) =
              IF x \in A \cup B THEN Count(q, A \cup B) + 1 ELSE Count(q, A \cup B)
    BY <2>1, CountThen
  <2>3. Count(q, A) \in Nat /\ Count(q, B) \in Nat
    BY <2>1, CountNat
  <2>4. ~ (x \in A /\ x \in B)
    OBVIOUS
  <2>5. Good(Then(q, x))
    BY <2>1, <2>2, <2>3, <2>4
  <2> QED
    BY <2>1, <2>5, ThenIs
<1>3. queue \in G
  <2> HIDE DEF G
  <2> QED
    BY <1>1, <1>2, AllQueues
<1> QED
  BY <1>3

\* Of two queues in a row.
LEMMA CountConcat ==
    ASSUME NEW X, NEW front \in Seq(X), NEW back \in Seq(X), NEW set
    PROVE  Count(front \o back, set) = Count(front, set) + Count(back, set)
<1>1. Those(front, set) \in Seq(X) /\ Those(back, set) \in Seq(X)
  BY ThoseSeq
<1> QED
  BY <1>1, ThoseBoth, BothIs DEF Count, Both

\* The first task and the others.
LEMMA ThoseFirst ==
    ASSUME NEW X, NEW queue \in Seq(X), queue # <<>>, NEW set
    PROVE  /\ Head(queue) \in X /\ Tail(queue) \in Seq(X) /\ Len(queue) = Len(Tail(queue)) + 1
           /\ Head(queue) \in set =>
                 /\ Those(queue, set) # <<>> /\ Head(Those(queue, set)) = Head(queue)
                 /\ Tail(Those(queue, set)) = Those(Tail(queue), set)
                 /\ Count(queue, set) = Count(Tail(queue), set) + 1
           /\ Head(queue) \notin set =>
                 /\ Those(queue, set) = Those(Tail(queue), set)
                 /\ Count(queue, set) = Count(Tail(queue), set)
<1>0. Head(queue) \in X /\ Tail(queue) \in Seq(X)
  OBVIOUS
<1>1. PICK h \in X, rest \in Seq(X) : h = Head(queue) /\ rest = Tail(queue)
  BY <1>0
<1>2. PICK one : one = Then(None, h)
  OBVIOUS
<1>3. one \in Seq(X) /\ one = <<h>>
  BY <1>2, NoneIs, ThenIs DEF Then, None
<1>4. queue = Both(one, rest) /\ Len(queue) = Len(rest) + 1
  BY <1>1, <1>3 DEF Both
<1>5. Those(queue, set) = Both(Those(one, set), Those(rest, set))
  <2>1. one \in Seq(X)
    BY <1>3
  <2>2. Those(Both(one, rest), set) = Both(Those(one, set), Those(rest, set))
    BY ONLY <2>1, rest \in Seq(X), ThoseBoth
  <2> QED
    BY ONLY <1>4, <2>2
<1>6. Those(one, set) = IF h \in set THEN one ELSE None
  BY <1>2, NoneIs, ThoseThen
<1>7. PICK t : t = Those(rest, set)
  OBVIOUS
<1>8. t \in Seq(X)
  BY <1>7, ThoseSeq
<1>9. CASE h \in set
  <2>1. Those(queue, set) = <<h>> \o t
    BY <1>3, <1>5, <1>6, <1>7, <1>9 DEF Both
  <2>2. PICK q : q = <<h>> \o t
    OBVIOUS
  <2>3. q # <<>> /\ Head(q) = h /\ Tail(q) = t /\ Len(q) = Len(t) + 1
    BY ONLY <1>8, <2>2, h \in X
  <2> QED
    BY ONLY <1>1, <1>4, <1>7, <1>9, <2>1, <2>2, <2>3 DEF Count
<1>10. CASE h \notin set
  <2>1. Those(queue, set) = t
    BY <1>5, <1>6, <1>7, <1>8, <1>10, BothIs
  <2> QED
    BY ONLY <1>1, <1>4, <1>7, <1>10, <2>1 DEF Count
<1> QED
  BY <1>9, <1>10

-----------------------------------------------------------------------------
(* The tasks of the scheduler.                                             *)

Task == Kind \cup Socket

PollsIn(queue) == Count(queue, {"poll"})
IndsIn(queue) == Count(queue, {"ind"})
SocketsIn(queue) == Count(queue, Socket)

\* Each task is of one of three kinds.
LEMMA QueueCounts ==
    ASSUME NEW queue \in Seq(Task)
    PROVE  /\ PollsIn(queue) \in Nat /\ IndsIn(queue) \in Nat /\ SocketsIn(queue) \in Nat
           /\ Len(queue) = PollsIn(queue) + IndsIn(queue) + SocketsIn(queue)
           /\ Count(queue, Kind) = PollsIn(queue) + IndsIn(queue)
<1>1. PollsIn(queue) \in Nat /\ IndsIn(queue) \in Nat /\ SocketsIn(queue) \in Nat
  BY CountNat DEF PollsIn, IndsIn, SocketsIn
<1>2. {"poll"} \cap {"ind"} = {} /\ Kind = {"poll"} \cup {"ind"} /\ Kind \cap Socket = {}
  BY SchAssumption DEF Kind
<1>3. Count(queue, {"poll"} \cup {"ind"}) = PollsIn(queue) + IndsIn(queue)
  BY <1>2, CountSplit DEF PollsIn, IndsIn
<1>4. Count(queue, Kind \cup Socket) = Count(queue, Kind) + SocketsIn(queue)
  BY <1>2, CountSplit DEF SocketsIn
<1>5. Count(queue, Kind \cup Socket) = Len(queue)
  BY ThoseAll DEF Count, Task
<1>6. Count(queue, Kind) = PollsIn(queue) + IndsIn(queue)
  BY ONLY <1>2, <1>3
<1> QED
  BY ONLY <1>1, <1>4, <1>5, <1>6

\* An empty queue has none.
LEMMA EmptyCounts ==
    PollsIn(<<>>) = 0 /\ IndsIn(<<>>) = 0 /\ SocketsIn(<<>>) = 0 /\ <<>> \in Seq(Task)
BY ThoseEmpty DEF PollsIn, IndsIn, SocketsIn, Count

\* Two queues in a row.
LEMMA ConcatCounts ==
    ASSUME NEW front \in Seq(Task), NEW back \in Seq(Task)
    PROVE  /\ front \o back \in Seq(Task)
           /\ Len(front \o back) = Len(front) + Len(back)
           /\ PollsIn(front \o back) = PollsIn(front) + PollsIn(back)
           /\ IndsIn(front \o back) = IndsIn(front) + IndsIn(back)
           /\ SocketsIn(front \o back) = SocketsIn(front) + SocketsIn(back)
<1>1. front \o back \in Seq(Task) /\ Len(front \o back) = Len(front) + Len(back)
  OBVIOUS
<1> QED
  BY <1>1, CountConcat DEF PollsIn, IndsIn, SocketsIn

\* The tasks of a queue in a set.
LEMMA ThoseCounts ==
    ASSUME NEW queue \in Seq(Task), NEW set, NEW part
    PROVE  /\ Those(queue, set) \in Seq(Task)
           /\ part \subseteq set => Count(Those(queue, set), part) = Count(queue, part)
           /\ part \cap set = {} => Count(Those(queue, set), part) = 0
<1>1. Those(queue, set) \in Seq(Task)
  BY ThoseSeq
<1>2. Those(Those(queue, set), part) = Those(queue, set \cap part)
  BY ThoseOfThose
<1>3. ASSUME part \subseteq set PROVE set \cap part = part
  BY <1>3
<1>4. ASSUME part \cap set = {} PROVE Count(Those(queue, set), part) = 0
  <2>1. Those(queue, set) \in Seq(Task \cap set) /\ (Task \cap set) \cap part = {}
    BY <1>4, ThoseSeq
  <2>2. Those(Those(queue, set), part) = <<>>
    BY <2>1, ThoseNone
  <2> QED
    BY <2>2 DEF Count
<1> QED
  BY <1>1, <1>2, <1>3, <1>4 DEF Count

\* What a task submits: at most Burst indications, and a socket its own task.
LEMMA SubmissionCounts ==
    ASSUME NEW task \in Task, NEW tasks \in Submissions(task)
    PROVE  /\ tasks \in Seq(Task) /\ PollsIn(tasks) = 0
           /\ IndsIn(tasks) \in 0 .. Burst /\ (task = "ind" => IndsIn(tasks) = 0)
           /\ SocketsIn(tasks) = IF task \in Socket THEN 1 ELSE 0
           /\ Len(tasks) = IndsIn(tasks) + SocketsIn(tasks)
<1>1. PICK k, inds, again :
         /\ k \in Nat /\ k <= Burst /\ (task = "ind" => k = 0)
         /\ inds = [i \in 1 .. k |-> "ind"]
         /\ again = (IF task \in Socket THEN <<task>> ELSE <<>>)
         /\ tasks = inds \o again
  <2>1. PICK k \in IF task = "ind" THEN {0} ELSE 0 .. Burst :
           tasks = [i \in 1 .. k |-> "ind"] \o (IF task \in Socket THEN <<task>> ELSE <<>>)
    BY DEF Submissions
  <2>2. k \in Nat /\ k <= Burst /\ (task = "ind" => k = 0)
    BY <2>1, SchAssumption
  <2> QED
    BY <2>1, <2>2
<1>2. inds \in Seq({"ind"}) /\ inds \in Seq(Task) /\ Len(inds) = k
  BY <1>1 DEF Task, Kind
<1>3. {"ind"} \cap Socket = {} /\ {"ind"} \cap {"poll"} = {} /\ Socket \cap {"poll"} = {}
  BY SchAssumption
<1>4. IndsIn(inds) = k /\ PollsIn(inds) = 0 /\ SocketsIn(inds) = 0
  <2>1. Those(inds, {"ind"}) = inds
    BY <1>2, ThoseAll
  <2>2. Those(inds, {"poll"}) = <<>> /\ Those(inds, Socket) = <<>>
    BY <1>2, <1>3, ThoseNone
  <2> QED
    BY <1>2, <2>1, <2>2 DEF IndsIn, PollsIn, SocketsIn, Count
<1>5. /\ again \in Seq(Task) /\ PollsIn(again) = 0 /\ IndsIn(again) = 0
      /\ SocketsIn(again) = IF task \in Socket THEN 1 ELSE 0
  <2>1. CASE task \in Socket
    <3>1. again \in Seq(Socket) /\ again \in Seq(Task) /\ Len(again) = 1
      BY <1>1, <2>1
    <3>2. Those(again, Socket) = again
      BY <3>1, ThoseAll
    <3>3. Those(again, {"poll"}) = <<>> /\ Those(again, {"ind"}) = <<>>
      BY <1>3, <3>1, ThoseNone
    <3> QED
      BY <2>1, <3>1, <3>2, <3>3 DEF IndsIn, PollsIn, SocketsIn, Count
  <2>2. CASE task \notin Socket
    BY <1>1, <2>2, EmptyCounts
  <2> QED
    BY <2>1, <2>2
<1>6. /\ tasks \in Seq(Task) /\ PollsIn(tasks) = 0 /\ IndsIn(tasks) = k
      /\ SocketsIn(tasks) = IF task \in Socket THEN 1 ELSE 0
  <2>1. /\ inds \o again \in Seq(Task) /\ PollsIn(inds \o again) = PollsIn(inds) + PollsIn(again)
        /\ IndsIn(inds \o again) = IndsIn(inds) + IndsIn(again)
        /\ SocketsIn(inds \o again) = SocketsIn(inds) + SocketsIn(again)
    BY <1>2, <1>5, ConcatCounts
  <2>2. tasks = inds \o again /\ k \in Nat
    BY <1>1
  <2> QED
    BY ONLY <1>4, <1>5, <2>1, <2>2
<1>7. Len(tasks) = PollsIn(tasks) + IndsIn(tasks) + SocketsIn(tasks)
  BY <1>6, QueueCounts
<1> QED
  BY ONLY <1>1, <1>6, <1>7, SchAssumption

-----------------------------------------------------------------------------
(* The invariant, for any load: the types, the pool, and the round.        *)

SchTyped ==
    /\ avail \in Nat /\ counter \in Nat
    /\ active \in Seq(Task) /\ run \in Seq(Task)
    /\ pc \in {"scan", "run", "select", "asleep", "aborted"}
    /\ readable \subseteq Socket /\ doing \in Kind \cup {"none"}

\* Every element of the pool is available or stands for a task.
Elements == pc # "aborted" => avail + Len(active) + Len(run) = MaxTasks

\* A round runs the tasks it starts with: those that are submitted meanwhile
\* wait for the next.
Rounds ==
    pc # "aborted" => /\ counter + Len(run) <= MaxTasks
                      /\ pc # "run" => counter = 0 /\ run = <<>>

SchInv == SchTyped /\ Elements /\ Rounds

LEMMA SocketsNat == Cardinality(Socket) \in Nat
BY SchAssumption, FS_CardinalityType

\* The queue at the start.
LEMMA SchInitHolds ==
    ASSUME SchInit
    PROVE  SchInv /\ active \in Seq(Socket) /\ Len(active) = Cardinality(Socket)
<1>1. PICK f \in [1 .. Cardinality(Socket) -> Socket] : active = f
  BY DEF SchInit
<1>2. active \in Seq(Socket) /\ Len(active) = Cardinality(Socket)
  BY <1>1, SocketsNat
<1>3. active \in Seq(Task)
  BY <1>2 DEF Task
<1>4. avail = MaxTasks - Cardinality(Socket) /\ avail \in Nat
  BY SocketsNat, SchAssumption DEF SchInit
<1>5. run = <<>> /\ run \in Seq(Task) /\ Len(run) = 0
  BY DEF SchInit
<1>6. SchTyped
  BY <1>3, <1>4, <1>5 DEF SchInit, SchTyped
<1>7. Elements /\ Rounds
  BY <1>2, <1>4, <1>5, SocketsNat, SchAssumption DEF SchInit, Elements, Rounds
<1> QED
  BY <1>2, <1>6, <1>7 DEF SchInv

\* The alarm signal.
LEMMA SignalHolds ==
    ASSUME SchInv, Signal
    PROVE  SchInv'
<1>0. SchTyped /\ Elements /\ Rounds
  BY DEF SchInv
<1>1. PICK next : /\ next = (IF pc = "asleep" THEN "run" ELSE pc)
                  /\ SubmitPoll(next)
  BY DEF Signal
<1>2. pc # "aborted" /\ UNCHANGED <<run, counter, readable, doing>>
  BY <1>1 DEF SubmitPoll
<1>3. CASE avail > 0 /\ avail' = avail - 1 /\ active' = Append(active, "poll") /\ pc' = next
  <2>1. "poll" \in Task
    BY DEF Task, Kind
  <2>2. active' \in Seq(Task) /\ Len(active') = Len(active) + 1 /\ Len(active) \in Nat
    BY <1>0, <1>3, <2>1 DEF SchTyped
  <2>3. avail' \in Nat /\ avail' = avail - 1 /\ avail \in Nat /\ Len(run) \in Nat
    BY <1>0, <1>3 DEF SchTyped
  <2>4. SchTyped'
    BY <1>0, <1>1, <1>2, <1>3, <2>2, <2>3 DEF SchTyped
  <2>5. Elements'
    BY <1>0, <1>2, <2>2, <2>3 DEF Elements
  <2>6. Rounds'
    BY <1>0, <1>1, <1>2, <1>3 DEF Rounds
  <2> QED
    BY <2>4, <2>5, <2>6 DEF SchInv
<1>4. CASE pc' = "aborted" /\ UNCHANGED <<avail, active>>
  BY <1>0, <1>2, <1>4 DEF SchInv, SchTyped, Elements, Rounds
<1> QED
  BY <1>1, <1>3, <1>4 DEF SubmitPoll

\* Where Scan leaves the tasks.
LEMMA ScanMoves ==
    ASSUME SchInv, Scan
    PROVE  /\ active' = Those(active, Socket) /\ run' = Those(active, Kind)
           /\ run = <<>> /\ counter = 0
           /\ active' \in Seq(Task) /\ run' \in Seq(Task)
           /\ Len(active') + Len(run') = Len(active)
           /\ pc' = "run" \/ (pc' = "select" /\ run' = <<>>)
<1>1. active \in Seq(Task) /\ run = <<>> /\ counter = 0
  BY DEF SchInv, SchTyped, Rounds, Scan
<1>2. run' = <<>> \o Those(active, Kind) /\ active' = Those(active, Socket)
  BY <1>1 DEF Scan, MoveInternal, Internal
<1>3. Those(active, Kind) \in Seq(Task) /\ Those(active, Socket) \in Seq(Task)
  BY <1>1, ThoseSeq
<1>4. run' = Those(active, Kind)
  BY <1>2, <1>3
<1>5. Len(active') = SocketsIn(active) /\ Len(run') = PollsIn(active) + IndsIn(active)
  BY <1>1, <1>2, <1>4, QueueCounts DEF SocketsIn, Count
<1>6. Len(active') + Len(run') = Len(active)
  BY <1>1, <1>5, QueueCounts
<1>7. pc' = "run" \/ (pc' = "select" /\ run' = <<>>)
  BY <1>4 DEF Scan, Internal
<1> QED
  BY <1>1, <1>2, <1>3, <1>4, <1>6, <1>7

\* Where Woken leaves them.
LEMMA WokenMoves ==
    ASSUME SchInv, Woken
    PROVE  /\ active' = Those(active, Socket \ readable)
           /\ run' = Those(active, Kind \cup readable)
           /\ run = <<>> /\ counter = 0
           /\ active' \in Seq(Task) /\ run' \in Seq(Task)
           /\ Len(active') + Len(run') = Len(active)
<1>1. active \in Seq(Task) /\ run = <<>> /\ counter = 0 /\ readable \subseteq Socket
  BY DEF SchInv, SchTyped, Rounds, Woken
<1>2. /\ run' = <<>> \o Those(active, Kind \cup readable)
      /\ active' = Those(active, Socket \ readable)
  BY <1>1 DEF Woken
<1>3. /\ Those(active, Kind \cup readable) \in Seq(Task)
      /\ Those(active, Socket \ readable) \in Seq(Task)
  BY <1>1, ThoseSeq
<1>4. run' = Those(active, Kind \cup readable)
  BY <1>2, <1>3
<1>5. /\ (Socket \ readable) \cap (Kind \cup readable) = {}
      /\ Task \subseteq (Socket \ readable) \cup (Kind \cup readable)
  BY SchAssumption DEF Kind, Task
<1>6. Count(active, (Socket \ readable) \cup (Kind \cup readable)) =
         Count(active, Socket \ readable) + Count(active, Kind \cup readable)
  BY <1>1, <1>5, CountSplit
<1>7. Count(active, (Socket \ readable) \cup (Kind \cup readable)) = Len(active)
  BY <1>1, <1>5, ThoseAll DEF Count
<1> QED
  BY <1>1, <1>2, <1>3, <1>4, <1>6, <1>7 DEF Count

\* The select and the scan.
LEMMA BlockHolds ==
    ASSUME SchInv, Scan \/ Sleep \/ Woken
    PROVE  SchInv'
<1>0. SchTyped /\ Elements /\ Rounds
  BY DEF SchInv
<1>1. CASE Scan
  <2>1. PICK a, r : a = active' /\ r = run'
    OBVIOUS
  <2>2. /\ a \in Seq(Task) /\ r \in Seq(Task) /\ Len(a) + Len(r) = Len(active)
        /\ run = <<>> /\ counter = 0 /\ Len(a) \in Nat /\ Len(r) \in Nat
    BY <1>1, <2>1, ScanMoves
  <2>3. /\ pc = "scan" /\ UNCHANGED <<avail, counter, readable, doing>>
        /\ pc' = "run" \/ (pc' = "select" /\ run' = <<>>)
    BY <1>1, ScanMoves DEF Scan
  <2>4. SchTyped'
    BY <1>0, <2>1, <2>2, <2>3 DEF SchTyped
  <2>5. avail + Len(active) + 0 = MaxTasks /\ avail \in Nat /\ Len(active) \in Nat
    BY <1>0, <2>2, <2>3 DEF Elements, SchTyped
  <2>6. Elements' /\ Rounds'
    BY <2>1, <2>2, <2>3, <2>5 DEF Elements, Rounds
  <2> QED
    BY <2>4, <2>6 DEF SchInv
<1>2. CASE Sleep
  BY <1>0, <1>2 DEF SchInv, SchTyped, Elements, Rounds, Sleep
<1>3. CASE Woken
  <2>1. PICK a, r : a = active' /\ r = run'
    OBVIOUS
  <2>2. /\ a \in Seq(Task) /\ r \in Seq(Task) /\ Len(a) + Len(r) = Len(active)
        /\ run = <<>> /\ counter = 0 /\ Len(a) \in Nat /\ Len(r) \in Nat
    BY <1>3, <2>1, WokenMoves
  <2>3. /\ pc # "aborted" /\ UNCHANGED <<avail, counter, readable, doing>> /\ pc' = "run"
    BY <1>3 DEF Woken
  <2>4. SchTyped'
    BY <1>0, <2>1, <2>2, <2>3 DEF SchTyped
  <2>5. avail + Len(active) + 0 = MaxTasks /\ avail \in Nat /\ Len(active) \in Nat
    BY <1>0, <2>2, <2>3 DEF Elements, SchTyped
  <2>6. Elements' /\ Rounds'
    BY <2>1, <2>2, <2>3, <2>5 DEF Elements, Rounds
  <2> QED
    BY <2>4, <2>6 DEF SchInv
<1> QED
  BY <1>1, <1>2, <1>3

\* What RunOne does with a task and what it submits, the pool large enough or
\* not.
Ran(task, tasks) ==
    /\ task = Head(run) /\ run # <<>> /\ run' = Tail(run)
    /\ run' \in Seq(Task) /\ Len(run) = Len(run') + 1
    /\ tasks \in Seq(Task)
    /\ doing' = (IF task \in Kind THEN task ELSE doing)
    /\ counter' = counter + 1 /\ readable' = readable \ {task}
    /\ \/ /\ Len(tasks) <= avail /\ avail' = avail - Len(tasks) + 1
          /\ active' = active \o tasks /\ pc' = "run"
       \/ Len(tasks) > avail /\ pc' = "aborted" /\ UNCHANGED <<avail, active>>

LEMMA RunOneMoves ==
    ASSUME SchInv, RunOne
    PROVE  \E task \in Task : \E tasks \in Submissions(task) : Ran(task, tasks)
<1>1. /\ run # <<>> /\ run' = Tail(run) /\ pc = "run"
      /\ doing' = (IF Head(run) \in Kind THEN Head(run) ELSE doing)
      /\ counter' = counter + 1 /\ readable' = readable \ {Head(run)}
  BY DEF RunOne
<1>2. run \in Seq(Task)
  BY DEF SchInv, SchTyped
<1>3. PICK task \in Task : task = Head(run)
  <2>1. Head(run) \in Task
    BY <1>1, <1>2
  <2> QED
    BY <2>1
<1>4. run' \in Seq(Task) /\ Len(run) = Len(run') + 1
  BY <1>1, <1>2
<1>5. PICK tasks \in Submissions(task) :
         \/ /\ Len(tasks) <= avail /\ avail' = avail - Len(tasks) + 1
            /\ active' = active \o tasks /\ pc' = pc
         \/ Len(tasks) > avail /\ pc' = "aborted" /\ UNCHANGED <<avail, active>>
  BY <1>3 DEF RunOne, ReturnElement
<1>6. tasks \in Seq(Task)
  BY SubmissionCounts
<1> QED
  BY <1>1, <1>3, <1>4, <1>5, <1>6 DEF Ran

LEMMA RunHolds ==
    ASSUME SchInv, RunOne \/ RunEnd
    PROVE  SchInv'
<1>0. SchTyped /\ Elements /\ Rounds
  BY DEF SchInv
<1>1. CASE RunOne
  <2>0. PICK task \in Task : \E tasks \in Submissions(task) : Ran(task, tasks)
    BY <1>1, RunOneMoves
  <2>1. PICK tasks \in Submissions(task) : Ran(task, tasks)
    BY <2>0
  <2>2. pc = "run"
    BY <1>1 DEF RunOne
  <2>3. counter' \in Nat /\ readable' \subseteq Socket /\ doing' \in Kind \cup {"none"}
    BY <1>0, <2>1 DEF SchTyped, Ran
  <2>4. CASE /\ Len(tasks) <= avail /\ avail' = avail - Len(tasks) + 1
             /\ active' = active \o tasks /\ pc' = "run"
    <3>1. PICK r : r = run'
      OBVIOUS
    <3>2. /\ r \in Seq(Task) /\ Len(run) = Len(r) + 1 /\ Len(r) \in Nat /\ Len(tasks) \in Nat
          /\ counter' = counter + 1
      BY <2>1, <3>1 DEF Ran
    <3>3. active' \in Seq(Task) /\ Len(active') = Len(active) + Len(tasks) /\ Len(active) \in Nat
      BY <1>0, <2>1, <2>4 DEF SchTyped, Ran
    <3>4. avail \in Nat /\ counter \in Nat /\ avail' \in Nat
      BY <1>0, <2>4, <3>2 DEF SchTyped
    <3>5. SchTyped'
      BY <2>3, <2>4, <3>1, <3>2, <3>3, <3>4 DEF SchTyped
    <3>6. avail + Len(active) + Len(run) = MaxTasks /\ counter + Len(run) <= MaxTasks
      BY <1>0, <2>2 DEF Elements, Rounds
    <3>7. Elements' /\ Rounds'
      BY <2>4, <3>1, <3>2, <3>3, <3>4, <3>6 DEF Elements, Rounds
    <3> QED
      BY <3>5, <3>7 DEF SchInv
  <2>5. CASE pc' = "aborted" /\ UNCHANGED <<avail, active>>
    BY <1>0, <2>1, <2>3, <2>5 DEF SchInv, SchTyped, Elements, Rounds, Ran
  <2> QED
    BY <2>1, <2>4, <2>5 DEF Ran
<1>2. CASE RunEnd
  <2>1. /\ pc' = "scan" /\ counter' = 0 /\ run = <<>> /\ pc = "run"
        /\ UNCHANGED <<avail, active, run, readable, doing>>
    BY <1>2 DEF RunEnd
  <2>2. Len(run) = 0
    BY <2>1
  <2>3. SchTyped' /\ Elements'
    BY <1>0, <2>1 DEF SchTyped, Elements
  <2>4. Rounds'
    BY <2>1, <2>2, SchAssumption DEF Rounds
  <2> QED
    BY <2>3, <2>4 DEF SchInv
<1> QED
  BY <1>1, <1>2

\* A step of the scheduler keeps the invariant.
LEMMA SchStepHolds ==
    ASSUME SchInv, [SchNext]_schVars
    PROVE  SchInv'
<1>1. CASE MainStep
  BY <1>1, BlockHolds, RunHolds DEF MainStep
<1>2. CASE Signal
  BY <1>2, SignalHolds
<1>3. CASE \E s \in Socket : Arrive(s)
  BY <1>3 DEF Arrive, SchInv, SchTyped, Elements, Rounds
<1>4. CASE UNCHANGED schVars
  BY <1>4 DEF schVars, SchInv, SchTyped, Elements, Rounds
<1> QED
  BY <1>1, <1>2, <1>3, <1>4 DEF SchNext

\* For any load, no element of the pool gets lost while the process runs:
\* the elements that are available, those in the active queue and those in
\* the run queue make up the pool (SCH_submit, SCH_block, SCH_run).
THEOREM SchInvariant == SchSpec => []SchInv
<1>1. SchInit => SchInv
  BY SchInitHolds
<1>2. SchInv /\ [SchNext]_schVars => SchInv'
  BY SchStepHolds
<1> QED
  BY <1>1, <1>2, PTL DEF SchSpec

\* The sanity limit is not reached while there are tasks to run.
RoundComplete == pc = "run" /\ run # <<>> => counter <= Sanity

\* A round of SCH_run is never cut short by its sanity limit when the pool has
\* no more elements than that (MAX_SCH_TASKS 100, limit 200), whatever the load:
\* the task that would be the limit's victim, and its element, are always run
\* and returned.
THEOREM RoundsComplete ==
    ASSUME MaxTasks <= Sanity + 1
    PROVE  SchSpec => []RoundComplete
<1>1. SchInv => RoundComplete
  <2>1. SUFFICES ASSUME SchInv, pc = "run", run # <<>> PROVE counter <= Sanity
    BY DEF RoundComplete
  <2>2. run \in Seq(Task) /\ counter \in Nat /\ counter + Len(run) <= MaxTasks
    BY <2>1 DEF SchInv, SchTyped, Rounds
  <2>3. Len(run) \in Nat /\ Len(run) # 0
    BY <2>1, <2>2
  <2> QED
    BY <2>2, <2>3, SchAssumption
<1> QED
  BY <1>1, SchInvariant, PTL

-----------------------------------------------------------------------------
(* How large a pool is enough.                                             *)

Times(n) == Burst * n

PollBound == MaxPolls + 1
NumSockets == Cardinality(Socket)

\* The indications that a round may submit, in all and by its polls only.
RoundLoad == Times(PollBound + NumSockets)
PollLoad == Times(PollBound)

\* A pool that has an element for every poll and socket, for the indications
\* of two rounds, and one to spare.
PoolSuffices == MaxTasks > PollBound + NumSockets + RoundLoad + PollLoad

LEMMA TimesIs ==
    ASSUME NEW n \in Nat
    PROVE  Times(n) \in Nat /\ Times(n + 1) = Times(n) + Burst /\ Times(0) = 0
BY SchAssumption DEF Times

LEMMA NatProduct ==
    ASSUME NEW n \in Nat, NEW m \in Nat
    PROVE  n * m \in Nat
OBVIOUS

LEMMA TimesMonotone ==
    ASSUME NEW n \in Nat, NEW m \in Nat, n <= m
    PROVE  Times(n) <= Times(m)
<1>1. PICK d \in Nat : m = n + d
  <2>1. m - n \in Nat /\ m = n + (m - n)
    OBVIOUS
  <2> QED
    BY <2>1
<1>2. Burst * (n + d) = Burst * n + Burst * d
  BY SchAssumption
<1>3. Burst * d \in Nat /\ Burst * n \in Nat
  BY SchAssumption, NatProduct
<1> QED
  BY <1>1, <1>2, <1>3 DEF Times

LEMMA LoadsNat ==
    /\ NumSockets \in Nat /\ PollBound \in Nat /\ PollBound = MaxPolls + 1 /\ MaxPolls \in Nat
    /\ RoundLoad \in Nat /\ PollLoad \in Nat /\ PollLoad <= RoundLoad
    /\ Burst \in Nat /\ MaxTasks \in Nat
<1>1. NumSockets \in Nat /\ PollBound \in Nat /\ PollBound <= PollBound + NumSockets
  BY SocketsNat, SchAssumption DEF NumSockets, PollBound
<1>2. RoundLoad \in Nat /\ PollLoad \in Nat /\ PollLoad <= RoundLoad
  BY <1>1, TimesIs, TimesMonotone DEF RoundLoad, PollLoad
<1> QED
  BY <1>1, <1>2, SchAssumption DEF PollBound

\* The load of the two queues, while the process runs.  A socket has one task.
\* The indications of the active queue come from the polls and the sockets
\* that the round has run, and a round that runs sockets starts without any.
LoadInv ==
    /\ pc # "aborted"
    /\ SocketsIn(active) + SocketsIn(run) = NumSockets
    /\ PollsIn(active) + PollsIn(run) <= PollBound
    /\ pc \in {"select", "asleep"} => PollsIn(active) <= MaxPolls /\ IndsIn(active) = 0
    /\ pc = "scan" => IndsIn(active) <= RoundLoad
    /\ pc = "run" =>
          /\ IndsIn(run) <= RoundLoad
          /\ IndsIn(active) + Times(PollsIn(run) + SocketsIn(run)) <= RoundLoad
          /\ SocketsIn(run) > 0 => IndsIn(run) = 0
          /\ IndsIn(run) > 0 => IndsIn(active) + Times(PollsIn(run)) <= PollLoad

\* What the queues hold at once.
LEMMA LoadBounded ==
    ASSUME SchInv, LoadInv
    PROVE  /\ active \in Seq(Task) /\ run \in Seq(Task) /\ avail \in Nat
           /\ IndsIn(active) + IndsIn(run) <= RoundLoad + PollLoad
           /\ avail = MaxTasks - (PollsIn(active) + PollsIn(run) + NumSockets
                                    + IndsIn(active) + IndsIn(run))
<1>1. /\ active \in Seq(Task) /\ run \in Seq(Task) /\ avail \in Nat
      /\ avail + Len(active) + Len(run) = MaxTasks
      /\ pc # "run" => run = <<>>
      /\ pc \in {"scan", "run", "select", "asleep"}
  BY DEF SchInv, SchTyped, Elements, Rounds, LoadInv
<1>2. PICK pa, ia, sa, pr, ir, sr \in Nat :
         /\ pa = PollsIn(active) /\ ia = IndsIn(active) /\ sa = SocketsIn(active)
         /\ pr = PollsIn(run) /\ ir = IndsIn(run) /\ sr = SocketsIn(run)
         /\ Len(active) = pa + ia + sa /\ Len(run) = pr + ir + sr
  <2>1. /\ PollsIn(active) \in Nat /\ IndsIn(active) \in Nat /\ SocketsIn(active) \in Nat
        /\ Len(active) = PollsIn(active) + IndsIn(active) + SocketsIn(active)
    BY <1>1, QueueCounts
  <2>2. /\ PollsIn(run) \in Nat /\ IndsIn(run) \in Nat /\ SocketsIn(run) \in Nat
        /\ Len(run) = PollsIn(run) + IndsIn(run) + SocketsIn(run)
    BY <1>1, QueueCounts
  <2> QED
    BY <2>1, <2>2
<1>3. sa + sr = NumSockets
  BY <1>2 DEF LoadInv
<1>4. avail = MaxTasks - (pa + pr + NumSockets + ia + ir)
  <2>1. avail + (pa + ia + sa) + (pr + ir + sr) = MaxTasks
    BY <1>1, <1>2
  <2>2. avail \in Nat
    BY <1>1
  <2> QED
    BY <1>3, <2>1, <2>2, LoadsNat
<1>5. ia + ir <= RoundLoad + PollLoad
  <2>1. CASE pc = "run"
    <3>1. /\ ir <= RoundLoad /\ ia + Times(pr + sr) <= RoundLoad
          /\ ir > 0 => ia + Times(pr) <= PollLoad
      BY <1>2, <2>1 DEF LoadInv
    <3>2. Times(pr + sr) \in Nat /\ Times(pr) \in Nat
      BY TimesIs
    <3> QED
      BY <3>1, <3>2, LoadsNat
  <2>2. CASE pc # "run"
    <3>1. ir = 0 /\ ia <= RoundLoad
      BY <1>1, <1>2, <2>2, EmptyCounts, LoadsNat DEF LoadInv
    <3> QED
      BY <3>1, LoadsNat
  <2> QED
    BY <2>1, <2>2
<1> QED
  BY <1>1, <1>2, <1>4, <1>5

\* At the start each socket has its task.
LEMMA LoadInitHolds ==
    ASSUME SchInit
    PROVE  LoadInv
<1>1. active \in Seq(Socket) /\ Len(active) = NumSockets /\ active \in Seq(Task)
  BY SchInitHolds DEF NumSockets, SchInv, SchTyped
<1>2. run = <<>> /\ pc = "scan"
  BY DEF SchInit
<1>3. Those(active, Socket) = active
  BY <1>1, ThoseAll
<1>4. Socket \cap {"poll"} = {} /\ Socket \cap {"ind"} = {}
  BY SchAssumption
<1>5. Those(active, {"poll"}) = <<>> /\ Those(active, {"ind"}) = <<>>
  BY <1>1, <1>4, ThoseNone
<1>6. SocketsIn(active) = NumSockets /\ PollsIn(active) = 0 /\ IndsIn(active) = 0
  BY <1>1, <1>3, <1>5 DEF SocketsIn, PollsIn, IndsIn, Count
<1> QED
  BY <1>2, <1>6, EmptyCounts, LoadsNat DEF LoadInv

\* The alarm signal finds an element for TMR_poll.
LEMMA SignalLoads ==
    ASSUME SchInv, LoadInv, PoolSuffices, Signal
    PROVE  LoadInv'
<1>1. PICK next : /\ next = (IF pc = "asleep" THEN "run" ELSE pc)
                  /\ SubmitPoll(next)
  BY DEF Signal
<1>2. /\ active \in Seq(Task) /\ run \in Seq(Task) /\ avail \in Nat
      /\ IndsIn(active) + IndsIn(run) <= RoundLoad + PollLoad
      /\ avail = MaxTasks - (PollsIn(active) + PollsIn(run) + NumSockets
                               + IndsIn(active) + IndsIn(run))
  BY LoadBounded
<1>3. /\ PollsIn(active) \in Nat /\ IndsIn(active) \in Nat /\ SocketsIn(active) \in Nat
      /\ PollsIn(run) \in Nat /\ IndsIn(run) \in Nat /\ SocketsIn(run) \in Nat
  BY <1>2, QueueCounts
<1>4. Polls = PollsIn(active) + PollsIn(run)
  BY <1>2, ConcatCounts DEF Polls, PollsIn, Count
<1>5. pc # "run" => run = <<>>
  BY DEF SchInv, Rounds, LoadInv
<1>6. PollsIn(active) + PollsIn(run) <= MaxPolls
  <2>1. CASE Polls < MaxPolls
    BY <1>3, <1>4, <2>1, LoadsNat
  <2>2. CASE pc = "asleep"
    <3>1. PollsIn(active) <= MaxPolls /\ PollsIn(run) = 0
      BY <1>5, <2>2, EmptyCounts DEF LoadInv
    <3> QED
      BY <1>3, <3>1, LoadsNat
  <2> QED
    BY <1>1, <2>1, <2>2 DEF SubmitPoll
<1>7. avail > 0
  BY <1>2, <1>3, <1>6, LoadsNat, SMTT(40) DEF PoolSuffices
<1>8. /\ active' = Append(active, "poll") /\ pc' = next
      /\ run' = run
  BY <1>1, <1>2, <1>7 DEF SubmitPoll
<1>9. /\ PollsIn(active') = PollsIn(active) + 1 /\ IndsIn(active') = IndsIn(active)
      /\ SocketsIn(active') = SocketsIn(active)
  <2>1. "poll" \in Task /\ "poll" \notin Socket /\ "poll" \in {"poll"} /\ "poll" \notin {"ind"}
    BY SchAssumption DEF Task, Kind
  <2>2. active' = Then(active, "poll")
    BY <1>8 DEF Then
  <2> QED
    BY ONLY <1>2, <2>1, <2>2, CountThen DEF PollsIn, IndsIn, SocketsIn
<1>10. PICK pa, ia, sa, pr, ir, sr \in Nat :
         /\ pa = PollsIn(active) /\ ia = IndsIn(active) /\ sa = SocketsIn(active)
         /\ pr = PollsIn(run) /\ ir = IndsIn(run) /\ sr = SocketsIn(run)
         /\ PollsIn(active') = pa + 1 /\ IndsIn(active') = ia /\ SocketsIn(active') = sa
         /\ PollsIn(run') = pr /\ IndsIn(run') = ir /\ SocketsIn(run') = sr
  BY <1>3, <1>8, <1>9
<1>11. CASE pc = "asleep"
  <2>1. pc' = "run" /\ pr = 0 /\ ir = 0 /\ sr = 0 /\ ia = 0
    BY <1>1, <1>5, <1>8, <1>10, <1>11, EmptyCounts DEF LoadInv
  <2>2. pa + 1 <= PollBound /\ sa = NumSockets
    BY <1>6, <1>10, <2>1, LoadsNat DEF LoadInv
  <2>3. Times(0) = 0 /\ 0 + 0 = 0
    BY TimesIs
  <2> QED
    BY <1>10, <2>1, <2>2, <2>3, LoadsNat DEF LoadInv
<1>12. CASE pc # "asleep"
  <2>1. pc' = pc /\ pc # "aborted"
    BY <1>1, <1>8, <1>12 DEF LoadInv
  <2>2. pa + 1 + pr <= PollBound
    BY <1>6, <1>10, LoadsNat
  <2>3. pc = "select" => pa + 1 <= MaxPolls
    <3>1. ASSUME pc = "select" PROVE pa + 1 <= MaxPolls
      <4>1. Polls < MaxPolls /\ pr = 0
        BY <1>1, <1>5, <1>10, <1>12, <3>1, EmptyCounts DEF SubmitPoll
      <4> QED
        BY <1>4, <1>10, <4>1, LoadsNat
    <3> QED
      BY <3>1
  <2>4. /\ sa + sr = NumSockets
        /\ pc = "select" => ia = 0
        /\ pc = "scan" => ia <= RoundLoad
        /\ pc = "run" =>
              /\ ir <= RoundLoad /\ ia + Times(pr + sr) <= RoundLoad
              /\ sr > 0 => ir = 0
              /\ ir > 0 => ia + Times(pr) <= PollLoad
    BY <1>10 DEF LoadInv
  <2> QED
    BY <1>10, <1>12, <2>1, <2>2, <2>3, <2>4 DEF LoadInv
<1> QED
  BY <1>11, <1>12

\* Where Scan and Woken leave what is in the active queue.
LEMMA ScanCounts ==
    ASSUME SchInv, Scan
    PROVE  /\ active \in Seq(Task)
           /\ PollsIn(active') = 0 /\ PollsIn(run') = PollsIn(active)
           /\ IndsIn(active') = 0 /\ IndsIn(run') = IndsIn(active)
           /\ SocketsIn(active') = SocketsIn(active) /\ SocketsIn(run') = 0
<1>1. active' = Those(active, Socket) /\ run' = Those(active, Kind) /\ active \in Seq(Task)
  BY ScanMoves DEF SchInv, SchTyped
<1>2. /\ {"poll"} \subseteq Kind /\ {"ind"} \subseteq Kind /\ Socket \cap Kind = {}
      /\ {"poll"} \cap Socket = {} /\ {"ind"} \cap Socket = {}
  BY SchAssumption DEF Kind
<1> QED
  BY ONLY <1>1, <1>2, ThoseCounts DEF PollsIn, IndsIn, SocketsIn

LEMMA WokenCounts ==
    ASSUME SchInv, Woken
    PROVE  /\ active \in Seq(Task)
           /\ PollsIn(active') = 0 /\ PollsIn(run') = PollsIn(active)
           /\ IndsIn(active') = 0 /\ IndsIn(run') = IndsIn(active)
           /\ SocketsIn(active') + SocketsIn(run') = SocketsIn(active)
<1>1. /\ active' = Those(active, Socket \ readable)
      /\ run' = Those(active, Kind \cup readable) /\ active \in Seq(Task)
      /\ readable \subseteq Socket
  BY WokenMoves DEF SchInv, SchTyped
<1>2. /\ {"poll"} \subseteq Kind \cup readable /\ {"ind"} \subseteq Kind \cup readable
      /\ {"poll"} \cap (Socket \ readable) = {} /\ {"ind"} \cap (Socket \ readable) = {}
  BY SchAssumption DEF Kind
<1>3. /\ PollsIn(active') = 0 /\ PollsIn(run') = PollsIn(active)
      /\ IndsIn(active') = 0 /\ IndsIn(run') = IndsIn(active)
  BY ONLY <1>1, <1>2, ThoseCounts DEF PollsIn, IndsIn
<1>4. /\ Socket \cap (Socket \ readable) = Socket \ readable
      /\ Socket \cap (Kind \cup readable) = readable
      /\ Socket = (Socket \ readable) \cup readable
      /\ (Socket \ readable) \cap readable = {}
      /\ (Socket \ readable) \cap Socket = Socket \ readable
      /\ (Kind \cup readable) \cap Socket = readable
  BY <1>1, SchAssumption DEF Kind
<1>5. SocketsIn(active') = Count(active, Socket \ readable)
  <2>1. Those(Those(active, Socket \ readable), Socket) = Those(active, Socket \ readable)
    BY ONLY <1>1, <1>4, ThoseOfThose
  <2> QED
    BY ONLY <1>1, <2>1 DEF SocketsIn, Count
<1>6. SocketsIn(run') = Count(active, readable)
  <2>1. Those(Those(active, Kind \cup readable), Socket) = Those(active, readable)
    BY ONLY <1>1, <1>4, ThoseOfThose
  <2> QED
    BY ONLY <1>1, <2>1 DEF SocketsIn, Count
<1>7. SocketsIn(active) = Count(active, Socket \ readable) + Count(active, readable)
  BY ONLY <1>1, <1>4, CountSplit DEF SocketsIn
<1> QED
  BY ONLY <1>1, <1>3, <1>5, <1>6, <1>7

\* SCH_block keeps the load.
LEMMA BlockLoads ==
    ASSUME SchInv, LoadInv, Scan \/ Sleep \/ Woken
    PROVE  LoadInv'
<1>1. CASE Scan
  <2>1. active \in Seq(Task) /\ run = <<>> /\ pc = "scan"
    BY <1>1, ScanMoves, ScanCounts DEF Scan
  <2>2. PICK pa, ia, sa \in Nat :
           pa = PollsIn(active) /\ ia = IndsIn(active) /\ sa = SocketsIn(active)
    BY <2>1, QueueCounts
  <2>3. /\ PollsIn(active') = 0 /\ PollsIn(run') = pa /\ IndsIn(active') = 0
        /\ IndsIn(run') = ia /\ SocketsIn(active') = sa /\ SocketsIn(run') = 0
    BY <1>1, <2>2, ScanCounts
  <2>4. pa <= PollBound /\ sa = NumSockets /\ ia <= RoundLoad
    BY <2>1, <2>2, EmptyCounts DEF LoadInv
  <2>5. Times(pa + 0) <= PollLoad /\ Times(pa) <= PollLoad /\ Times(pa) \in Nat
    <3>1. pa + 0 = pa /\ pa \in Nat /\ PollBound \in Nat /\ pa <= PollBound
      BY <2>4, LoadsNat
    <3>2. Times(pa) <= PollLoad /\ Times(pa) \in Nat
      BY ONLY <3>1, TimesMonotone, TimesIs DEF PollLoad
    <3> QED
      BY ONLY <3>1, <3>2
  <2>6. pc' = "run" \/ (pc' = "select" /\ run' = <<>>)
    BY <1>1, ScanMoves
  <2> QED
    BY <2>3, <2>4, <2>5, <2>6, LoadsNat DEF LoadInv
<1>2. CASE Sleep
  BY <1>2 DEF LoadInv, Sleep
<1>3. CASE Woken
  <2>1. active \in Seq(Task) /\ run = <<>> /\ pc \in {"select", "asleep"} /\ pc' = "run"
    BY <1>3, WokenMoves, WokenCounts DEF Woken
  <2>2. active' \in Seq(Task) /\ run' \in Seq(Task)
    BY <1>3, WokenMoves
  <2>3. PICK a, r : a = active' /\ r = run'
    OBVIOUS
  <2>4. PICK pa, sa, sx, sr \in Nat :
           /\ pa = PollsIn(active) /\ sa = SocketsIn(active)
           /\ sx = SocketsIn(a) /\ sr = SocketsIn(r)
    <3>1. PollsIn(active) \in Nat /\ SocketsIn(active) \in Nat
      BY <2>1, QueueCounts
    <3>2. SocketsIn(a) \in Nat /\ SocketsIn(r) \in Nat
      BY <2>2, <2>3, QueueCounts
    <3> QED
      BY <3>1, <3>2
  <2>5. /\ pa <= PollBound /\ sa = NumSockets /\ IndsIn(active) = 0
    BY <2>1, <2>4, EmptyCounts, LoadsNat DEF LoadInv
  <2>6. /\ PollsIn(active') = 0 /\ PollsIn(run') = pa /\ IndsIn(active') = 0
        /\ IndsIn(run') = 0 /\ SocketsIn(active') = sx /\ SocketsIn(run') = sr
        /\ sx + sr = sa
    BY <1>3, <2>3, <2>4, <2>5, WokenCounts
  <2>7. Times(pa + sr) <= RoundLoad /\ Times(pa + sr) \in Nat
    <3>1. pa + sr \in Nat /\ PollBound + NumSockets \in Nat /\ pa + sr <= PollBound + NumSockets
      BY <2>5, <2>6, LoadsNat
    <3> QED
      BY <3>1, TimesMonotone, TimesIs DEF RoundLoad
  <2> QED
    BY <2>1, <2>5, <2>6, <2>7, LoadsNat DEF LoadInv
<1> QED
  BY <1>1, <1>2, <1>3

\* The main loop finds an element for each task that a task submits.
LEMMA RunLoads ==
    ASSUME SchInv, LoadInv, PoolSuffices, RunOne \/ RunEnd
    PROVE  LoadInv'
<1>1. CASE RunOne
  <2>0. PICK task \in Task : \E tasks \in Submissions(task) : Ran(task, tasks)
    BY <1>1, RunOneMoves
  <2>1. PICK tasks \in Submissions(task) : Ran(task, tasks)
    BY <2>0
  <2>2. PICK rest : rest = run'
    OBVIOUS
  <2>3. /\ task = Head(run) /\ run # <<>> /\ rest = Tail(run) /\ rest \in Seq(Task)
        /\ tasks \in Seq(Task) /\ pc = "run"
    BY <1>1, <2>1, <2>2 DEF Ran, RunOne
  <2>4. /\ active \in Seq(Task) /\ run \in Seq(Task) /\ avail \in Nat
        /\ IndsIn(active) + IndsIn(run) <= RoundLoad + PollLoad
        /\ avail = MaxTasks - (PollsIn(active) + PollsIn(run) + NumSockets
                                 + IndsIn(active) + IndsIn(run))
    BY LoadBounded
  <2>5. PICK pa, ia, sa, pr, ir, sr \in Nat :
           /\ pa = PollsIn(active) /\ ia = IndsIn(active) /\ sa = SocketsIn(active)
           /\ pr = PollsIn(rest) /\ ir = IndsIn(rest) /\ sr = SocketsIn(rest)
    <3>1. PollsIn(active) \in Nat /\ IndsIn(active) \in Nat /\ SocketsIn(active) \in Nat
      BY <2>4, QueueCounts
    <3>2. PollsIn(rest) \in Nat /\ IndsIn(rest) \in Nat /\ SocketsIn(rest) \in Nat
      BY <2>3, QueueCounts
    <3> QED
      BY <3>1, <3>2
  <2>6. PICK p, i, s \in {0, 1} :
           /\ p = (IF task = "poll" THEN 1 ELSE 0) /\ i = (IF task = "ind" THEN 1 ELSE 0)
           /\ s = (IF task \in Socket THEN 1 ELSE 0)
    OBVIOUS
  <2>7. p + i + s = 1
    BY <2>6, SchAssumption DEF Task, Kind
  <2>8. PollsIn(run) = pr + p /\ IndsIn(run) = ir + i /\ SocketsIn(run) = sr + s
    <3>1. ASSUME NEW set
          PROVE  Count(run, set) = IF task \in set THEN Count(rest, set) + 1 ELSE Count(rest, set)
      BY <2>3, <2>4, ThoseFirst
    <3> QED
      BY <2>5, <2>6, <3>1 DEF PollsIn, IndsIn, SocketsIn
  <2>9. PICK k \in Nat : /\ k = IndsIn(tasks) /\ k <= Burst /\ (i = 1 => k = 0)
                         /\ PollsIn(tasks) = 0 /\ SocketsIn(tasks) = s /\ Len(tasks) = k + s
    <3>1. /\ PollsIn(tasks) = 0 /\ IndsIn(tasks) \in 0 .. Burst
          /\ (task = "ind" => IndsIn(tasks) = 0)
          /\ SocketsIn(tasks) = (IF task \in Socket THEN 1 ELSE 0)
          /\ Len(tasks) = IndsIn(tasks) + SocketsIn(tasks)
      BY SubmissionCounts
    <3> QED
      BY <2>6, <3>1, LoadsNat
  <2>10. /\ sa + (sr + s) = NumSockets /\ pa + (pr + p) <= PollBound
         /\ ir + i <= RoundLoad
         /\ ia + Times((pr + p) + (sr + s)) <= RoundLoad
         /\ sr + s > 0 => ir + i = 0
         /\ ir + i > 0 => ia + Times(pr + p) <= PollLoad
    BY <2>3, <2>5, <2>8 DEF LoadInv
  <2>11. /\ Times(pr + sr) \in Nat /\ Times(pr) \in Nat
         /\ p + s = 1 => Times((pr + p) + (sr + s)) = Times(pr + sr) + Burst
         /\ p + s = 0 => Times((pr + p) + (sr + s)) = Times(pr + sr)
         /\ p = 1 => Times(pr + p) = Times(pr) + Burst
         /\ p = 0 => Times(pr + p) = Times(pr)
    <3>1. /\ Times(pr + sr) \in Nat /\ Times((pr + sr) + 1) = Times(pr + sr) + Burst
          /\ Times(pr) \in Nat /\ Times(pr + 1) = Times(pr) + Burst
      BY TimesIs
    <3>2. /\ p + s = 1 => (pr + p) + (sr + s) = (pr + sr) + 1
          /\ p + s = 0 => (pr + p) + (sr + s) = pr + sr
          /\ p = 0 => pr + p = pr
      OBVIOUS
    <3> QED
      BY ONLY <3>1, <3>2
  <2>12. ia + k + Times(pr + sr) <= RoundLoad /\ (ir > 0 => ia + k + Times(pr) <= PollLoad)
    <3>0. PICK all, mine, was, own :
             /\ all = Times(pr + sr) /\ mine = Times(pr)
             /\ was = Times((pr + p) + (sr + s)) /\ own = Times(pr + p)
      OBVIOUS
    <3>n. /\ all \in Nat /\ mine \in Nat /\ Burst \in Nat /\ k <= Burst
          /\ ia + was <= RoundLoad /\ (ir + i > 0 => ia + own <= PollLoad)
          /\ RoundLoad \in Nat /\ PollLoad \in Nat
      BY <2>9, <2>10, <2>11, <3>0, LoadsNat
    <3>1. CASE i = 1
      <4>1. was = all /\ own = mine /\ k = 0
        BY <2>6, <2>7, <2>9, <2>11, <3>0, <3>1
      <4> QED
        BY <3>0, <3>n, <3>1, <4>1
    <3>2. CASE p = 1
      <4>1. was = all + Burst /\ own = mine + Burst /\ i = 0
        BY <2>6, <2>7, <2>11, <3>0, <3>2
      <4>2. ia + k + all <= RoundLoad /\ (ir > 0 => ia + k + mine <= PollLoad)
        BY <3>n, <4>1
      <4> QED
        BY ONLY <3>0, <4>2
    <3>3. CASE s = 1
      <4>1. was = all + Burst /\ ir = 0
        BY <2>6, <2>7, <2>10, <2>11, <3>0, <3>3
      <4>2. ia + k + all <= RoundLoad
        BY <3>n, <4>1
      <4> QED
        BY <3>0, <4>1, <4>2
    <3> QED
      BY <2>6, <2>7, <3>1, <3>2, <3>3
  <2>13. k + s <= avail
    <3>1. avail = MaxTasks - (pa + (pr + p) + NumSockets + ia + (ir + i))
      BY <2>4, <2>5, <2>8
    <3>2. MaxTasks > PollBound + NumSockets + RoundLoad + PollLoad
      BY DEF PoolSuffices
    <3>3. ia + k + ir + i <= RoundLoad + PollLoad
      <4>1. CASE ir > 0
        BY <2>6, <2>10, <2>11, <2>12, <4>1, LoadsNat
      <4>2. CASE ir = 0 /\ i = 1
        BY <2>4, <2>5, <2>8, <2>9, <4>2
      <4>3. CASE ir = 0 /\ i = 0
        BY <2>11, <2>12, <4>3, LoadsNat
      <4> QED
        BY <2>6, <4>1, <4>2, <4>3
    <3> QED
      BY <2>6, <2>10, <3>1, <3>2, <3>3, LoadsNat
  <2>14. active' = active \o tasks /\ pc' = "run"
    <3>1. ~ (Len(tasks) > avail)
      BY <2>4, <2>6, <2>9, <2>13
    <3> QED
      BY <2>1, <3>1 DEF Ran
  <2>15. /\ PollsIn(active') = pa /\ IndsIn(active') = ia + k /\ SocketsIn(active') = sa + s
    <3>1. active \in Seq(Task) /\ tasks \in Seq(Task)
      BY <2>3, <2>4
    <3>2. /\ PollsIn(active \o tasks) = PollsIn(active) + PollsIn(tasks)
          /\ IndsIn(active \o tasks) = IndsIn(active) + IndsIn(tasks)
          /\ SocketsIn(active \o tasks) = SocketsIn(active) + SocketsIn(tasks)
      BY ONLY <3>1, ConcatCounts
    <3>3. pa + 0 = pa
      OBVIOUS
    <3> QED
      BY ONLY <2>5, <2>9, <2>14, <3>2, <3>3
  <2>16. PollsIn(run') = pr /\ IndsIn(run') = ir /\ SocketsIn(run') = sr
    BY <2>2, <2>5
  <2>17. /\ (sa + s) + sr = NumSockets /\ pa + pr <= PollBound /\ ir <= RoundLoad
         /\ sr > 0 => ir = 0
    BY <2>6, <2>10, LoadsNat
  <2> QED
    BY ONLY <2>12, <2>14, <2>15, <2>16, <2>17 DEF LoadInv
<1>2. CASE RunEnd
  <2>1. /\ pc' = "scan" /\ run = <<>> /\ pc = "run" /\ run' = run /\ active' = active
    BY <1>2 DEF RunEnd
  <2>2. active \in Seq(Task) /\ IndsIn(active) \in Nat
    BY QueueCounts DEF SchInv, SchTyped
  <2>3. IndsIn(active) <= RoundLoad
    <3>1. IndsIn(active) + Times(0 + 0) <= RoundLoad
      BY <2>1, EmptyCounts DEF LoadInv
    <3>2. 0 + 0 = 0 /\ Times(0) = 0
      BY TimesIs
    <3>3. IndsIn(active) + Times(0) <= RoundLoad
      BY ONLY <3>1, <3>2
    <3> QED
      BY ONLY <2>2, <3>2, <3>3
  <2> QED
    BY <2>1, <2>3 DEF LoadInv
<1> QED
  BY <1>1, <1>2

\* A step keeps the load.
LEMMA LoadStepHolds ==
    ASSUME PoolSuffices, SchInv, LoadInv, [SchNext]_schVars
    PROVE  (SchInv /\ LoadInv)'
<1>1. SUFFICES LoadInv'
  BY SchStepHolds
<1>2. CASE MainStep
  BY <1>2, BlockLoads, RunLoads DEF MainStep
<1>3. CASE Signal
  BY <1>3, SignalLoads
<1>4. CASE \E s \in Socket : Arrive(s)
  BY <1>4 DEF Arrive, LoadInv
<1>5. CASE UNCHANGED schVars
  BY <1>5 DEF schVars, LoadInv
<1> QED
  BY <1>2, <1>3, <1>4, <1>5 DEF SchNext

\* With a pool of that size, SCH_submit never finds it empty, which would abort
\* the process, and no element gets lost (schsel.c, SCH_submit and SCH_run):
\* for any number of sockets, and at most MaxPolls clock periods that a round
\* takes and Burst tasks that a poll or a datagram submits.
THEOREM PoolNeverEmpty ==
    ASSUME PoolSuffices
    PROVE  SchSpec => []PoolConserved
<1>1. SchInit => SchInv /\ LoadInv
  BY SchInitHolds, LoadInitHolds
<1>2. SchInv /\ LoadInv /\ [SchNext]_schVars => (SchInv /\ LoadInv)'
  BY LoadStepHolds
<1>3. SchInv /\ LoadInv => PoolConserved
  BY DEF SchInv, Elements, LoadInv, PoolConserved
<1> QED
  BY <1>1, <1>2, <1>3, PTL DEF SchSpec

\* A round has no more tasks than its polls, its sockets and the indications
\* of the round before.
RoundLimit == PollBound + NumSockets + RoundLoad

RoundShort == pc = "run" => counter + Len(run) <= RoundLimit

LEMMA RoundInit == SchInit => RoundShort
BY DEF SchInit, RoundShort

LEMMA RoundSteps ==
    ASSUME SchInv, LoadInv, LoadInv', [SchNext]_schVars, RoundShort
    PROVE  RoundShort'
<1>0. SchInv' /\ SchTyped /\ Rounds /\ pc # "aborted" /\ pc' # "aborted"
  BY SchStepHolds DEF SchInv, LoadInv
<1>1. ASSUME pc # "run", pc' = "run" PROVE RoundShort'
  <2>1. counter' = counter /\ counter = 0
    BY <1>0, <1>1 DEF Rounds, SchNext, MainStep, Scan, Sleep, Woken, RunOne, RunEnd,
                      Signal, SubmitPoll, Arrive, schVars
  <2>2. PICK r : r = run'
    OBVIOUS
  <2>3. /\ Len(r) = PollsIn(r) + IndsIn(r) + SocketsIn(r) /\ Len(r) \in Nat
        /\ PollsIn(r) \in Nat /\ IndsIn(r) \in Nat /\ SocketsIn(r) \in Nat
    BY <1>0, <2>2, QueueCounts DEF SchInv, SchTyped
  <2>4. /\ PollsIn(active') \in Nat /\ SocketsIn(active') \in Nat
    BY <1>0, QueueCounts DEF SchInv, SchTyped
  <2>5. /\ SocketsIn(active') + SocketsIn(r) = NumSockets
        /\ PollsIn(active') + PollsIn(r) <= PollBound /\ IndsIn(r) <= RoundLoad
    BY <1>1, <2>2 DEF LoadInv
  <2>6. Len(r) <= RoundLimit
    BY <2>3, <2>4, <2>5, LoadsNat DEF RoundLimit
  <2> QED
    BY <2>1, <2>2, <2>3, <2>6, LoadsNat DEF RoundShort
<1>2. ASSUME pc = "run", pc' = "run" PROVE RoundShort'
  <2>1. CASE RunOne
    <3>1. /\ counter' = counter + 1 /\ run' \in Seq(Task) /\ Len(run) = Len(run') + 1
      BY <1>0, <2>1, RunOneMoves DEF Ran
    <3>2. counter \in Nat /\ Len(run') \in Nat
      BY <1>0, <3>1 DEF SchTyped
    <3> QED
      BY <1>2, <3>1, <3>2 DEF RoundShort
  <2>2. CASE UNCHANGED <<run, counter>>
    BY <1>2, <2>2 DEF RoundShort
  <2> QED
    BY <1>2, <2>1, <2>2 DEF SchNext, MainStep, Scan, Sleep, Woken, RunEnd,
                            Signal, SubmitPoll, Arrive, schVars
<1>3. CASE pc' # "run"
  BY <1>3 DEF RoundShort
<1> QED
  BY <1>1, <1>2, <1>3

\* The same for a pool that has more elements than the sanity limit (on UNIX
\* MAX_SCH_TASKS is 500 and the limit 200): what matters is how many tasks one
\* round of SCH_run can have.
THEOREM RoundsShort ==
    ASSUME PoolSuffices, RoundLimit <= Sanity + 1
    PROVE  SchSpec => []RoundComplete
<1>1. SchInit => SchInv /\ LoadInv /\ RoundShort
  BY SchInitHolds, LoadInitHolds, RoundInit
<1>2. SchInv /\ LoadInv /\ RoundShort /\ [SchNext]_schVars
        => (SchInv /\ LoadInv /\ RoundShort)'
  <2>1. SchInv /\ LoadInv /\ [SchNext]_schVars => (SchInv /\ LoadInv)'
    BY LoadStepHolds
  <2> QED
    BY <2>1, RoundSteps
<1>3. SchInv /\ RoundShort => RoundComplete
  <2>1. SUFFICES ASSUME SchInv, RoundShort, pc = "run", run # <<>>
                 PROVE  counter <= Sanity
    BY DEF RoundComplete
  <2>2. run \in Seq(Task) /\ counter \in Nat /\ counter + Len(run) <= RoundLimit
    BY <2>1 DEF SchInv, SchTyped, RoundShort
  <2>3. Len(run) \in Nat /\ Len(run) # 0
    BY <2>1, <2>2
  <2>4. RoundLimit \in Nat
    BY LoadsNat DEF RoundLimit
  <2> QED
    BY <2>2, <2>3, <2>4, SchAssumption
<1> QED
  BY <1>1, <1>2, <1>3, PTL DEF SchSpec

-----------------------------------------------------------------------------
(* The two queues are one queue of tasks.                                  *)

Waiting == Internal(run \o active)

\* A queue with others behind it.
LEMMA BehindIs ==
    ASSUME NEW rest \in Seq(Kind), NEW more \in Seq(Kind), NEW all, all = rest \o more
    PROVE  /\ all \in Seq(Kind) /\ Len(all) >= Len(rest)
           /\ SubSeq(all, 1, Len(rest)) = rest
           /\ \A i \in Len(rest) + 1 .. Len(all) : all[i] \in Kind
<1>1. /\ all \in Seq(Kind) /\ Len(all) = Len(rest) + Len(more)
      /\ Len(rest) \in Nat /\ Len(more) \in Nat
      /\ \A i \in 1 .. Len(rest) : all[i] = rest[i]
  OBVIOUS
<1>2. SubSeq(all, 1, Len(rest)) = rest
  <2>1. /\ Len(SubSeq(all, 1, Len(rest))) = Len(rest)
        /\ SubSeq(all, 1, Len(rest)) \in Seq(Kind)
        /\ \A i \in 1 .. Len(rest) : SubSeq(all, 1, Len(rest))[i] = all[i]
    BY ONLY <1>1
  <2> QED
    BY ONLY <1>1, <2>1, rest \in Seq(Kind)
<1>3. \A i \in Len(rest) + 1 .. Len(all) : all[i] \in Kind
  BY ONLY <1>1
<1> QED
  BY ONLY <1>1, <1>2, <1>3

\* The internal tasks of two queues in a row.
LEMMA InternalOf ==
    ASSUME NEW front \in Seq(Task), NEW back \in Seq(Task)
    PROVE  /\ Internal(front \o back) = Internal(front) \o Internal(back)
           /\ Internal(front) \in Seq(Kind) /\ Internal(back) \in Seq(Kind)
           /\ Internal(front \o back) \in Seq(Kind)
<1>1. Those(front, Kind) \in Seq(Task \cap Kind) /\ Those(back, Kind) \in Seq(Task \cap Kind)
  BY ThoseSeq
<1>2. Task \cap Kind = Kind
  BY DEF Task
<1>3. Those(front, Kind) \in Seq(Kind) /\ Those(back, Kind) \in Seq(Kind)
  BY ONLY <1>1, <1>2
<1>4. Those(front \o back, Kind) = Those(front, Kind) \o Those(back, Kind)
  BY ThoseConcat
<1>5. Those(front, Kind) \o Those(back, Kind) \in Seq(Kind)
  BY ONLY <1>3
<1> QED
  BY ONLY <1>3, <1>4, <1>5 DEF Internal

LEMMA WaitingIs ==
    ASSUME SchTyped
    PROVE  /\ Waiting = Internal(run) \o Internal(active) /\ Waiting \in Seq(Kind)
           /\ Internal(run) \in Seq(Kind) /\ Internal(active) \in Seq(Kind)
<1>1. run \in Seq(Task) /\ active \in Seq(Task)
  BY DEF SchTyped
<1> QED
  BY ONLY <1>1, InternalOf DEF Waiting

LEMMA WaitingNext ==
    ASSUME SchTyped'
    PROVE  Waiting' = Internal(run') \o Internal(active')
<1>1. PICK r \in Seq(Task), a \in Seq(Task) : r = run' /\ a = active'
  BY DEF SchTyped
<1>2. Internal(r \o a) = Internal(r) \o Internal(a)
  BY InternalOf
<1> QED
  BY ONLY <1>1, <1>2 DEF Waiting

\* SCH_block moves the internal tasks and keeps their order.
LEMMA BlockWaits ==
    ASSUME SchInv, Scan \/ Woken
    PROVE  Waiting' = Waiting /\ doing' = doing
<1>1. SchTyped /\ SchTyped'
  BY BlockHolds DEF SchInv
<1>2. PICK set, rest : /\ active' = Those(active, rest) /\ run' = Those(active, set)
                       /\ run = <<>> /\ set \cap Kind = Kind /\ rest \cap Kind = {}
  <2>1. CASE Scan
    BY <2>1, ScanMoves, SchAssumption DEF Kind
  <2>2. CASE Woken
    <3>1. (Kind \cup readable) \cap Kind = Kind /\ (Socket \ readable) \cap Kind = {}
      BY SchAssumption DEF Kind
    <3> QED
      BY <2>2, <3>1, WokenMoves
  <2> QED
    BY <2>1, <2>2
<1>3. active \in Seq(Task)
  BY <1>1 DEF SchTyped
<1>4. Internal(run') = Internal(active)
  <2>1. Those(Those(active, set), Kind) = Those(active, set \cap Kind)
    BY ONLY <1>3, ThoseOfThose
  <2> QED
    BY ONLY <1>2, <2>1 DEF Internal
<1>5. Internal(active') = <<>>
  <2>1. Those(active, rest) \in Seq(Task \cap rest) /\ (Task \cap rest) \cap Kind = {}
    BY <1>2, <1>3, ThoseSeq
  <2>2. Those(Those(active, rest), Kind) = <<>>
    BY ONLY <2>1, ThoseNone
  <2> QED
    BY ONLY <1>2, <2>2 DEF Internal
<1>6. Internal(run) = <<>>
  BY <1>2, ThoseEmpty DEF Internal
<1>7. Waiting' = Internal(run') \o Internal(active')
  BY <1>1, WaitingNext
<1>8. Waiting = <<>> \o Internal(active) /\ Internal(active) \in Seq(Kind)
  BY <1>1, <1>6, WaitingIs
<1>9. Waiting' = Internal(active) \o <<>>
  BY ONLY <1>4, <1>5, <1>7
<1>10. Waiting' = Waiting
  BY <1>8, <1>9
<1> QED
  BY <1>10 DEF Scan, Woken

\* The alarm signal submits TMR_poll behind the others.
LEMMA SignalWaits ==
    ASSUME SchInv, Signal
    PROVE  /\ doing' = doing
           /\ \E more \in Seq(Kind) : Waiting' = Waiting \o more
<1>1. SchTyped /\ SchTyped'
  BY SignalHolds DEF SchInv
<1>2. /\ doing' = doing /\ run' = run
      /\ active' = Append(active, "poll") \/ active' = active
  BY DEF Signal, SubmitPoll
<1>3. Waiting \in Seq(Kind) /\ Waiting = Internal(run) \o Internal(active)
      /\ Internal(run) \in Seq(Kind) /\ Internal(active) \in Seq(Kind)
      /\ Waiting' = Internal(run') \o Internal(active')
  BY <1>1, WaitingIs, WaitingNext
<1>4. CASE active' = active
  <2>1. Waiting' = Waiting
    BY <1>2, <1>3, <1>4
  <2>2. Waiting = Waiting \o <<>> /\ <<>> \in Seq(Kind)
    BY <1>3
  <2> QED
    BY ONLY <1>2, <2>1, <2>2
<1>5. CASE active' = Append(active, "poll")
  <2>1. "poll" \in Task /\ "poll" \in Kind /\ active \in Seq(Task)
    BY <1>1 DEF Task, Kind, SchTyped
  <2>2. active' = Then(active, "poll")
    BY <1>5 DEF Then
  <2>3. Internal(active') = Then(Internal(active), "poll")
    BY ONLY <2>1, <2>2, ThoseThen DEF Internal
  <2>4. PICK r, a, one : r = Internal(run) /\ a = Internal(active) /\ one = <<"poll">>
    OBVIOUS
  <2>5. r \in Seq(Kind) /\ a \in Seq(Kind) /\ one \in Seq(Kind)
    BY <1>3, <2>1, <2>4
  <2>6. r \o Append(a, "poll") = (r \o a) \o one
    <3>1. Both(r, Then(a, "poll")) = Then(Both(r, a), "poll")
      BY ONLY <2>1, <2>5, BothThen
    <3>2. PICK q : q = r \o a
      OBVIOUS
    <3>3. q \in Seq(Kind)
      BY ONLY <2>5, <3>2
    <3>4. Append(q, "poll") = q \o one
      BY ONLY <2>1, <2>4, <3>3
    <3> QED
      BY ONLY <3>1, <3>2, <3>4 DEF Both, Then
  <2>7. Waiting' = Waiting \o one
    BY ONLY <1>2, <1>3, <2>3, <2>4, <2>6 DEF Then
  <2> QED
    BY ONLY <1>2, <2>5, <2>7
<1> QED
  BY <1>2, <1>4, <1>5

\* SCH_run runs the oldest internal task, or a socket's; what it submits goes
\* behind the others.
LEMMA RunWaits ==
    ASSUME SchInv, RunOne
    PROVE  \E rest \in Seq(Kind), more \in Seq(Kind) :
              /\ Waiting' = rest \o more
              /\ \/ rest = Waiting /\ doing' = doing
                 \/ Waiting # <<>> /\ doing' = Head(Waiting) /\ rest = Tail(Waiting)
<1>1. SchTyped /\ SchTyped'
  BY RunHolds DEF SchInv
<1>2. PICK task \in Task : \E tasks \in Submissions(task) : Ran(task, tasks)
  BY RunOneMoves
<1>3. PICK tasks \in Submissions(task) : Ran(task, tasks)
  BY <1>2
<1>4. run \in Seq(Task) /\ active \in Seq(Task) /\ tasks \in Seq(Task)
  BY <1>1, <1>3 DEF SchTyped, Ran
<1>5. PICK r \in Seq(Task) : r = run' /\ r = Tail(run) /\ run # <<>> /\ task = Head(run)
  BY <1>3 DEF Ran
<1>6. PICK ir, ia \in Seq(Kind) :
         /\ ir = Internal(r) /\ ia = Internal(active)
         /\ Internal(r \o active) = ir \o ia
  <2>1. /\ Internal(r \o active) = Internal(r) \o Internal(active)
        /\ Internal(r) \in Seq(Kind) /\ Internal(active) \in Seq(Kind)
    BY ONLY <1>4, r \in Seq(Task), InternalOf
  <2> QED
    BY ONLY <2>1
<1>7. PICK more \in Seq(Kind) : Internal(active') = ia \o more
  <2>1. CASE active' = active
    <3>1. <<>> \in Seq(Kind) /\ ia \o <<>> = ia
      OBVIOUS
    <3> QED
      BY ONLY <1>6, <2>1, <3>1
  <2>2. CASE active' = active \o tasks
    <3>1. /\ Internal(active \o tasks) = Internal(active) \o Internal(tasks)
          /\ Internal(tasks) \in Seq(Kind)
      BY ONLY <1>4, InternalOf
    <3> QED
      BY ONLY <1>6, <2>2, <3>1
  <2> QED
    BY <1>3, <2>1, <2>2 DEF Ran
<1>8. PICK rest \in Seq(Kind) : rest = ir \o ia
  <2>1. ir \o ia \in Seq(Kind)
    BY ONLY ir \in Seq(Kind), ia \in Seq(Kind)
  <2> QED
    BY ONLY <2>1
<1>9. Waiting' = rest \o more
  <2>1. Waiting' = Internal(run') \o Internal(active')
    BY <1>1, WaitingNext
  <2>2. (ir \o ia) \o more = ir \o (ia \o more)
    OBVIOUS
  <2> QED
    BY ONLY <1>5, <1>6, <1>7, <1>8, <2>1, <2>2
<1>10. Waiting = Internal(run) \o ia
  BY ONLY <1>1, <1>6, WaitingIs
<1>11. CASE task \in Kind
  <2>1. /\ Internal(run) # <<>> /\ Head(Internal(run)) = task /\ Tail(Internal(run)) = ir
    <3>1. Head(run) = task /\ ir = Those(Tail(run), Kind)
      BY ONLY <1>5, <1>6 DEF Internal
    <3>2. Head(run) \in Kind =>
            /\ Those(run, Kind) # <<>> /\ Head(Those(run, Kind)) = Head(run)
            /\ Tail(Those(run, Kind)) = Those(Tail(run), Kind)
      BY ONLY <1>4, <1>5, ThoseFirst
    <3> QED
      BY ONLY <1>11, <3>1, <3>2, Zenon DEF Internal
  <2>2. PICK q \in Seq(Kind) : q = Internal(run)
    BY <1>1, WaitingIs
  <2>3. q \o ia # <<>> /\ Head(q \o ia) = Head(q) /\ Tail(q \o ia) = Tail(q) \o ia
    BY ONLY <2>1, <2>2, q \in Seq(Kind), ia \in Seq(Kind)
  <2>4. doing' = task
    BY <1>3, <1>11 DEF Ran
  <2> QED
    BY ONLY <1>8, <1>9, <1>10, <2>1, <2>2, <2>3, <2>4, more \in Seq(Kind), rest \in Seq(Kind)
<1>12. CASE task \notin Kind
  <2>1. Internal(run) = ir
    BY ONLY <1>4, <1>5, <1>6, <1>12, ThoseFirst DEF Internal
  <2>2. doing' = doing
    BY <1>3, <1>12 DEF Ran
  <2> QED
    BY ONLY <1>8, <1>9, <1>10, <2>1, <2>2, more \in Seq(Kind), rest \in Seq(Kind)
<1> QED
  BY <1>11, <1>12

\* The scheduler implements a queue: whichever of its two queues a task waits
\* in and whenever the signal interrupts the loop, each internal task runs
\* once, in the order of submission (SCH_submit, SCH_block, SCH_run), for any
\* pool and any load.
THEOREM SchedulerIsFifo == SchSpec => ImplementsFifo
<1>1. SchInit => Fifo!AbsInit
  <2>1. SUFFICES ASSUME SchInit PROVE Fifo!AbsInit
    OBVIOUS
  <2>2. active \in Seq(Socket) /\ run = <<>> /\ doing = "none" /\ SchTyped
    <3>1. SchInv /\ active \in Seq(Socket)
      BY <2>1, SchInitHolds
    <3> QED
      BY <2>1, <3>1 DEF SchInit, SchInv
  <2>3. Socket \cap Kind = {}
    BY SchAssumption DEF Kind
  <2>4. Internal(active) = <<>> /\ Internal(run) = <<>>
    BY <2>2, <2>3, ThoseNone, ThoseEmpty DEF Internal
  <2>5. Waiting = <<>>
    BY <2>2, <2>4, WaitingIs
  <2> QED
    BY <2>2, <2>5 DEF Fifo!AbsInit, Waiting
<1>2. SchInv /\ [SchNext]_schVars => [Fifo!Submit \/ Fifo!RunOldest]_<<Waiting, doing>>
  <2>1. SUFFICES ASSUME SchInv, [SchNext]_schVars
                 PROVE  [Fifo!Submit \/ Fifo!RunOldest]_<<Waiting, doing>>
    OBVIOUS
  <2>2. Waiting \in Seq(Kind)
    <3>1. SchTyped
      BY <2>1 DEF SchInv
    <3> QED
      BY ONLY <3>1, WaitingIs
  <2>3. ASSUME NEW rest \in Seq(Kind), NEW more \in Seq(Kind), Waiting' = rest \o more
        PROVE  Fifo!Grown(rest)
    <3>1. PICK all : all = Waiting'
      OBVIOUS
    <3>2. /\ Len(all) >= Len(rest) /\ SubSeq(all, 1, Len(rest)) = rest
          /\ \A i \in Len(rest) + 1 .. Len(all) : all[i] \in Kind
      BY ONLY <2>3, <3>1, BehindIs, rest \in Seq(Kind), more \in Seq(Kind)
    <3> QED
      BY <3>1, <3>2 DEF Fifo!Grown, Waiting
  <2>4. CASE Scan \/ Woken
    BY <2>1, <2>4, BlockWaits
  <2>5. CASE Sleep \/ RunEnd \/ UNCHANGED schVars \/ \E s \in Socket : Arrive(s)
    <3>1. UNCHANGED <<run, active, doing>>
      BY <2>5 DEF Sleep, RunEnd, schVars, Arrive
    <3> QED
      BY <3>1 DEF Waiting
  <2>6. CASE Signal
    <3>1. PICK more \in Seq(Kind) : Waiting' = Waiting \o more
      BY <2>1, <2>6, SignalWaits
    <3>2. doing' = doing
      BY <2>1, <2>6, SignalWaits
    <3>3. Fifo!Grown(Waiting)
      BY <2>2, <2>3, <3>1
    <3> QED
      BY <3>2, <3>3 DEF Fifo!Submit, Waiting
  <2>7. CASE RunOne
    <3>1. PICK rest \in Seq(Kind), more \in Seq(Kind) :
             /\ Waiting' = rest \o more
             /\ \/ rest = Waiting /\ doing' = doing
                \/ Waiting # <<>> /\ doing' = Head(Waiting) /\ rest = Tail(Waiting)
      BY <2>1, <2>7, RunWaits
    <3>2. Fifo!Grown(rest)
      BY <2>3, <3>1
    <3> QED
      BY <3>1, <3>2 DEF Fifo!Submit, Fifo!RunOldest, Waiting
  <2> QED
    BY <2>1, <2>4, <2>5, <2>6, <2>7 DEF SchNext, MainStep
<1>3. Waiting = Internal(run \o active)
  BY DEF Waiting
<1> QED
  BY <1>1, <1>2, <1>3, SchInvariant, PTL DEF SchSpec, ImplementsFifo, Fifo!AbsSpec, Waiting

=============================================================================
