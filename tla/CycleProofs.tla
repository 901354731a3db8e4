----------------------------- MODULE CycleProofs -----------------------------
(***************************************************************************)
(* Facts about one dispatch cycle of Scheduling, for every queue, running  *)
(* set and capacity: what a plan contains, without the types of Planner.   *)
(***************************************************************************)
EXTENDS Scheduling, FiniteSetsExt, FiniteSetTheorems, SequenceTheorems, WellFoundedInduction, TLAPS

-----------------------------------------------------------------------------
(* Naturals.                                                                *)

(* A nonempty set of naturals has the element First names.                  *)
LEMMA FirstIsLeast ==
  ASSUME NEW S \in SUBSET Nat, S # {}
  PROVE  First(S) \in S /\ \A y \in S : First(S) <= y
<1>1. PICK x \in S : \A y \in S : ~ (<<y, x>> \in OpToRel(<, Nat))
  BY NatLessThanWellFounded, WFMin
<1>2. ASSUME NEW y \in S, y < x PROVE FALSE
  <2>1. <<y, x>> \in OpToRel(<, Nat)
    BY <1>2 DEF OpToRel
  <2> QED
    BY <1>1, <2>1
<1>3. \A y \in S : x <= y
  BY <1>2
<1> QED
  BY <1>3 DEF First

(* Induction: a set that holds 0 and with each number the next holds all.   *)
LEMMA EveryNumberIsReached ==
  ASSUME NEW S, 0 \in S, \A n \in Nat : n \in S => n + 1 \in S
  PROVE  \A n \in Nat : n \in S
<1> DEFINE Out == Nat \ S
<1>1. SUFFICES ASSUME Out # {} PROVE FALSE
  OBVIOUS
<1>2. First(Out) \in Out /\ \A y \in Out : First(Out) <= y
  BY <1>1, FirstIsLeast
<1> DEFINE m == First(Out) - 1
<1>3. m \in Nat /\ First(Out) = m + 1 /\ m \notin Out
  BY <1>2
<1> QED
  BY <1>2, <1>3

-----------------------------------------------------------------------------
(* Queues.                                                                  *)

Queue(q) == q \in Seq(Range(q))

(* The empty queue.                                                       *)
LEMMA EmptyQueue == Queue(<<>>) /\ Range(<<>>) = {}
BY DEF Queue, Range

(* What Append adds to a queue.                                           *)
LEMMA AppendQueue ==
  ASSUME NEW q, Queue(q), NEW x
  PROVE  Queue(Append(q, x)) /\ Range(Append(q, x)) = Range(q) \cup {x}
<1> DEFINE S == Range(q) \cup {x}
<1>1. q \in Seq(S)
  BY SeqMonotonic DEF Queue
<1>2. /\ Append(q, x) \in Seq(S) /\ Len(Append(q, x)) = Len(q) + 1
      /\ \A i \in 1 .. Len(q) : Append(q, x)[i] = q[i]
      /\ Append(q, x)[Len(q) + 1] = x
  BY <1>1, AppendProperties
<1>3. DOMAIN q = 1 .. Len(q) /\ Len(q) \in Nat /\ DOMAIN Append(q, x) = 1 .. Len(q) + 1
  BY <1>1, <1>2
<1>4. Range(Append(q, x)) = S
  BY <1>2, <1>3 DEF Range
<1> QED
  BY <1>2, <1>4 DEF Queue

(* What Tail leaves of a queue.                                           *)
LEMMA TailQueue ==
  ASSUME NEW q, Queue(q), q # <<>>
  PROVE  Queue(Tail(q)) /\ Range(Tail(q)) \subseteq Range(q) /\ Head(q) \in Range(q)
<1>1. q \in Seq(Range(q))
  BY DEF Queue
<1>2. /\ Len(q) \in Nat \ {0} /\ DOMAIN q = 1 .. Len(q) /\ Head(q) = q[1]
      /\ Len(Tail(q)) = Len(q) - 1 /\ DOMAIN Tail(q) = 1 .. Len(q) - 1
      /\ \A i \in 1 .. Len(q) - 1 : Tail(q)[i] = q[i + 1]
  BY <1>1
<1>3. Range(Tail(q)) \subseteq Range(q) /\ Head(q) \in Range(q)
  BY <1>2 DEF Range
<1>4. Tail(q) \in Seq(Range(Tail(q)))
  BY <1>1, HeadTailProperties, SeqOfRange
<1> QED
  BY <1>3, <1>4 DEF Queue

NoDup(q) == \A i, j \in 1 .. Len(q) : q[i] = q[j] => i = j

(* A new task at the end makes no duplicate.                              *)
LEMMA AppendNoDup ==
  ASSUME NEW q, Queue(q), NoDup(q), NEW x, x \notin Range(q)
  PROVE  NoDup(Append(q, x))
<1> DEFINE S == Range(q) \cup {x}
<1>1. q \in Seq(S)
  BY SeqMonotonic DEF Queue
<1>2. /\ Len(Append(q, x)) = Len(q) + 1 /\ Len(q) \in Nat /\ DOMAIN q = 1 .. Len(q)
      /\ \A i \in 1 .. Len(q) : Append(q, x)[i] = q[i]
      /\ Append(q, x)[Len(q) + 1] = x
  BY <1>1, AppendProperties
<1>3. \A i \in 1 .. Len(q) : q[i] # x
  BY <1>2 DEF Range
<1>4. \A i \in 1 .. Len(Append(q, x)) : i \in 1 .. Len(q) \/ i = Len(q) + 1
  BY <1>2
<1> QED
  BY <1>2, <1>3, <1>4 DEF NoDup

(* What a task in front adds to a queue.                                  *)
LEMMA PushQueue ==
  ASSUME NEW q, Queue(q), NEW x
  PROVE  /\ Queue(<<x>> \o q) /\ Range(<<x>> \o q) = Range(q) \cup {x}
         /\ NoDup(q) /\ x \notin Range(q) => NoDup(<<x>> \o q)
<1> DEFINE S == Range(q) \cup {x}
           r == <<x>> \o q
<1>1. q \in Seq(S) /\ <<x>> \in Seq(S)
  BY SeqMonotonic DEF Queue
<1>2. /\ r \in Seq(S) /\ Len(r) = Len(q) + 1 /\ Len(q) \in Nat
      /\ r[1] = x /\ \A i \in 2 .. Len(r) : r[i] = q[i - 1]
  BY <1>1
<1>3. DOMAIN q = 1 .. Len(q) /\ DOMAIN r = 1 .. Len(q) + 1
  BY <1>1, <1>2
<1> HIDE DEF r
<1>4. \A i \in 1 .. Len(q) : r[i + 1] = q[i] /\ i + 1 \in 1 .. Len(r)
  BY <1>2
<1>5. Range(r) = S
  <2>1. \A i \in 1 .. Len(r) : r[i] \in S
    BY <1>2
  <2>2. x \in Range(r)
    BY <1>2, <1>3 DEF Range
  <2>3. \A y \in Range(q) : y \in Range(r)
    BY <1>2, <1>3, <1>4 DEF Range
  <2> QED
    BY <1>2, <1>3, <2>1, <2>2, <2>3 DEF Range
<1>6. ASSUME NoDup(q), x \notin Range(q) PROVE NoDup(r)
  <2>1. \A i \in 1 .. Len(q) : q[i] # x
    BY <1>3, <1>6 DEF Range
  <2>2. \A i \in 1 .. Len(r) : i = 1 \/ (i \in 2 .. Len(r) /\ i - 1 \in 1 .. Len(q))
    BY <1>2
  <2>3. \A i \in 1 .. Len(q), j \in 1 .. Len(q) : q[i] = q[j] => i = j
    BY <1>6 DEF NoDup
  <2>4. ASSUME NEW i \in 1 .. Len(r), NEW j \in 1 .. Len(r), r[i] = r[j] PROVE i = j
    <3>1. CASE i = 1 \/ j = 1
      BY <1>2, <2>1, <2>2, <2>4, <3>1
    <3>2. CASE i - 1 \in 1 .. Len(q) /\ j - 1 \in 1 .. Len(q) /\ i # 1 /\ j # 1
      <4>1. q[i - 1] = q[j - 1]
        BY <1>2, <2>2, <2>4, <3>2
      <4>2. i - 1 = j - 1
        BY <2>3, <3>2, <4>1
      <4> QED
        BY <4>2
    <3> QED
      BY <2>2, <3>1, <3>2
  <2> QED
    BY <2>4 DEF NoDup
<1>7. Queue(r)
  BY <1>2, <1>5 DEF Queue
<1> QED
  BY <1>5, <1>6, <1>7 DEF r

\* The recursive function of Without.
Filter(s, x, S) == IF x \in S THEN s ELSE Append(s, x)
Filtered(f, q, S, n) == f = [i \in 0 .. n |-> IF i = 0 THEN <<>> ELSE Filter(f[i - 1], q[i], S)]

(* The recursion of Without defines a function.                           *)
LEMMA FilterExists ==
  ASSUME NEW q, NEW S, NEW m \in Nat
  PROVE  \E f : Filtered(f, q, S, m)
<1> DEFINE N == {n \in Nat : \E f : Filtered(f, q, S, n)}
<1>1. 0 \in N
  <2>1. Filtered([i \in 0 .. 0 |-> <<>>], q, S, 0)
    BY DEF Filtered
  <2> QED
    BY <2>1
<1>2. ASSUME NEW n \in Nat, n \in N PROVE n + 1 \in N
  <2>1. PICK f : Filtered(f, q, S, n)
    BY <1>2
  <2> DEFINE g == [i \in 0 .. n + 1 |-> IF i = n + 1 THEN Filter(f[n], q[n + 1], S) ELSE f[i]]
  <2>2. ASSUME NEW i \in 0 .. n + 1
        PROVE  g[i] = IF i = 0 THEN <<>> ELSE Filter(g[i - 1], q[i], S)
    <3>1. CASE i = n + 1
      BY <3>1
    <3>2. CASE i \in 0 .. n
      BY <2>1, <3>2 DEF Filtered
    <3> QED
      BY <3>1, <3>2
  <2>3. Filtered(g, q, S, n + 1)
    BY <2>2 DEF Filtered
  <2> HIDE DEF g
  <2> QED
    BY <2>3
<1> HIDE DEF N
<1>3. m \in N
  BY <1>1, <1>2, EveryNumberIsReached
<1> QED
  BY <1>3 DEF N

(* What Without leaves: the other entries, each as often as before.         *)
LEMMA WithoutLeaves ==
  ASSUME NEW q, Queue(q), NEW S
  PROVE  /\ Queue(Without(q, S)) /\ Range(Without(q, S)) = Range(q) \ S
         /\ NoDup(q) => NoDup(Without(q, S))
<1> DEFINE f == CHOOSE g : Filtered(g, q, S, Len(q))
           First1(n) == {q[i] : i \in 1 .. n}
           Good(n) == /\ Queue(f[n]) /\ Range(f[n]) = First1(n) \ S
                      /\ NoDup(q) => NoDup(f[n])
           N == {n \in Nat : n <= Len(q) => Good(n)}
<1>1. Len(q) \in Nat /\ DOMAIN q = 1 .. Len(q)
  BY DEF Queue
<1>2. Filtered(f, q, S, Len(q))
  <2>1. \E g : Filtered(g, q, S, Len(q))
    BY <1>1, FilterExists
  <2> QED
    BY <2>1
<1>3. Without(q, S) = f[Len(q)]
  BY DEF Without, Filtered, Filter
<1> HIDE DEF f
<1>4. f[0] = <<>> /\ \A i \in 1 .. Len(q) : f[i] = Filter(f[i - 1], q[i], S)
  <2>1. f = [i \in 0 .. Len(q) |-> IF i = 0 THEN <<>> ELSE Filter(f[i - 1], q[i], S)]
    BY <1>2 DEF Filtered
  <2>2. \A i \in 1 .. Len(q) : i \in 0 .. Len(q) /\ i # 0
    OBVIOUS
  <2> QED
    BY <1>1, <2>1, <2>2
<1>5. 0 \in N
  <2>1. First1(0) = {} /\ NoDup(<<>>)
    BY DEF NoDup
  <2> QED
    BY <1>4, <2>1, EmptyQueue
<1>6. ASSUME NEW n \in Nat, n \in N PROVE n + 1 \in N
  <2>1. SUFFICES ASSUME n + 1 <= Len(q) PROVE Good(n + 1)
    OBVIOUS
  <2> DEFINE x == q[n + 1]
  <2>2. Good(n) /\ n + 1 \in 1 .. Len(q)
    BY <1>1, <1>6, <2>1
  <2>3. f[n + 1] = IF x \in S THEN f[n] ELSE Append(f[n], x)
    BY <1>4, <2>2 DEF Filter
  <2>4. First1(n + 1) = First1(n) \cup {x}
    OBVIOUS
  <2>5. NoDup(q) => x \notin First1(n)
    BY <2>2 DEF NoDup
  <2> HIDE DEF x, First1
  <2>6. CASE x \in S
    BY <2>2, <2>3, <2>4, <2>6
  <2>7. CASE x \notin S
    <3>1. Queue(f[n + 1]) /\ Range(f[n + 1]) = Range(f[n]) \cup {x}
      BY <2>2, <2>3, <2>7, AppendQueue
    <3>2. Range(f[n + 1]) = First1(n + 1) \ S
      BY <2>2, <2>4, <2>7, <3>1
    <3>3. ASSUME NoDup(q) PROVE NoDup(f[n + 1])
      BY <2>2, <2>3, <2>5, <2>7, <3>3, AppendNoDup
    <3> QED
      BY <3>1, <3>2, <3>3
  <2> QED
    BY <2>6, <2>7
<1> HIDE DEF N
<1>7. Len(q) \in N
  BY <1>1, <1>5, <1>6, EveryNumberIsReached
<1>8. Good(Len(q))
  BY <1>1, <1>7 DEF N
<1>9. First1(Len(q)) = Range(q)
  BY <1>1 DEF Range
<1> QED
  BY <1>3, <1>8, <1>9

\* f holds what is kept of the first entries of q.
Keeping(f, q, n, S) ==
  f[0] = <<>> /\ \A i \in 1 .. n : f[i] = Filter(f[i - 1], q[i], S)

(* Without drops or keeps one entry after the other.                      *)
LEMMA WithoutIsAChain ==
  ASSUME NEW q, Queue(q), NEW S
  PROVE  \E f : Keeping(f, q, Len(q), S) /\ f[Len(q)] = Without(q, S)
<1> DEFINE f == CHOOSE g : Filtered(g, q, S, Len(q))
<1>1. Len(q) \in Nat
  BY DEF Queue
<1>2. Filtered(f, q, S, Len(q))
  <2>1. \E g : Filtered(g, q, S, Len(q))
    BY <1>1, FilterExists
  <2> QED
    BY <2>1
<1>3. Without(q, S) = f[Len(q)]
  BY DEF Without, Filtered, Filter
<1> HIDE DEF f
<1>4. f = [i \in 0 .. Len(q) |-> IF i = 0 THEN <<>> ELSE Filter(f[i - 1], q[i], S)]
  BY <1>2 DEF Filtered
<1>5. \A i \in 1 .. Len(q) : i \in 0 .. Len(q) /\ i # 0
  OBVIOUS
<1>6. f[0] = <<>> /\ \A i \in 1 .. Len(q) : f[i] = Filter(f[i - 1], q[i], S)
  BY <1>1, <1>4, <1>5
<1> QED
  BY <1>3, <1>6 DEF Keeping

(* Two such chains over entries both treat alike are the same.            *)
LEMMA ChainsAgree ==
  ASSUME NEW n \in Nat, NEW q, NEW r, NEW A, NEW B,
         NEW f, Keeping(f, q, n, A), NEW h, Keeping(h, r, n, B),
         \A i \in 1 .. n : q[i] = r[i] /\ (q[i] \in A <=> r[i] \in B)
  PROVE  f[n] = h[n]
<1> DEFINE N == {k \in Nat : k <= n => f[k] = h[k]}
<1>1. 0 \in N
  BY DEF Keeping
<1>2. ASSUME NEW k \in Nat, k \in N PROVE k + 1 \in N
  <2>1. SUFFICES ASSUME k + 1 <= n PROVE f[k + 1] = h[k + 1]
    OBVIOUS
  <2>2. k + 1 \in 1 .. n /\ (k + 1) - 1 = k /\ f[k] = h[k]
    BY <1>2, <2>1
  <2>3. f[k + 1] = Filter(f[k], q[k + 1], A) /\ h[k + 1] = Filter(h[k], r[k + 1], B)
    BY <2>2 DEF Keeping
  <2> QED
    BY <2>2, <2>3 DEF Filter
<1> HIDE DEF N
<1>3. n \in N
  BY <1>1, <1>2, EveryNumberIsReached
<1> QED
  BY <1>3 DEF N

(* Only the entries of the queue matter to what leaves it.                *)
LEMMA WithoutAgrees ==
  ASSUME NEW q, Queue(q), NEW A, NEW B, \A x \in Range(q) : x \in A <=> x \in B
  PROVE  Without(q, A) = Without(q, B)
<1>1. PICK f : Keeping(f, q, Len(q), A) /\ f[Len(q)] = Without(q, A)
  BY WithoutIsAChain
<1>2. PICK h : Keeping(h, q, Len(q), B) /\ h[Len(q)] = Without(q, B)
  BY WithoutIsAChain
<1>3. Len(q) \in Nat /\ \A i \in 1 .. Len(q) : q[i] \in A <=> q[i] \in B
  BY DEF Queue, Range
<1>4. f[Len(q)] = h[Len(q)]
  BY <1>1, <1>2, <1>3, ChainsAgree
<1> QED
  BY <1>1, <1>2, <1>4

(* An entry at the end is dropped or kept last.                           *)
LEMMA WithoutOfAppend ==
  ASSUME NEW q, Queue(q), NEW x, NEW S
  PROVE  Without(Append(q, x), S) = Filter(Without(q, S), x, S)
<1> DEFINE r == Append(q, x)
           n == Len(q)
<1>1. Queue(r)
  BY AppendQueue
<1>2. n \in Nat /\ Len(r) = n + 1 /\ r[n + 1] = x /\ \A i \in 1 .. n : r[i] = q[i]
  <2>1. q \in Seq(Range(q) \cup {x})
    BY SeqMonotonic DEF Queue
  <2> QED
    BY <2>1, AppendProperties
<1>3. PICK f : Keeping(f, q, n, S) /\ f[n] = Without(q, S)
  BY WithoutIsAChain
<1> HIDE DEF r
<1>4. PICK h : Keeping(h, r, Len(r), S) /\ h[Len(r)] = Without(r, S)
  BY <1>1, WithoutIsAChain
<1>5. f[n] = h[n]
  <2>1. \A i \in 1 .. n : q[i] = r[i] /\ (q[i] \in S <=> r[i] \in S)
    BY <1>2
  <2>2. Keeping(h, r, n, S)
    BY <1>2, <1>4 DEF Keeping
  <2> QED
    BY <1>2, <1>3, <2>1, <2>2, ChainsAgree
<1>6. h[n + 1] = Filter(h[n], x, S)
  BY <1>2, <1>4 DEF Keeping
<1> QED
  BY <1>2, <1>3, <1>4, <1>5, <1>6 DEF r

(* Those that leave may leave in two groups.                              *)
LEMMA WithoutTwice ==
  ASSUME NEW q, Queue(q), NEW A, NEW B
  PROVE  Without(Without(q, A), B) = Without(q, A \cup B)
<1> DEFINE n == Len(q)
<1>1. PICK f : Keeping(f, q, n, A) /\ f[n] = Without(q, A)
  BY WithoutIsAChain
<1>2. PICK h : Keeping(h, q, n, A \cup B) /\ h[n] = Without(q, A \cup B)
  BY WithoutIsAChain
<1>3. n \in Nat
  BY DEF Queue
<1> DEFINE N == {k \in Nat : k <= n => Queue(f[k]) /\ Without(f[k], B) = h[k]}
<1>4. 0 \in N
  <2>1. Without(<<>>, B) = <<>>
    <3>1. PICK g : Keeping(g, <<>>, Len(<<>>), B) /\ g[Len(<<>>)] = Without(<<>>, B)
      BY EmptyQueue, WithoutIsAChain
    <3> QED
      BY <3>1 DEF Keeping
  <2> QED
    BY <1>1, <1>2, <2>1, EmptyQueue DEF Keeping
<1>5. ASSUME NEW k \in Nat, k \in N PROVE k + 1 \in N
  <2>1. SUFFICES ASSUME k + 1 <= n PROVE Queue(f[k + 1]) /\ Without(f[k + 1], B) = h[k + 1]
    OBVIOUS
  <2> DEFINE x == q[k + 1]
  <2>2. k + 1 \in 1 .. n /\ (k + 1) - 1 = k /\ Queue(f[k]) /\ Without(f[k], B) = h[k]
    BY <1>3, <1>5, <2>1
  <2>3. f[k + 1] = Filter(f[k], x, A) /\ h[k + 1] = Filter(h[k], x, A \cup B)
    BY <1>1, <1>2, <2>2 DEF Keeping
  <2> HIDE DEF x
  <2>4. CASE x \in A
    BY <2>2, <2>3, <2>4 DEF Filter
  <2>5. CASE x \notin A
    <3>1. f[k + 1] = Append(f[k], x) /\ Filter(h[k], x, A \cup B) = Filter(h[k], x, B)
      BY <2>3, <2>5 DEF Filter
    <3>2. Queue(f[k + 1]) /\ Without(f[k + 1], B) = Filter(Without(f[k], B), x, B)
      BY <2>2, <3>1, AppendQueue, WithoutOfAppend
    <3> QED
      BY <2>2, <2>3, <3>1, <3>2
  <2> QED
    BY <2>4, <2>5
<1> HIDE DEF N
<1>6. n \in N
  BY <1>3, <1>4, <1>5, EveryNumberIsReached
<1> QED
  BY <1>1, <1>2, <1>3, <1>6 DEF N

(* A queue nobody leaves stays as it is.                                  *)
LEMMA WithoutNobody ==
  ASSUME NEW q, Queue(q), NEW S, Range(q) \cap S = {}
  PROVE  Without(q, S) = q
<1> DEFINE n == Len(q)
           Part(k) == SubSeq(q, 1, k)
<1>1. PICK f : Keeping(f, q, n, S) /\ f[n] = Without(q, S)
  BY WithoutIsAChain
<1>2. n \in Nat /\ q \in Seq(Range(q)) /\ \A i \in 1 .. n : q[i] \in Range(q) /\ q[i] \notin S
  BY DEF Queue, Range
<1> DEFINE N == {k \in Nat : k <= n => f[k] = Part(k)}
<1>3. 0 \in N
  <2>1. SubSeq(q, 1, 0) = <<>>
    BY SubSeqEmpty
  <2> QED
    BY <1>1, <2>1 DEF Keeping
<1>4. ASSUME NEW k \in Nat, k \in N PROVE k + 1 \in N
  <2>1. SUFFICES ASSUME k + 1 <= n PROVE f[k + 1] = Part(k + 1)
    OBVIOUS
  <2>2. k + 1 \in 1 .. n /\ (k + 1) - 1 = k /\ f[k] = Part(k)
    BY <1>2, <1>4, <2>1
  <2>3. f[k + 1] = Append(Part(k), q[k + 1])
    BY <1>1, <1>2, <2>2 DEF Keeping, Filter
  <2>4. Part(k) \in Seq(Range(q)) /\ q[k + 1] \in Range(q)
    <3>1. \A i \in 1 .. k : q[i] \in Range(q)
      BY <1>2, <2>2
    <3> QED
      BY <1>2, <2>2, <3>1, SubSeqProperties
  <2>5. Part(k + 1) = Part(k) \o << q[k + 1] >>
    BY <1>2, <2>2, SubSeqRecursiveSecond
  <2> HIDE DEF Part
  <2>6. Append(Part(k), q[k + 1]) = Part(k) \o << q[k + 1] >>
    BY <2>4
  <2> QED
    BY <2>3, <2>5, <2>6
<1>5. n \in N
  <2> HIDE DEF N
  <2> QED
    BY <1>2, <1>3, <1>4, EveryNumberIsReached
<1>6. Part(n) = q
  BY <1>2, SubSeqFull
<1> QED
  BY <1>1, <1>2, <1>5, <1>6

-----------------------------------------------------------------------------
(* A recursion over the indices of a sequence has its value: the recursive  *)
(* functions of PlanDispatch exist, whatever the entries.                   *)
Occupied(f, b, q, n) == f = [i \in 0 .. n |-> IF i = 0 THEN b ELSE Occupy(f[i - 1], q[i])]

(* The recursion over the running set defines a function.                 *)
LEMMA OccupiedExists ==
  ASSUME NEW b, NEW q, NEW m \in Nat
  PROVE  \E f : Occupied(f, b, q, m)
<1> USE DEF Occupied
<1> DEFINE Eq(f, n) == Occupied(f, b, q, n)
           S == {n \in Nat : \E f : Eq(f, n)}
<1>1. 0 \in S
  <2>1. Eq([i \in 0 .. 0 |-> b], 0)
    OBVIOUS
  <2> QED
    BY <2>1
<1>2. ASSUME NEW n \in Nat, n \in S PROVE n + 1 \in S
  <2>1. PICK f : Eq(f, n)
    BY <1>2
  <2> DEFINE g == [i \in 0 .. n + 1 |-> IF i = n + 1 THEN Occupy(f[n], q[n + 1]) ELSE f[i]]
  <2>2. ASSUME NEW i \in 0 .. n + 1
        PROVE  g[i] = IF i = 0 THEN b ELSE Occupy(g[i - 1], q[i])
    <3>1. CASE i = n + 1
      BY <3>1
    <3>2. CASE i \in 0 .. n
      BY <2>1, <3>2
    <3> QED
      BY <3>1, <3>2
  <2>3. Eq(g, n + 1)
    BY <2>2
  <2> HIDE DEF g, Eq, Occupied
  <2>4. n + 1 \in Nat /\ \E f2 : Eq(f2, n + 1)
    BY <2>3
  <2> QED
    BY <2>4
<1> HIDE DEF S
<1>3. m \in S
  BY <1>1, <1>2, EveryNumberIsReached
<1> QED
  BY <1>3 DEF S

Visited(f, b, q, n) == f = [i \in 0 .. n |-> IF i = 0 THEN b ELSE PlanStep(f[i - 1], q[i])]

(* The recursion over the queue defines a function.                       *)
LEMMA VisitedExists ==
  ASSUME NEW b, NEW q, NEW m \in Nat
  PROVE  \E f : Visited(f, b, q, m)
<1> USE DEF Visited
<1> DEFINE Eq(f, n) == Visited(f, b, q, n)
           S == {n \in Nat : \E f : Eq(f, n)}
<1>1. 0 \in S
  <2>1. Eq([i \in 0 .. 0 |-> b], 0)
    OBVIOUS
  <2> QED
    BY <2>1
<1>2. ASSUME NEW n \in Nat, n \in S PROVE n + 1 \in S
  <2>1. PICK f : Eq(f, n)
    BY <1>2
  <2> DEFINE g == [i \in 0 .. n + 1 |-> IF i = n + 1 THEN PlanStep(f[n], q[n + 1]) ELSE f[i]]
  <2>2. ASSUME NEW i \in 0 .. n + 1
        PROVE  g[i] = IF i = 0 THEN b ELSE PlanStep(g[i - 1], q[i])
    <3>1. CASE i = n + 1
      BY <3>1
    <3>2. CASE i \in 0 .. n
      BY <2>1, <3>2
    <3> QED
      BY <3>1, <3>2
  <2>3. Eq(g, n + 1)
    BY <2>2
  <2> HIDE DEF g, Eq, Visited
  <2>4. n + 1 \in Nat /\ \E f2 : Eq(f2, n + 1)
    BY <2>3
  <2> QED
    BY <2>4
<1> HIDE DEF S
<1>3. m \in S
  BY <1>1, <1>2, EveryNumberIsReached
<1> QED
  BY <1>3 DEF S

(* A plan is what a chain of Occupy and then of PlanStep ends in.            *)
LEMMA PlanIsAChain ==
  ASSUME NEW queue, NEW running, NEW cap, Len(queue) \in Nat, Len(running) \in Nat
  PROVE  \E occupied, visited :
           /\ occupied[0] = Start(cap)
           /\ \A i \in 1 .. Len(running) : occupied[i] = Occupy(occupied[i - 1], running[i])
           /\ visited[0] = occupied[Len(running)]
           /\ \A i \in 1 .. Len(queue) : visited[i] = PlanStep(visited[i - 1], queue[i])
           /\ PlanDispatch(queue, running, cap) = visited[Len(queue)]
<1> DEFINE occupied == CHOOSE f : Occupied(f, Start(cap), running, Len(running))
           visited == CHOOSE f : Visited(f, occupied[Len(running)], queue, Len(queue))
<1>1. Occupied(occupied, Start(cap), running, Len(running))
  <2>1. \E f : Occupied(f, Start(cap), running, Len(running))
    BY OccupiedExists
  <2> QED
    BY <2>1
<1>2. /\ occupied[0] = Start(cap)
      /\ \A i \in 1 .. Len(running) : occupied[i] = Occupy(occupied[i - 1], running[i])
  <2> HIDE DEF occupied
  <2>1. occupied = [i \in 0 .. Len(running) |->
                      IF i = 0 THEN Start(cap) ELSE Occupy(occupied[i - 1], running[i])]
    BY <1>1 DEF Occupied
  <2>2. \A i \in 1 .. Len(running) : i \in 0 .. Len(running) /\ i # 0
    OBVIOUS
  <2> QED
    BY <2>1, <2>2
<1>3. Visited(visited, occupied[Len(running)], queue, Len(queue))
  <2>1. \E f : Visited(f, occupied[Len(running)], queue, Len(queue))
    BY VisitedExists
  <2> QED
    BY <2>1
<1>4. /\ visited[0] = occupied[Len(running)]
      /\ \A i \in 1 .. Len(queue) : visited[i] = PlanStep(visited[i - 1], queue[i])
  <2> HIDE DEF visited, occupied
  <2>1. visited = [i \in 0 .. Len(queue) |->
                     IF i = 0 THEN occupied[Len(running)] ELSE PlanStep(visited[i - 1], queue[i])]
    BY <1>3 DEF Visited
  <2>2. \A i \in 1 .. Len(queue) : i \in 0 .. Len(queue) /\ i # 0
    OBVIOUS
  <2> QED
    BY <2>1, <2>2
<1>5. PlanDispatch(queue, running, cap) = visited[Len(queue)]
  BY DEF PlanDispatch, Occupied, Visited
<1> HIDE DEF occupied, visited
<1> QED
  BY <1>2, <1>4, <1>5
-----------------------------------------------------------------------------
(* What one step does to the plan.                                          *)

(* Stepping through the GPUs from any index, n steps visit all n of them.   *)
LEMMA EveryIndexIsReached ==
  ASSUME NEW n \in Nat \ {0}, NEW rr \in Nat, NEW i \in 0 .. n - 1
  PROVE  \E k \in 0 .. n - 1 : (rr + k) % n = i
<1>1. PICK q \in Nat, r \in 0 .. n - 1 : rr = n * q + r
  <2>1. rr \div n \in Nat /\ rr % n \in 0 .. n - 1 /\ rr = n * (rr \div n) + (rr % n)
    OBVIOUS
  <2> QED
    BY <2>1
<1>2. CASE i >= r
  <2>1. rr + (i - r) = n * q + i
    BY <1>1
  <2>2. (n * q + i) % n = i
    BY <1>1
  <2>3. i - r \in 0 .. n - 1
    BY <1>1, <1>2
  <2> QED
    BY <2>1, <2>2, <2>3
<1>3. CASE i < r
  <2>1. rr + (i - r + n) = n * q + n + i
    BY <1>1
  <2>2. (n * q + n + i) % n = i
    BY <1>1
  <2>3. i - r + n \in 0 .. n - 1
    BY <1>1, <1>3
  <2> QED
    BY <2>1, <2>2, <2>3
<1> QED
  BY <1>1, <1>2, <1>3

Fields(p) ==
  /\ {"live", "rr", "freed", "ends", "held", "phase", "head", "reservation", "decisions"}
       \subseteq DOMAIN p
  /\ p.rr \in 0 .. Len(GpuOrder) /\ DOMAIN p.live.gpu \subseteq Gpus

\* The entry task is planned on g by rule, which the planner's state p allows.
Admits(p, task, g, rule, q) ==
  /\ q.live = Take(p.live, Use(task, g))
  /\ q.held = HeldWith(p, task.ident)
  /\ q.decisions = Append(p.decisions, [task |-> task, gpu |-> g, rule |-> rule])
  /\ ~ CanaryBlocked(p, task) /\ FitsNonGpu(p.live, task)
  /\ rule \in {"front", "a", "b"}
  /\ IF task.vram > 0 THEN g \in Gpus \cap DOMAIN p.live.gpu /\ Room(p.live, task.vram, p.live.gpu[g])
                      ELSE g = None

(* A task some GPU has room for has an option, wherever the search starts.  *)
LEMMA OptionExists ==
  ASSUME NEW p, Fields(p), NEW task, task.vram > 0, FitsGpu(p.live, task)
  PROVE  GpuOptions(p.live, task, p.rr) # {}
<1>1. PICK g \in DOMAIN p.live.gpu : Room(p.live, task.vram, p.live.gpu[g])
  BY DEF FitsGpu
<1>2. PICK i \in 1 .. Len(GpuOrder) : g = GpuOrder[i]
  BY GpuOrderAssumption DEF Gpus, Fields
<1>3. Len(GpuOrder) \in Nat \ {0} /\ i - 1 \in 0 .. Len(GpuOrder) - 1 /\ p.rr \in Nat
  BY <1>2, GpuOrderAssumption DEF Fields
<1>4. PICK k \in 0 .. Len(GpuOrder) - 1 : (p.rr + k) % Len(GpuOrder) = i - 1
  BY <1>3, EveryIndexIsReached
<1>5. GpuAt(p.rr, k) = g
  BY <1>2, <1>4 DEF GpuAt, Index
<1>6. k \in GpuOptions(p.live, task, p.rr)
  BY <1>1, <1>4, <1>5 DEF GpuOptions
<1> QED
  BY <1>6

(* Wherever the search starts, the place it finds is one of its options.    *)
LEMMA PlaceFound ==
  ASSUME NEW p, Fields(p), NEW task, NEW offsets \in SUBSET GpuOptions(p.live, task, p.rr),
         task.vram > 0 => offsets # {}
  PROVE  LET place == Place(task, p.rr, offsets) IN
           /\ place.rr \in 0 .. Len(GpuOrder)
           /\ IF task.vram > 0 THEN /\ place.gpu \in Gpus \cap DOMAIN p.live.gpu
                                    /\ Room(p.live, task.vram, p.live.gpu[place.gpu])
                                    /\ \E k \in offsets : place.gpu = GpuAt(p.rr, k)
                               ELSE place.gpu = None
<1> DEFINE n == Len(GpuOrder)
           k == First(offsets)
<1>1. p.rr \in 0 .. n /\ n \in Nat
  BY GpuOrderAssumption DEF Fields
<1>2. CASE ~ (task.vram > 0)
  BY <1>1, <1>2 DEF Place
<1>3. CASE task.vram > 0
  <2>1. offsets \in SUBSET Nat /\ offsets # {} /\ n \in Nat
    BY <1>3, GpuOrderAssumption DEF GpuOptions
  <2>2. k \in offsets
    BY <2>1, FirstIsLeast
  <2>3. /\ k \in 0 .. n - 1 /\ GpuAt(p.rr, k) \in DOMAIN p.live.gpu
        /\ Room(p.live, task.vram, p.live.gpu[GpuAt(p.rr, k)])
    BY <2>2 DEF GpuOptions
  <2>4. n > 0 /\ k \in Nat
    BY <2>1, <2>3
  <2>5. (p.rr + (k + 1)) % n \in 0 .. n
    BY <1>1, <2>1, <2>4
  <2>7. Place(task, p.rr, offsets) = [gpu |-> GpuAt(p.rr, k), rr |-> Index(p.rr, k + 1)]
    BY <1>3 DEF Place
  <2> QED
    BY <1>3, <2>2, <2>3, <2>5, <2>7 DEF Index, Fields
<1> QED
  BY <1>2, <1>3

(* Both admissions record the entry in the same way.                        *)
LEMMA AdmittedEffect ==
  ASSUME NEW p, Fields(p), NEW task, NEW place, place.rr \in 0 .. Len(GpuOrder), NEW rule
  PROVE  LET a == Admitted(p, task, place, rule) IN
           /\ Fields(a)
           /\ a.live = Take(p.live, Use(task, place.gpu))
           /\ a.held = HeldWith(p, task.ident)
           /\ a.decisions = Append(p.decisions, [task |-> task, gpu |-> place.gpu, rule |-> rule])
           /\ a.phase = p.phase /\ a.head = p.head /\ a.reservation = p.reservation
BY DEF Admitted, Fields, Take

(* A front admission admits its entry, and closes the cycle if exclusive.   *)
LEMMA FrontAdmits ==
  ASSUME NEW p, Fields(p), NEW task, CanAdmitFront(p, task)
  PROVE  /\ Fields(AdmitFront(p, task))
         /\ \E g : Admits(p, task, g, "front", AdmitFront(p, task))
         /\ AdmitFront(p, task).phase = IF task.excl THEN "closed" ELSE "front"
<1> DEFINE place == Place(task, p.rr, GpuOptions(p.live, task, p.rr))
           a == Admitted(p, task, place, "front")
<1>1. task.vram > 0 => GpuOptions(p.live, task, p.rr) # {}
  BY OptionExists DEF CanAdmitFront, Fits
<1>2. /\ place.rr \in 0 .. Len(GpuOrder)
      /\ IF task.vram > 0 THEN place.gpu \in Gpus \cap DOMAIN p.live.gpu
                                  /\ Room(p.live, task.vram, p.live.gpu[place.gpu])
                          ELSE place.gpu = None
  BY <1>1, PlaceFound
<1>3. PICK fr, en, ph : /\ AdmitFront(p, task) = [a EXCEPT !.freed = fr, !.ends = en, !.phase = ph]
                        /\ ph = IF task.excl THEN "closed" ELSE "front"
  BY DEF AdmitFront
<1>4. Fields(a) /\ a.live = Take(p.live, Use(task, place.gpu)) /\ a.held = HeldWith(p, task.ident)
      /\ a.decisions = Append(p.decisions, [task |-> task, gpu |-> place.gpu, rule |-> "front"])
  BY <1>2, AdmittedEffect
<1> HIDE DEF place, a
<1>5. Admits(p, task, place.gpu, "front", AdmitFront(p, task))
  BY <1>2, <1>3, <1>4 DEF Admits, CanAdmitFront, Fits, Fields
<1> QED
  BY <1>3, <1>4, <1>5 DEF Fields

(* A backfill admission admits its entry where it does the head no harm.    *)
LEMMA BackfillAdmits ==
  ASSUME NEW p, Fields(p), NEW task, CanBackfill(p, task)
  PROVE  LET q == AdmitBackfill(p, task) IN
           /\ Fields(q) /\ q.phase = p.phase /\ q.head = p.head /\ q.reservation = p.reservation
           /\ \E g, rule : Admits(p, task, g, rule, q) /\ Harmless(p, task, g)
<1> DEFINE offsets == BackfillOffsets(p, task)
           place == Place(task, p.rr, offsets)
           rule == IF Short(p, task) THEN "b" ELSE "a"
           a == Admitted(p, task, place, rule)
<1>1. /\ offsets \in SUBSET GpuOptions(p.live, task, p.rr)
      /\ task.vram > 0 => offsets # {}
      /\ \A k \in offsets : Harmless(p, task, GpuAt(p.rr, k))
      /\ ~ CanaryBlocked(p, task) /\ FitsNonGpu(p.live, task)
      /\ ~ (task.vram > 0) => Harmless(p, task, None)
  BY DEF CanBackfill, BackfillOffsets
<1> HIDE DEF offsets
<1>2. /\ place.rr \in 0 .. Len(GpuOrder)
      /\ IF task.vram > 0 THEN /\ place.gpu \in Gpus \cap DOMAIN p.live.gpu
                               /\ Room(p.live, task.vram, p.live.gpu[place.gpu])
                               /\ \E k \in offsets : place.gpu = GpuAt(p.rr, k)
                          ELSE place.gpu = None
  BY <1>1, PlaceFound
<1>3. Harmless(p, task, place.gpu)
  BY <1>1, <1>2
<1>4. AdmitBackfill(p, task) = a
  BY DEF AdmitBackfill, offsets
<1> HIDE DEF place, rule
<1>5. /\ Fields(a) /\ a.live = Take(p.live, Use(task, place.gpu))
      /\ a.held = HeldWith(p, task.ident)
      /\ a.decisions = Append(p.decisions, [task |-> task, gpu |-> place.gpu, rule |-> rule])
      /\ a.phase = p.phase /\ a.head = p.head /\ a.reservation = p.reservation
  BY <1>2, AdmittedEffect
<1>6. rule \in {"front", "a", "b"}
  BY DEF rule
<1> HIDE DEF a
<1>7. Admits(p, task, place.gpu, rule, a)
  BY <1>1, <1>2, <1>5, <1>6 DEF Admits
<1> QED
  BY <1>3, <1>4, <1>5, <1>7

Phases == {"front", "backfill", "closed"}

\* p and q agree on what is planned.
SamePlan(p, q) == q.live = p.live /\ q.held = p.held /\ q.decisions = p.decisions

(* What a blocked head changes, and what it leaves alone.                 *)
LEMMA BlockEffect ==
  ASSUME NEW p, Fields(p), NEW head
  PROVE  LET q == Block(p, head) IN
           /\ Fields(q) /\ SamePlan(p, q) /\ q.head = head
           /\ q.freed = p.freed /\ q.ends = p.ends
           /\ q.phase = IF head.excl THEN "closed" ELSE "backfill"
<1>1. CASE head.excl
  BY <1>1 DEF Block, Fields, SamePlan
<1>2. CASE ~ head.excl
  <2> DEFINE r == Reservation(p, head)
  <2>1. Block(p, head) = [p EXCEPT !.phase = "backfill", !.head = head, !.reservation = r]
    BY <1>2 DEF Block
  <2> HIDE DEF r
  <2>2. LET q == Block(p, head) IN 
           /\ Fields(q) /\ SamePlan(p, q) /\ q.head = head
           /\ q.freed = p.freed /\ q.ends = p.ends
           /\ q.phase = "backfill"
    BY <2>1 DEF Fields, SamePlan
  <2> QED
    BY <1>2, <2>2
<1> QED
  BY <1>1, <1>2

(* A blocked head that is not exclusive gets a reservation.               *)
LEMMA BlockReserves ==
  ASSUME NEW p, Fields(p), NEW head, ~ head.excl
  PROVE  Block(p, head).reservation = Reservation(p, head)
BY DEF Block, Fields

(* What one occupant changes, and what it leaves alone.                   *)
LEMMA OccupyEffect ==
  ASSUME NEW p, Fields(p), NEW o
  PROVE  LET q == Occupy(p, o) IN
           /\ Fields(q) /\ q.live = p.live /\ q.decisions = p.decisions
           /\ q.held = HeldWith(p, o.ident)
           /\ q.phase = IF o.excl THEN "closed" ELSE p.phase
<1> DEFINE fr == FreedWith(p, Use(o, o.gpu), o.left)
           en == EndsWith(p, o.left)
           he == HeldWith(p, o.ident)
           ph == IF o.excl THEN "closed" ELSE p.phase
<1>1. Occupy(p, o) = [p EXCEPT !.freed = fr, !.ends = en, !.held = he, !.phase = ph]
  BY DEF Occupy
<1> HIDE DEF fr, en, he, ph
<1>2. LET q == Occupy(p, o) IN
        Fields(q) /\ q.live = p.live /\ q.decisions = p.decisions /\ q.held = he /\ q.phase = ph
  BY <1>1 DEF Fields
<1> QED
  BY <1>2 DEF he, ph

\* What one entry may do: nothing to the plan, or be admitted.
Move(p, task, q) == SamePlan(p, q) \/ \E g, rule : Admits(p, task, g, rule, q)

(* One entry leaves the plan alone or is admitted.                          *)
LEMMA StepMoves ==
  ASSUME NEW p, Fields(p), p.phase \in Phases, NEW task
  PROVE  LET q == PlanStep(p, task) IN
           /\ Fields(q) /\ q.phase \in Phases /\ Move(p, task, q)
           /\ p.phase = "closed" => q = p
<1>1. CASE p.phase = "front"
  <2>1. CASE CanAdmitFront(p, task)
    <3>1. PlanStep(p, task) = AdmitFront(p, task)
      BY <1>1, <2>1 DEF PlanStep
    <3> QED
      BY <1>1, <2>1, <3>1, FrontAdmits DEF Phases, Move
  <2>2. CASE ~ CanAdmitFront(p, task)
    <3>1. PlanStep(p, task) = Block(p, task)
      BY <1>1, <2>2 DEF PlanStep
    <3>2. (IF task.excl THEN "closed" ELSE "backfill") \in Phases
      BY DEF Phases
    <3>3. LET q == PlanStep(p, task) IN
            /\ Fields(q) /\ SamePlan(p, q)
            /\ q.phase = IF task.excl THEN "closed" ELSE "backfill"
      BY <3>1, BlockEffect
    <3> QED
      BY <1>1, <3>2, <3>3 DEF Move
  <2> QED
    BY <2>1, <2>2
<1>2. CASE p.phase = "backfill"
  <2>1. CASE CanBackfill(p, task)
    <3>1. PlanStep(p, task) = AdmitBackfill(p, task)
      BY <1>2, <2>1 DEF PlanStep
    <3> QED
      BY <1>2, <2>1, <3>1, BackfillAdmits DEF Phases, Move
  <2>2. CASE ~ CanBackfill(p, task)
    <3>1. PlanStep(p, task) = p
      BY <1>2, <2>2 DEF PlanStep
    <3> QED
      BY <1>2, <3>1 DEF Phases, Move, SamePlan
  <2> QED
    BY <2>1, <2>2
<1>3. CASE p.phase = "closed"
  <2>1. PlanStep(p, task) = p
    BY <1>3 DEF PlanStep
  <2> QED
    BY <1>3, <2>1 DEF Phases, Move, SamePlan
<1> QED
  BY <1>1, <1>2, <1>3 DEF Phases

-----------------------------------------------------------------------------
(* The whole cycle.                                                         *)

\* What the executor's capacity and queue entries are.
CapOk(cap) ==
  /\ cap.slots \in Nat /\ cap.rr \in 0 .. Len(GpuOrder) /\ DOMAIN cap.gpu \subseteq Gpus
  /\ cap.mem \in Int /\ \A g \in DOMAIN cap.gpu : cap.gpu[g] \in Int

EntriesOk(queue) ==
  /\ queue \in Seq(Range(queue))
  /\ \A i \in 1 .. Len(queue) : queue[i].mem \in Nat /\ queue[i].vram \in Nat /\ queue[i].cpu \in Nat

\* b is the cycle's state when the occupants are collected.
Based(b, running, cap) ==
  /\ Fields(b) /\ b.live = Start(cap).live /\ b.decisions = <<>>
  /\ \A i \in 1 .. Len(running) : running[i].ident # None => running[i].ident \in b.held

BasedPhase(b, running, cap) ==
  /\ b.phase \in {"front", "closed"}
  /\ (\E i \in 1 .. Len(running) : running[i].excl) => b.phase = "closed"
  /\ Len(running) = 0 => b = Start(cap)

(* After the last occupant the state reflects the running set.            *)
LEMMA OccupantsAreCollected ==
  ASSUME NEW running, Len(running) \in Nat, NEW cap, CapOk(cap), NEW occupied,
         occupied[0] = Start(cap),
         \A i \in 1 .. Len(running) : occupied[i] = Occupy(occupied[i - 1], running[i])
  PROVE  /\ Based(occupied[Len(running)], running, cap)
         /\ BasedPhase(occupied[Len(running)], running, cap)
<1> DEFINE n == Len(running)
           Closing(p, i) == /\ p.phase \in {"front", "closed"}
                            /\ (\E j \in 1 .. i : running[j].excl) => p.phase = "closed"
           Base(p, i) == /\ Fields(p) /\ p.live = Start(cap).live /\ p.decisions = <<>>
                         /\ \A j \in 1 .. i : running[j].ident # None => running[j].ident \in p.held
           S == {i \in Nat : i <= n => Base(occupied[i], i) /\ Closing(occupied[i], i)}
<1>1. 0 \in S
  <2>1. Fields(Start(cap)) /\ Start(cap).decisions = <<>> /\ Start(cap).phase = "front"
    BY DEF Start, Fields, CapOk
  <2> QED
    BY <2>1
<1>2. ASSUME NEW i \in Nat, i \in S PROVE i + 1 \in S
  <2>1. SUFFICES ASSUME i + 1 <= n PROVE Base(occupied[i + 1], i + 1) /\ Closing(occupied[i + 1], i + 1)
    OBVIOUS
  <2> DEFINE p == occupied[i]
             q == occupied[i + 1]
             o == running[i + 1]
  <2>2. Base(p, i) /\ Closing(p, i) /\ q = Occupy(p, o)
    BY <1>2, <2>1
  <2> HIDE DEF p, q, o
  <2>3. /\ Fields(q) /\ q.live = p.live /\ q.decisions = p.decisions
        /\ q.held = HeldWith(p, o.ident)
        /\ q.phase = IF o.excl THEN "closed" ELSE p.phase
    BY <2>2, OccupyEffect
  <2>4. \A j \in 1 .. i + 1 : j \in 1 .. i \/ j = i + 1
    OBVIOUS
  <2>5. Base(q, i + 1)
    <3>1. \A j \in 1 .. i + 1 : running[j].ident # None => running[j].ident \in q.held
      BY <2>2, <2>3, <2>4 DEF HeldWith, o
    <3> QED
      BY <2>2, <2>3, <3>1
  <2>6. Closing(q, i + 1)
    <3>1. q.phase \in {"front", "closed"}
      BY <2>2, <2>3
    <3>2. ASSUME NEW j \in 1 .. i + 1, running[j].excl PROVE q.phase = "closed"
      BY <2>2, <2>3, <2>4, <3>2 DEF o
    <3> QED
      BY <3>1, <3>2
  <2> QED
    BY <2>5, <2>6 DEF q
<1> HIDE DEF S
<1>3. n \in S
  BY <1>1, <1>2, EveryNumberIsReached
<1>4. Base(occupied[n], n) /\ Closing(occupied[n], n)
  BY <1>3 DEF S
<1> QED
  BY <1>4 DEF Based, BasedPhase

\* visited are the states of a cycle that visits the queue from b.
Visits(visited, b, queue) ==
  /\ visited[0] = b
  /\ \A i \in 1 .. Len(queue) : visited[i] = PlanStep(visited[i - 1], queue[i])

DecisionsOf(S) == [task : S, gpu : Gpus \cup {None}, rule : {"front", "a", "b"}]
FirstOf(queue, i) == {queue[j] : j \in 1 .. i}

\* What is planned after i entries: entries of the queue.
Shape(p, queue, cap, i) ==
  /\ Fields(p) /\ p.phase \in Phases
  /\ p.decisions \in Seq(DecisionsOf(FirstOf(queue, i)))
  /\ p.live.gated = cap.gated /\ DOMAIN p.live.gpu = DOMAIN cap.gpu
  /\ p.live.slots = cap.slots + Len(p.decisions)
  /\ p.decisions # <<>> => p.live.slots <= MaxWorkers

(* One task of the queue keeps the shape of the cycle's state.            *)
LEMMA ShapeStep ==
  ASSUME NEW p, NEW queue, NEW cap, CapOk(cap), NEW i \in Nat, Shape(p, queue, cap, i)
  PROVE  Shape(PlanStep(p, queue[i + 1]), queue, cap, i + 1)
<1> DEFINE task == queue[i + 1]
           q == PlanStep(p, task)
           S == DecisionsOf(FirstOf(queue, i))
           T == DecisionsOf(FirstOf(queue, i + 1))
<1>1. Fields(q) /\ q.phase \in Phases /\ Move(p, task, q)
  BY StepMoves DEF Shape
<1>2. FirstOf(queue, i) \subseteq FirstOf(queue, i + 1) /\ task \in FirstOf(queue, i + 1)
  BY DEF FirstOf
<1>3. S \subseteq T
  BY <1>2 DEF DecisionsOf
<1>4. p.decisions \in Seq(T) /\ Len(p.decisions) \in Nat
  BY <1>3, SeqMonotonic DEF Shape
<1> HIDE DEF T, S, q, task
<1>5. CASE SamePlan(p, q)
  BY <1>1, <1>4, <1>5 DEF Shape, SamePlan, T, q, task
<1>6. ASSUME NEW g, NEW rule, Admits(p, task, g, rule, q) PROVE Shape(q, queue, cap, i + 1)
  <2> DEFINE d == [task |-> task, gpu |-> g, rule |-> rule]
  <2>1. g \in Gpus \cup {None} /\ rule \in {"front", "a", "b"}
    BY <1>6 DEF Admits
  <2>2. d \in T
    BY <1>2, <2>1 DEF T, DecisionsOf, task
  <2> HIDE DEF d
  <2>3. q.decisions = Append(p.decisions, d)
    BY <1>6 DEF Admits, d
  <2>4. q.decisions \in Seq(T) /\ Len(q.decisions) = Len(p.decisions) + 1
    BY <1>4, <2>2, <2>3, AppendProperties
  <2>5. /\ q.live.gated = p.live.gated /\ DOMAIN q.live.gpu = DOMAIN p.live.gpu
        /\ q.live.slots = p.live.slots + 1
    BY <1>6 DEF Admits, Take
  <2>6. p.live.slots < MaxWorkers
    BY <1>6 DEF Admits, FitsNonGpu
  <2>7. q.live.slots = cap.slots + Len(q.decisions) /\ q.live.slots <= MaxWorkers
    <3>1. p.live.slots = cap.slots + Len(p.decisions) /\ cap.slots \in Nat
      BY DEF Shape, CapOk
    <3>2. q.live.slots = cap.slots + Len(q.decisions)
      BY <1>4, <2>4, <2>5, <3>1
    <3>3. p.live.slots \in Nat /\ q.live.slots = p.live.slots + 1
      BY <1>4, <2>5, <3>1
    <3>4. q.live.slots <= MaxWorkers
      BY <2>6, <3>3, MaxWorkersAssumption
    <3> QED
      BY <3>2, <3>4
  <2> QED
    BY <1>1, <2>4, <2>5, <2>7 DEF Shape, T
<1> QED
  BY <1>1, <1>5, <1>6 DEF Move, q, task

\* Every decision is about an entry of its own.
Apart(p, queue, i) ==
  /\ \A k \in 1 .. Len(p.decisions) : \E j \in 1 .. i : p.decisions[k].task.task = queue[j].task
  /\ \A k, l \in 1 .. Len(p.decisions) :
       p.decisions[k].task.task = p.decisions[l].task.task => k = l

Distinct(queue) == \A j, l \in 1 .. Len(queue) : queue[j].task = queue[l].task => j = l

\* The canary: a cold entry is planned only if nothing like it runs or was planned.
HeldOk(p, running) ==
  /\ \A j \in 1 .. Len(running) : running[j].ident # None => running[j].ident \in p.held
  /\ \A k \in 1 .. Len(p.decisions) :
       p.decisions[k].task.ident # None => p.decisions[k].task.ident \in p.held

Canary(p, running) ==
  \A k \in 1 .. Len(p.decisions) :
    LET task == p.decisions[k].task IN
      task.cold /\ task.ident # None =>
        /\ \A j \in 1 .. Len(running) : running[j].ident # task.ident
        /\ \A l \in 1 .. k - 1 : p.decisions[l].task.ident # task.ident

(* An admission adds one decision at the end.                             *)
LEMMA AdmissionAppends ==
  ASSUME NEW S, NEW p, p.decisions \in Seq(S), NEW task, NEW g, NEW rule, NEW q,
         Admits(p, task, g, rule, q)
  PROVE  /\ Len(p.decisions) \in Nat /\ Len(q.decisions) = Len(p.decisions) + 1
         /\ \A k \in 1 .. Len(p.decisions) : q.decisions[k] = p.decisions[k]
         /\ q.decisions[Len(p.decisions) + 1] = [task |-> task, gpu |-> g, rule |-> rule]
<1> DEFINE d == [task |-> task, gpu |-> g, rule |-> rule]
           T == S \cup {d}
<1>1. q.decisions = Append(p.decisions, d)
  BY DEF Admits
<1>2. p.decisions \in Seq(T) /\ d \in T
  BY SeqMonotonic
<1> HIDE DEF d, T
<1>3. /\ Len(p.decisions) \in Nat /\ Len(q.decisions) = Len(p.decisions) + 1
      /\ \A k \in 1 .. Len(p.decisions) : q.decisions[k] = p.decisions[k]
      /\ q.decisions[Len(p.decisions) + 1] = d
  BY <1>1, <1>2, AppendProperties
<1> QED
  BY <1>3 DEF d

(* One task of the queue keeps the decisions about different tasks.       *)
LEMMA ApartStep ==
  ASSUME NEW p, NEW queue, Distinct(queue), NEW cap, NEW i \in Nat, i + 1 <= Len(queue),
         Len(queue) \in Nat, Shape(p, queue, cap, i), Apart(p, queue, i)
  PROVE  Apart(PlanStep(p, queue[i + 1]), queue, i + 1)
<1> DEFINE task == queue[i + 1]
           q == PlanStep(p, task)
           n == Len(p.decisions)
<1>1. Move(p, task, q)
  BY StepMoves DEF Shape
<1>2. n \in Nat
  BY DEF Shape
<1> HIDE DEF q
<1>3. CASE SamePlan(p, q)
  BY <1>3 DEF Apart, SamePlan, q
<1>4. ASSUME NEW g, NEW rule, Admits(p, task, g, rule, q) PROVE Apart(q, queue, i + 1)
  <2>1. /\ Len(q.decisions) = n + 1
        /\ \A k \in 1 .. n : q.decisions[k] = p.decisions[k]
        /\ q.decisions[n + 1].task = task
    <3>1. p.decisions \in Seq(DecisionsOf(FirstOf(queue, i)))
      BY DEF Shape
    <3> HIDE DEF task
    <3>2. /\ Len(q.decisions) = Len(p.decisions) + 1
          /\ \A k \in 1 .. Len(p.decisions) : q.decisions[k] = p.decisions[k]
          /\ q.decisions[Len(p.decisions) + 1] = [task |-> task, gpu |-> g, rule |-> rule]
      BY <1>4, <3>1, AdmissionAppends
    <3> QED
      BY <3>2
  <2>2. ASSUME NEW k \in 1 .. n PROVE q.decisions[k].task.task # task.task
    <3>1. PICK j \in 1 .. i : p.decisions[k].task.task = queue[j].task
      BY DEF Apart
    <3>2. j # i + 1 /\ j \in 1 .. Len(queue) /\ i + 1 \in 1 .. Len(queue)
      OBVIOUS
    <3> QED
      BY <2>1, <3>1, <3>2 DEF Distinct
  <2>3. \A k \in 1 .. Len(q.decisions) : k \in 1 .. n \/ k = n + 1
    BY <1>2, <2>1
  <2>4. \A k \in 1 .. Len(q.decisions) : \E j \in 1 .. i + 1 : q.decisions[k].task.task = queue[j].task
    <3> SUFFICES ASSUME NEW k \in 1 .. Len(q.decisions)
                 PROVE  \E j \in 1 .. i + 1 : q.decisions[k].task.task = queue[j].task
      OBVIOUS
    <3>1. CASE k \in 1 .. n
      <4>1. PICK j \in 1 .. i : p.decisions[k].task.task = queue[j].task
        BY <3>1 DEF Apart
      <4> QED
        BY <2>1, <3>1, <4>1
    <3>2. CASE k = n + 1
      BY <2>1, <3>2
    <3> QED
      BY <2>3, <3>1, <3>2
  <2>5. ASSUME NEW k \in 1 .. Len(q.decisions), NEW l \in 1 .. Len(q.decisions),
               q.decisions[k].task.task = q.decisions[l].task.task
        PROVE  k = l
    <3>1. CASE k \in 1 .. n /\ l \in 1 .. n
      BY <2>1, <2>5, <3>1 DEF Apart
    <3> QED
      BY <2>1, <2>2, <2>3, <2>5, <3>1
  <2> QED
    BY <2>4, <2>5 DEF Apart
<1> QED
  BY <1>1, <1>3, <1>4 DEF Move, q

(* The canary survives every entry: an admitted one is not held.            *)
LEMMA CanaryStep ==
  ASSUME NEW p, NEW queue, NEW cap, NEW running, NEW i \in Nat,
         Shape(p, queue, cap, i), HeldOk(p, running), Canary(p, running)
  PROVE  LET q == PlanStep(p, queue[i + 1]) IN HeldOk(q, running) /\ Canary(q, running)
<1> DEFINE task == queue[i + 1]
           q == PlanStep(p, task)
           n == Len(p.decisions)
<1>1. Move(p, task, q)
  BY StepMoves DEF Shape
<1>2. n \in Nat /\ p.decisions \in Seq(DecisionsOf(FirstOf(queue, i)))
  BY DEF Shape
<1> HIDE DEF q, task
<1>3. CASE SamePlan(p, q)
  BY <1>3 DEF HeldOk, Canary, SamePlan, q, task
<1>4. ASSUME NEW g, NEW rule, Admits(p, task, g, rule, q) PROVE HeldOk(q, running) /\ Canary(q, running)
  <2>1. /\ Len(q.decisions) = n + 1
        /\ \A k \in 1 .. n : q.decisions[k] = p.decisions[k]
        /\ q.decisions[n + 1].task = task
    <3>1. /\ Len(q.decisions) = Len(p.decisions) + 1
          /\ \A k \in 1 .. Len(p.decisions) : q.decisions[k] = p.decisions[k]
          /\ q.decisions[Len(p.decisions) + 1] = [task |-> task, gpu |-> g, rule |-> rule]
      BY <1>2, <1>4, AdmissionAppends
    <3> QED
      BY <3>1
  <2>2. q.held = HeldWith(p, task.ident) /\ ~ CanaryBlocked(p, task)
    BY <1>4 DEF Admits
  <2>3. \A k \in 1 .. Len(q.decisions) : k \in 1 .. n \/ k = n + 1
    BY <1>2, <2>1
  <2>4. HeldOk(q, running)
    BY <2>1, <2>2, <2>3 DEF HeldOk, HeldWith
  <2>5. Canary(q, running)
    <3> SUFFICES ASSUME NEW k \in 1 .. n + 1, q.decisions[k].task.cold,
                        q.decisions[k].task.ident # None
                 PROVE  /\ \A j \in 1 .. Len(running) :
                             running[j].ident # q.decisions[k].task.ident
                        /\ \A l \in 1 .. k - 1 :
                             q.decisions[l].task.ident # q.decisions[k].task.ident
      BY <2>1 DEF Canary
    <3>1. CASE k \in 1 .. n
      <4>1. \A l \in 1 .. k - 1 : l \in 1 .. n
        BY <1>2, <3>1
      <4> QED
        BY <2>1, <3>1, <4>1 DEF Canary
    <3>2. CASE k = n + 1
      <4>1. task.ident \notin p.held /\ task.ident # None
        BY <2>1, <2>2, <3>2 DEF CanaryBlocked
      <4>2. \A l \in 1 .. k - 1 : l \in 1 .. n
        BY <1>2, <3>2
      <4> QED
        BY <2>1, <3>2, <4>1, <4>2 DEF HeldOk
    <3> QED
      BY <2>3, <2>1, <3>1, <3>2
  <2> QED
    BY <2>4, <2>5
<1> QED
  BY <1>1, <1>3, <1>4 DEF Move, q, task

(* What had room has room in a larger pool.                                 *)
LEMMA RoomGrows ==
  ASSUME NEW s, NEW t, t.gated = s.gated, NEW need \in Int, NEW a \in Int, NEW b \in Int,
         a <= b, Room(s, need, a)
  PROVE  Room(t, need, b)
<1>1. CASE ~ s.gated
  BY <1>1, Zenon DEF Room
<1>2. CASE need < a
  <2>1. need < b
    BY <1>2
  <2> QED
    BY <2>1 DEF Room
<1> QED
  BY <1>1, <1>2, Zenon DEF Room

(* With nothing running, a head that does not fit is fenced by no finite    *)
(* reservation, and it would fit no better with anything placed first.      *)
LEMMA HeadBlocksAll ==
  ASSUME NEW cap, CapOk(cap), cap.slots = 0,
         NEW head, ~ head.excl, head.cpu \in Nat, head.mem \in Nat, head.vram \in Nat,
         ~ CanAdmitFront(Start(cap), head),
         NEW task, task.mem \in Nat, task.vram \in Nat, NEW g
  PROVE  ~ Harmless(Block(Start(cap), head), task, g)
<1> DEFINE s == Start(cap)
           p == Block(s, head)
           at == StateAt(p, p.reservation)
           held == Take(at, Use(task, g))
<1>1. Fields(s) /\ s.ends = {} /\ s.held = {}
      /\ s.live = [gated |-> cap.gated, mem |-> cap.mem, gpu |-> cap.gpu, slots |-> cap.slots]
      /\ s.freed = [t \in Instants |-> Nothing(DOMAIN cap.gpu)]
  BY DEF Start, Fields, CapOk
<1> HIDE DEF s
<1>2. /\ p.live = s.live /\ p.freed = s.freed /\ p.head = head
      /\ p.reservation = Reservation(s, head)
  <2>1. p = Block(s, head)
    BY DEF s
  <2>2. LET q == Block(s, head) IN
          /\ SamePlan(s, q) /\ q.head = head /\ q.freed = s.freed
          /\ q.reservation = Reservation(s, head)
    <3>1. Fields(s)
      BY <1>1
    <3>2. Block(s, head).reservation = Reservation(s, head)
      BY <3>1, BlockReserves
    <3>3. SamePlan(s, Block(s, head)) /\ Block(s, head).head = head /\ Block(s, head).freed = s.freed
      BY <3>1, BlockEffect
    <3> QED
      BY <3>2, <3>3
  <2> QED
    BY <2>1, <2>2 DEF SamePlan
<1>3. Reservation(s, head) = Never
  BY <1>1 DEF Reservation, ReservationTimes
<1>4. ~ Short(p, task)
  BY <1>2, <1>3, NeverAssumption DEF Short
<1> HIDE DEF p
<1>5. p.freed[Never] = Nothing(DOMAIN cap.gpu)
  BY <1>1, <1>2, NeverAssumption DEF Instants
<1>6. /\ at.gated = cap.gated /\ at.mem = cap.mem /\ at.slots = 0
      /\ DOMAIN at.gpu = DOMAIN cap.gpu
      /\ \A h \in DOMAIN cap.gpu : at.gpu[h] = cap.gpu[h]
  BY <1>1, <1>2, <1>3, <1>5 DEF StateAt, Plus, Nothing, CapOk
<1> HIDE DEF at
<1>7. /\ held.gated = cap.gated /\ held.mem = cap.mem - task.mem /\ held.slots = 1
      /\ DOMAIN held.gpu = DOMAIN cap.gpu
      /\ \A h \in DOMAIN cap.gpu : held.gpu[h] = cap.gpu[h] \/ held.gpu[h] = cap.gpu[h] - task.vram
  BY <1>6 DEF Take, Use
<1> HIDE DEF held
<1>8. ASSUME Fits(held, head) PROVE FALSE
  <2>1. FitsGpu(s.live, head)
    <3>1. CASE ~ (head.vram > 0)
      BY <3>1 DEF FitsGpu
    <3>2. CASE head.vram > 0
      <4>1. PICK h \in DOMAIN cap.gpu : Room(held, head.vram, held.gpu[h])
        BY <1>7, <1>8, <3>2 DEF Fits, FitsGpu
      <4>2. held.gpu[h] \in Int /\ cap.gpu[h] \in Int /\ held.gpu[h] <= cap.gpu[h]
        BY <1>7 DEF CapOk
      <4>3. Room(s.live, head.vram, s.live.gpu[h])
        BY <1>1, <1>7, <4>1, <4>2, RoomGrows
      <4> QED
        BY <1>1, <4>3 DEF FitsGpu
    <3> QED
      BY <3>1, <3>2
  <2>2. FitsNonGpu(s.live, head)
    <3>1. EffectiveMax(s.live, head) = EffectiveMax(held, head)
      BY <1>1, <1>7 DEF EffectiveMax
    <3>2. s.live.slots = 0 /\ held.slots = 1
      BY <1>1, <1>7
    <3>3. held.slots < MaxWorkers /\ held.slots < EffectiveMax(held, head)
      BY <1>8 DEF Fits, FitsNonGpu
    <3>6. EffectiveMax(held, head) \in Int
      BY MaxWorkersAssumption DEF EffectiveMax
    <3>4. s.live.slots < MaxWorkers /\ s.live.slots < EffectiveMax(s.live, head)
      BY <3>1, <3>2, <3>3, <3>6, MaxWorkersAssumption
    <3>5. Room(s.live, head.mem, s.live.mem)
      <4>1. Room(held, head.mem, held.mem)
        BY <1>8 DEF Fits, FitsNonGpu
      <4>2. /\ held.mem \in Int /\ cap.mem \in Int /\ held.mem <= cap.mem
            /\ s.live.mem = cap.mem /\ s.live.gated = held.gated
        BY <1>1, <1>7 DEF CapOk
      <4> QED
        BY <4>1, <4>2, RoomGrows
    <3> QED
      BY <3>4, <3>5 DEF FitsNonGpu
  <2>3. ~ CanaryBlocked(s, head)
    BY <1>1 DEF CanaryBlocked
  <2> QED
    BY <2>1, <2>2, <2>3 DEF CanAdmitFront, Fits, s
<1>9. ~ HeadStillFitsWithHold(p, task, g)
  BY <1>2, <1>8 DEF HeadStillFitsWithHold, held, at
<1> QED
  BY <1>4, <1>9 DEF Harmless, p, s

\* An exclusive occupant closes the cycle; an exclusive entry is planned alone, with
\* nothing running.
AloneOk(p, running, cap) ==
  /\ (\E j \in 1 .. Len(running) : running[j].excl) => p.phase = "closed" /\ p.decisions = <<>>
  /\ (\E k \in 1 .. Len(p.decisions) : p.decisions[k].task.excl) =>
       p.phase = "closed" /\ Len(p.decisions) = 1 /\ cap.slots = 0

\* A head that does not fit an empty machine.
Unfit(head, cap) ==
  /\ ~ head.excl /\ ~ CanAdmitFront(Start(cap), head)
  /\ head.cpu \in Nat /\ head.mem \in Nat /\ head.vram \in Nat

\* While nothing runs and nothing is planned, the cycle is at its start or behind such a head.
IdleOk(p, cap) ==
  p.live.slots = 0 =>
    /\ p.phase = "front" => p = Start(cap)
    /\ p.phase = "backfill" => \E head : Unfit(head, cap) /\ p = Block(Start(cap), head)

(* An exclusive entry is admitted from the front with nothing running.      *)
LEMMA ExclusiveFromFront ==
  ASSUME NEW p, NEW cap, CapOk(cap), p.live.slots = cap.slots + Len(p.decisions),
         Len(p.decisions) \in Nat, IdleOk(p, cap), NEW task, task.excl,
         task.mem \in Nat, task.vram \in Nat, FitsNonGpu(p.live, task)
  PROVE  /\ cap.slots = 0 /\ Len(p.decisions) = 0 /\ p.live.slots = 0
         /\ p.phase = "backfill" => \A g : ~ Harmless(p, task, g)
<1>1. p.live.slots = 0
  BY DEF FitsNonGpu
<1>2. cap.slots = 0 /\ Len(p.decisions) = 0
  <2>1. cap.slots \in Nat
    BY DEF CapOk
  <2> QED
    BY <1>1, <2>1
<1>3. ASSUME p.phase = "backfill", NEW g PROVE ~ Harmless(p, task, g)
  <2>1. PICK head : Unfit(head, cap) /\ p = Block(Start(cap), head)
    BY <1>1, <1>3 DEF IdleOk
  <2>2. /\ ~ head.excl /\ ~ CanAdmitFront(Start(cap), head)
        /\ head.cpu \in Nat /\ head.mem \in Nat /\ head.vram \in Nat
    BY <2>1 DEF Unfit
  <2> QED
    BY <1>2, <2>1, <2>2, HeadBlocksAll
<1> QED
  BY <1>1, <1>2, <1>3

(* One task of the queue keeps the exclusive ones alone.                  *)
LEMMA AloneStep ==
  ASSUME NEW p, NEW queue, EntriesOk(queue), NEW cap, CapOk(cap), NEW running, NEW i \in Nat,
         i + 1 <= Len(queue), Len(queue) \in Nat,
         Shape(p, queue, cap, i), AloneOk(p, running, cap), IdleOk(p, cap)
  PROVE  LET q == PlanStep(p, queue[i + 1]) IN AloneOk(q, running, cap) /\ IdleOk(q, cap)
<1> DEFINE task == queue[i + 1]
           q == PlanStep(p, task)
           n == Len(p.decisions)
<1>1. /\ Fields(p) /\ p.phase \in Phases /\ p.decisions \in Seq(DecisionsOf(FirstOf(queue, i)))
      /\ n \in Nat /\ p.live.slots = cap.slots + n /\ cap.slots \in Nat
  BY DEF Shape, CapOk
<1>2. task.mem \in Nat /\ task.vram \in Nat /\ task.cpu \in Nat
  <2>1. i + 1 \in 1 .. Len(queue)
    OBVIOUS
  <2> QED
    BY <2>1 DEF EntriesOk
<1> HIDE DEF task
<1>3. q.phase \in Phases /\ (p.phase = "closed" => q = p)
  BY <1>1, StepMoves
<1>4. CASE q = p
  BY <1>4 DEF task
<1>5. ASSUME NEW g, NEW rule, Admits(p, task, g, rule, q), p.phase # "closed",
             task.excl => q.phase = "closed" /\ cap.slots = 0 /\ n = 0
      PROVE  AloneOk(q, running, cap) /\ IdleOk(q, cap)
  <2>1. /\ Len(q.decisions) = n + 1
        /\ \A k \in 1 .. n : q.decisions[k] = p.decisions[k]
        /\ q.decisions[n + 1].task = task
    <3>1. /\ Len(q.decisions) = Len(p.decisions) + 1
          /\ \A k \in 1 .. Len(p.decisions) : q.decisions[k] = p.decisions[k]
          /\ q.decisions[Len(p.decisions) + 1] = [task |-> task, gpu |-> g, rule |-> rule]
      BY <1>1, <1>5, AdmissionAppends
    <3> QED
      BY <3>1
  <2>2. ~ \E j \in 1 .. Len(running) : running[j].excl
    BY <1>5 DEF AloneOk
  <2>3. ~ \E k \in 1 .. n : q.decisions[k].task.excl
    BY <1>5, <2>1 DEF AloneOk
  <2>4. \A k \in 1 .. Len(q.decisions) : k \in 1 .. n \/ k = n + 1
    BY <1>1, <2>1
  <2>5. ASSUME NEW k \in 1 .. Len(q.decisions), q.decisions[k].task.excl
        PROVE  q.phase = "closed" /\ Len(q.decisions) = 1 /\ cap.slots = 0
    <3>1. k = n + 1
      BY <2>3, <2>4, <2>5
    <3>2. task.excl
      BY <2>1, <2>5, <3>1
    <3> QED
      BY <1>5, <2>1, <3>2
  <2>6. AloneOk(q, running, cap)
    BY <2>2, <2>5 DEF AloneOk
  <2>7. q.live.slots # 0
    <3>1. q.live.slots = p.live.slots + 1
      BY <1>5 DEF Admits, Take
    <3> QED
      BY <1>1, <3>1
  <2> QED
    BY <2>6, <2>7 DEF IdleOk
<1>6. CASE p.phase = "front" /\ CanAdmitFront(p, task)
  <2>1. q = AdmitFront(p, task)
    BY <1>6 DEF PlanStep
  <2>2. PICK g : Admits(p, task, g, "front", q)
    BY <1>1, <1>6, <2>1, FrontAdmits
  <2>3. q.phase = IF task.excl THEN "closed" ELSE "front"
    BY <1>1, <1>6, <2>1, FrontAdmits
  <2>4. FitsNonGpu(p.live, task)
    BY <1>6 DEF CanAdmitFront, Fits
  <2>5. task.excl => cap.slots = 0 /\ n = 0
    BY <1>1, <1>2, <2>4, ExclusiveFromFront
  <2> HIDE DEF q
  <2>6. task.excl => q.phase = "closed"
    BY <2>3
  <2> QED
    BY <1>5, <1>6, <2>2, <2>5, <2>6 DEF q, task
<1>7. CASE p.phase = "front" /\ ~ CanAdmitFront(p, task)
  <2>1. q = Block(p, task)
    BY <1>7 DEF PlanStep
  <2>2. SamePlan(p, q)
    BY <1>1, <2>1, BlockEffect
  <2>3. q.phase = IF task.excl THEN "closed" ELSE "backfill"
    BY <1>1, <2>1, BlockEffect
  <2> HIDE DEF q
  <2>4. q.phase # "front" /\ (q.phase = "backfill" => ~ task.excl)
    BY <2>3
  <2>5. ~ (\E j \in 1 .. Len(running) : running[j].excl)
        /\ ~ \E k \in 1 .. Len(q.decisions) : q.decisions[k].task.excl
    BY <1>7, <2>2 DEF AloneOk, SamePlan
  <2>6. AloneOk(q, running, cap)
    BY <2>5 DEF AloneOk
  <2>7. ASSUME q.live.slots = 0, q.phase = "backfill"
        PROVE  \E head : Unfit(head, cap) /\ q = Block(Start(cap), head)
    <3>1. p = Start(cap)
      BY <1>7, <2>2, <2>7 DEF IdleOk, SamePlan
    <3>2. Unfit(task, cap)
      BY <1>2, <1>7, <2>4, <2>7, <3>1 DEF Unfit
    <3> QED
      BY <2>1, <3>1, <3>2
  <2>8. IdleOk(q, cap)
    BY <2>4, <2>7 DEF IdleOk
  <2> QED
    BY <2>6, <2>8 DEF q, task
<1>8. CASE p.phase = "backfill" /\ CanBackfill(p, task)
  <2>1. q = AdmitBackfill(p, task)
    BY <1>8 DEF PlanStep
  <2>2. PICK g, rule : Admits(p, task, g, rule, q) /\ Harmless(p, task, g)
    BY <1>1, <1>8, <2>1, BackfillAdmits
  <2>3. FitsNonGpu(p.live, task)
    BY <1>8 DEF CanBackfill
  <2>4. ~ task.excl
    BY <1>1, <1>2, <1>8, <2>2, <2>3, ExclusiveFromFront
  <2> QED
    BY <1>5, <1>8, <2>2, <2>4 DEF task
<1>9. CASE p.phase = "backfill" /\ ~ CanBackfill(p, task)
  <2>1. q = p
    BY <1>9 DEF PlanStep
  <2> QED
    BY <1>4, <2>1
<1> QED
  BY <1>1, <1>3, <1>4, <1>6, <1>7, <1>8, <1>9 DEF Phases, task

-----------------------------------------------------------------------------
(* Sums over finite sets.                                                   *)

\* The sum of the values of f over S.
Total(f, S) == MapThenSumSet(LAMBDA t : f[t], S)

Some(s) == CHOOSE x \in s : TRUE
Summed(f, S, it) == it = [s \in SUBSET S |-> IF s = {} THEN 0 ELSE f[Some(s)] + it[s \ {Some(s)}]]
\* The same on the subsets of at most n elements.
SummedTo(f, S, n, it) ==
  it = [s \in {u \in SUBSET S : Cardinality(u) <= n} |->
          IF s = {} THEN 0 ELSE f[Some(s)] + it[s \ {Some(s)}]]

(* The element Some names, and the set without it.                        *)
LEMMA SomeElement ==
  ASSUME NEW S, IsFiniteSet(S), NEW s \in SUBSET S, s # {}
  PROVE  /\ Some(s) \in s /\ IsFiniteSet(s) /\ IsFiniteSet(s \ {Some(s)})
         /\ Cardinality(s) \in Nat /\ Cardinality(s) >= 1
         /\ Cardinality(s \ {Some(s)}) = Cardinality(s) - 1
<1>1. Some(s) \in s
  BY DEF Some
<1>2. IsFiniteSet(s) /\ Cardinality(s) \in Nat
  BY FS_Subset, FS_CardinalityType
<1>3. Cardinality(s) # 0
  BY <1>2, FS_EmptySet
<1> QED
  BY <1>1, <1>2, <1>3, FS_RemoveElement

(* The sums of the sets of at most m elements exist, by induction on m.   *)
LEMMA SummedToExists ==
  ASSUME NEW f, NEW S, IsFiniteSet(S), NEW m \in Nat
  PROVE  \E it : SummedTo(f, S, m, it)
<1> DEFINE N == {n \in Nat : \E it : SummedTo(f, S, n, it)}
           Upto(n) == {u \in SUBSET S : Cardinality(u) <= n}
           Value(it, s) == IF s = {} THEN 0 ELSE f[Some(s)] + it[s \ {Some(s)}]
<1>1. 0 \in N
  <2> DEFINE it == [s \in Upto(0) |-> 0]
  <2>1. ASSUME NEW s \in Upto(0) PROVE s = {}
    <3>1. SUFFICES ASSUME s # {} PROVE FALSE
      OBVIOUS
    <3>2. Cardinality(s) \in Nat /\ Cardinality(s) >= 1
      BY <3>1, SomeElement
    <3> QED
      BY <3>2
  <2>2. it = [s \in Upto(0) |-> Value(it, s)]
    BY <2>1
  <2>3. SummedTo(f, S, 0, it)
    BY <2>2 DEF SummedTo
  <2> QED
    BY <2>3
<1>2. ASSUME NEW n \in Nat, n \in N PROVE n + 1 \in N
  <2>1. PICK it : SummedTo(f, S, n, it)
    BY <1>2
  <2> DEFINE jt == [s \in Upto(n + 1) |-> Value(it, s)]
  <2>2. it = [s \in Upto(n) |-> Value(it, s)]
    BY <2>1 DEF SummedTo
  <2>3. ASSUME NEW s \in Upto(n + 1) PROVE jt[s] = Value(jt, s)
    <3>1. CASE s = {}
      BY <3>1
    <3>2. CASE s # {}
      <4> DEFINE u == s \ {Some(s)}
      <4>1. u \in SUBSET S /\ Cardinality(u) = Cardinality(s) - 1 /\ Cardinality(s) \in Nat
        BY <3>2, SomeElement
      <4>2. u \in Upto(n) /\ u \in Upto(n + 1)
        BY <4>1
      <4>3. it[u] = Value(it, u)
        BY <2>2, <4>2
      <4>4. jt[u] = Value(it, u)
        BY <4>2
      <4>5. jt[s] = Value(it, s)
        OBVIOUS
      <4> QED
        BY <3>2, <4>3, <4>4, <4>5
    <3> QED
      BY <3>1, <3>2
  <2>4. SummedTo(f, S, n + 1, jt)
    <3>1. jt = [s \in Upto(n + 1) |-> Value(jt, s)]
      BY <2>3
    <3> HIDE DEF jt
    <3> QED
      BY <3>1 DEF SummedTo
  <2> HIDE DEF jt
  <2>5. n + 1 \in Nat /\ \E kt : SummedTo(f, S, n + 1, kt)
    BY <2>4
  <2> QED
    BY <2>5
<1> HIDE DEF N
<1>3. m \in N
  BY <1>1, <1>2, EveryNumberIsReached
<1> QED
  BY <1>3 DEF N

(* The recursion over the subsets of a finite set defines a function.     *)
LEMMA SummedExists ==
  ASSUME NEW f, NEW S, IsFiniteSet(S)
  PROVE  \E it : Summed(f, S, it)
<1> DEFINE n == Cardinality(S)
<1>1. n \in Nat /\ \A s \in SUBSET S : Cardinality(s) <= n
  BY FS_CardinalityType, FS_Subset
<1>2. PICK it : SummedTo(f, S, n, it)
  BY <1>1, SummedToExists
<1>3. {u \in SUBSET S : Cardinality(u) <= n} = SUBSET S
  BY <1>1
<1>4. Summed(f, S, it)
  BY <1>2, <1>3 DEF Summed, SummedTo
<1> QED
  BY <1>4

\* Every sum is one value of every summation that covers the set.
LEMMA SummedAgree ==
  ASSUME NEW f, NEW S, NEW T, IsFiniteSet(S), IsFiniteSet(T),
         NEW it, Summed(f, S, it), NEW jt, Summed(f, T, jt)
  PROVE  \A s \in SUBSET (S \cap T) : it[s] = jt[s]
<1> DEFINE N == {n \in Nat : \A s \in SUBSET (S \cap T) : Cardinality(s) <= n => it[s] = jt[s]}
<1>1. ASSUME NEW s \in SUBSET (S \cap T)
      PROVE  /\ it[s] = IF s = {} THEN 0 ELSE f[Some(s)] + it[s \ {Some(s)}]
             /\ jt[s] = IF s = {} THEN 0 ELSE f[Some(s)] + jt[s \ {Some(s)}]
  BY DEF Summed
<1>2. 0 \in N
  <2>1. ASSUME NEW s \in SUBSET (S \cap T), Cardinality(s) <= 0 PROVE s = {}
    <3>1. SUFFICES ASSUME s # {} PROVE FALSE
      OBVIOUS
    <3>2. Cardinality(s) \in Nat /\ Cardinality(s) >= 1
      BY <3>1, SomeElement
    <3> QED
      BY <2>1, <3>2
  <2> QED
    BY <2>1, <1>1
<1>3. ASSUME NEW n \in Nat, n \in N PROVE n + 1 \in N
  <2>1. ASSUME NEW s \in SUBSET (S \cap T), Cardinality(s) <= n + 1, s # {} PROVE it[s] = jt[s]
    <3>1. s \ {Some(s)} \in SUBSET (S \cap T) /\ Cardinality(s \ {Some(s)}) <= n
      BY <2>1, SomeElement
    <3>2. it[s \ {Some(s)}] = jt[s \ {Some(s)}]
      BY <1>3, <3>1
    <3> QED
      BY <1>1, <2>1, <3>2
  <2>2. ASSUME NEW s \in SUBSET (S \cap T), s = {} PROVE it[s] = jt[s]
    BY <1>1, <2>2
  <2> QED
    BY <2>1, <2>2
<1> HIDE DEF N
<1>4. \A n \in Nat : n \in N
  BY <1>2, <1>3, EveryNumberIsReached
<1>5. ASSUME NEW s \in SUBSET (S \cap T) PROVE it[s] = jt[s]
  <2>1. Cardinality(s) \in Nat
    BY FS_Subset, FS_CardinalityType
  <2>2. Cardinality(s) \in N
    BY <1>4, <2>1
  <2> QED
    BY <2>1, <2>2 DEF N
<1> QED
  BY <1>5

(* Every function that satisfies the recursion yields the total.          *)
LEMMA TotalIsSummed ==
  ASSUME NEW f, NEW S, IsFiniteSet(S), NEW it, Summed(f, S, it), NEW T \in SUBSET S
  PROVE  Total(f, T) = it[T]
<1> DEFINE jt == CHOOSE kt : Summed(f, T, kt)
<1>1. IsFiniteSet(T)
  BY FS_Subset
<1>2. Summed(f, T, jt)
  BY <1>1, SummedExists
<1>3. Total(f, T) = jt[T]
  BY DEF Total, MapThenSumSet, MapThenFoldSet, Summed, Some
<1> HIDE DEF jt
<1>4. T \in SUBSET (S \cap T)
  OBVIOUS
<1>5. it[T] = jt[T]
  BY <1>1, <1>2, <1>4, SummedAgree
<1> QED
  BY <1>3, <1>5

(* A sum adds up whichever element comes first.                             *)
LEMMA TotalOfEmpty == ASSUME NEW f PROVE Total(f, {}) = 0
<1>1. IsFiniteSet({})
  BY FS_EmptySet
<1>2. PICK it : Summed(f, {}, it)
  BY <1>1, SummedExists
<1>3. Total(f, {}) = it[{}]
  BY <1>1, <1>2, TotalIsSummed
<1>4. it[{}] = 0
  BY <1>2 DEF Summed
<1> QED
  BY <1>3, <1>4

\* The first element a sum takes is one of them; the rest is summed alike.
LEMMA TotalUnfolds ==
  ASSUME NEW f, NEW S, IsFiniteSet(S), S # {}
  PROVE  Total(f, S) = f[Some(S)] + Total(f, S \ {Some(S)})
<1>1. PICK it : Summed(f, S, it)
  BY SummedExists
<1>2. Total(f, S) = it[S] /\ Total(f, S \ {Some(S)}) = it[S \ {Some(S)}]
  BY <1>1, TotalIsSummed
<1>3. it[S] = f[Some(S)] + it[S \ {Some(S)}]
  BY <1>1 DEF Summed
<1> QED
  BY <1>2, <1>3

(* The sum of naturals is one, and any element can be taken out of it.      *)
LEMMA TotalRemoves ==
  ASSUME NEW f, NEW S, IsFiniteSet(S), \A x \in S : f[x] \in Nat
  PROVE  Total(f, S) \in Nat /\ \A x \in S : Total(f, S) = f[x] + Total(f, S \ {x})
<1> DEFINE Good(s) == Total(f, s) \in Nat /\ \A x \in s : Total(f, s) = f[x] + Total(f, s \ {x})
           N == {n \in Nat : \A s \in SUBSET S : Cardinality(s) <= n => Good(s)}
<1>0. Good({})
  BY TotalOfEmpty
<1>1. 0 \in N
  <2>1. ASSUME NEW s \in SUBSET S, Cardinality(s) <= 0 PROVE s = {}
    <3>1. SUFFICES ASSUME s # {} PROVE FALSE
      OBVIOUS
    <3>2. Cardinality(s) \in Nat /\ Cardinality(s) >= 1
      BY <3>1, SomeElement
    <3> QED
      BY <2>1, <3>2
  <2> HIDE DEF Good
  <2> QED
    BY <1>0, <2>1
<1>2. ASSUME NEW n \in Nat, n \in N PROVE n + 1 \in N
  <2> SUFFICES ASSUME NEW s \in SUBSET S, Cardinality(s) <= n + 1, s # {} PROVE Good(s)
    BY <1>0
  <2> DEFINE y == Some(s)
             r == s \ {y}
  <2>1. /\ y \in s /\ IsFiniteSet(s) /\ r \in SUBSET S /\ IsFiniteSet(r)
        /\ Cardinality(s) \in Nat /\ Cardinality(r) = Cardinality(s) - 1
    BY SomeElement
  <2>2. Total(f, s) = f[y] + Total(f, r)
    BY <2>1, TotalUnfolds
  <2> HIDE DEF y
  <2>3. Cardinality(r) <= n
    BY <2>1
  <2>4. Good(r)
    BY <1>2, <2>1, <2>3
  <2>5. Total(f, s) \in Nat
    BY <2>1, <2>2, <2>4
  <2>6. ASSUME NEW x \in s, x # y PROVE Total(f, s) = f[x] + Total(f, s \ {x})
    <3> DEFINE u == s \ {x}
               v == r \ {x}
    <3>1. Total(f, r) = f[x] + Total(f, v)
      BY <2>4, <2>6
    <3>2. u \in SUBSET S /\ y \in u /\ Cardinality(u) <= n
      <4>1. Cardinality(s \ {x}) = Cardinality(s) - 1
        BY <2>1, FS_RemoveElement
      <4> QED
        BY <2>1, <2>6, <4>1
    <3>3. Good(u)
      BY <1>2, <3>2
    <3>4. u \ {y} = v
      OBVIOUS
    <3>5. Total(f, u) = f[y] + Total(f, v)
      BY <3>2, <3>3, <3>4
    <3>6. v \in SUBSET S /\ Cardinality(v) <= n
      <4>1. Cardinality(v) \in Nat /\ Cardinality(v) <= Cardinality(r) /\ Cardinality(r) \in Nat
        BY <2>1, FS_Subset, FS_CardinalityType
      <4> QED
        BY <2>3, <4>1
    <3>7. Total(f, v) \in Nat
      BY <1>2, <3>6
    <3>8. f[x] \in Nat /\ f[y] \in Nat
      BY <2>1
    <3> QED
      BY <2>2, <3>1, <3>5, <3>7, <3>8
  <2> QED
    BY <2>2, <2>5, <2>6
<1> HIDE DEF N
<1>3. \A n \in Nat : n \in N
  BY <1>1, <1>2, EveryNumberIsReached
<1>4. Cardinality(S) \in Nat
  BY FS_CardinalityType
<1>5. Cardinality(S) \in N
  BY <1>3, <1>4
<1>6. Cardinality(S) <= Cardinality(S) /\ S \in SUBSET S
  BY <1>4
<1>7. Good(S)
  BY <1>5, <1>6 DEF N
<1> QED
  BY <1>7

(* A part of a set of naturals adds up to no more than the whole.           *)
LEMMA TotalGrows ==
  ASSUME NEW f, NEW S, IsFiniteSet(S), \A x \in S : f[x] \in Nat, NEW T \in SUBSET S
  PROVE  Total(f, T) <= Total(f, S)
<1> DEFINE N == {n \in Nat : \A s \in SUBSET S :
                   Cardinality(s) <= n /\ T \subseteq s => Total(f, T) <= Total(f, s)}
<1>0. \A s \in SUBSET S : IsFiniteSet(s) /\ Cardinality(s) \in Nat /\ Total(f, s) \in Nat
  BY FS_Subset, FS_CardinalityType, TotalRemoves
<1>1. 0 \in N
  <2> SUFFICES ASSUME NEW s \in SUBSET S, Cardinality(s) <= 0, T \subseteq s
               PROVE  Total(f, T) <= Total(f, s)
    OBVIOUS
  <2>1. s = {}
    <3>1. Cardinality(s) = 0
      BY <1>0
    <3> QED
      BY <1>0, <3>1, FS_EmptySet
  <2>2. T = s
    BY <2>1
  <2> QED
    BY <1>0, <2>2
<1>2. ASSUME NEW n \in Nat, n \in N PROVE n + 1 \in N
  <2> SUFFICES ASSUME NEW s \in SUBSET S, Cardinality(s) <= n + 1, T \subseteq s
               PROVE  Total(f, T) <= Total(f, s)
    OBVIOUS
  <2>1. CASE T = s
    BY <1>0, <2>1
  <2>2. CASE T # s
    <3>1. PICK x \in s : x \notin T
      BY <2>2
    <3>2. s \ {x} \in SUBSET S /\ T \subseteq s \ {x} /\ Cardinality(s \ {x}) <= n
      BY <1>0, <3>1, FS_RemoveElement
    <3>3. Total(f, T) <= Total(f, s \ {x})
      BY <1>2, <3>2
    <3>4. Total(f, s) = f[x] + Total(f, s \ {x}) /\ f[x] \in Nat
      BY <1>0, <3>1, TotalRemoves
    <3> QED
      BY <1>0, <3>2, <3>3, <3>4
  <2> QED
    BY <2>1, <2>2
<1> HIDE DEF N
<1>3. \A n \in Nat : n \in N
  BY <1>1, <1>2, EveryNumberIsReached
<1>5. Cardinality(S) \in N /\ Cardinality(S) <= Cardinality(S) /\ S \in SUBSET S
  BY <1>0, <1>3
<1> QED
  BY <1>5 DEF N

(* A sum depends on the values it adds up only.                             *)
LEMMA TotalsAgree ==
  ASSUME NEW f, NEW h, NEW S, IsFiniteSet(S), \A x \in S : f[x] \in Nat /\ h[x] = f[x]
  PROVE  Total(h, S) = Total(f, S)
<1> DEFINE N == {n \in Nat : \A s \in SUBSET S : Cardinality(s) <= n => Total(h, s) = Total(f, s)}
<1>0. \A s \in SUBSET S : IsFiniteSet(s) /\ Cardinality(s) \in Nat
  BY FS_Subset, FS_CardinalityType
<1>1. 0 \in N
  <2> SUFFICES ASSUME NEW s \in SUBSET S, Cardinality(s) <= 0 PROVE Total(h, s) = Total(f, s)
    OBVIOUS
  <2>1. Cardinality(s) = 0
    BY <1>0
  <2>2. s = {}
    BY <1>0, <2>1, FS_EmptySet
  <2> QED
    BY <2>2, TotalOfEmpty
<1>2. ASSUME NEW n \in Nat, n \in N PROVE n + 1 \in N
  <2> SUFFICES ASSUME NEW s \in SUBSET S, Cardinality(s) <= n + 1, s # {}
               PROVE  Total(h, s) = Total(f, s)
    BY TotalOfEmpty
  <2>1. /\ Some(s) \in s /\ s \ {Some(s)} \in SUBSET S /\ Cardinality(s \ {Some(s)}) <= n
    BY <1>0, SomeElement
  <2>2. Total(h, s \ {Some(s)}) = Total(f, s \ {Some(s)})
    BY <1>2, <2>1
  <2> QED
    BY <1>0, <2>1, <2>2, TotalUnfolds
<1> HIDE DEF N
<1>3. \A n \in Nat : n \in N
  BY <1>1, <1>2, EveryNumberIsReached
<1>5. Cardinality(S) \in N /\ Cardinality(S) <= Cardinality(S) /\ S \in SUBSET S
  BY <1>0, <1>3
<1> QED
  BY <1>5 DEF N

(* The sum over two disjoint sets.                                          *)
LEMMA TotalOfUnion ==
  ASSUME NEW f, NEW S, IsFiniteSet(S), \A x \in S : f[x] \in Nat,
         NEW T \in SUBSET S, NEW U \in SUBSET S, T \cap U = {}
  PROVE  Total(f, T \cup U) = Total(f, T) + Total(f, U)
<1> DEFINE N == {n \in Nat : \A s \in SUBSET U :
                   Cardinality(s) <= n => Total(f, T \cup s) = Total(f, T) + Total(f, s)}
<1>0. \A s \in SUBSET S : IsFiniteSet(s) /\ Cardinality(s) \in Nat /\ Total(f, s) \in Nat
  BY FS_Subset, FS_CardinalityType, TotalRemoves
<1>1. ASSUME NEW s \in SUBSET U, Cardinality(s) <= 0
      PROVE  Total(f, T \cup s) = Total(f, T) + Total(f, s)
  <2>1. s = {}
    <3>1. Cardinality(s) = 0
      BY <1>0, <1>1
    <3> QED
      BY <1>0, <3>1, FS_EmptySet
  <2>2. T \cup s = T /\ Total(f, s) = 0 /\ Total(f, T) \in Nat
    BY <1>0, <2>1, TotalOfEmpty
  <2> QED
    BY <2>2
<1>2. ASSUME NEW n \in Nat, n \in N PROVE n + 1 \in N
  <2> SUFFICES ASSUME NEW s \in SUBSET U, Cardinality(s) <= n + 1
               PROVE  Total(f, T \cup s) = Total(f, T) + Total(f, s)
    OBVIOUS
  <2>1. CASE s = {}
    <3>1. Cardinality(s) <= 0
      BY <2>1, FS_EmptySet
    <3> QED
      BY <1>1, <3>1
  <2>2. CASE s # {}
    <3>1. PICK x \in s : TRUE
      BY <2>2
    <3> DEFINE r == s \ {x}
    <3>2. r \in SUBSET U /\ r \in SUBSET S /\ s \in SUBSET S /\ T \cup r \in SUBSET S
          /\ T \cup s \in SUBSET S
      OBVIOUS
    <3>3. Cardinality(r) <= n
      <4>1. Cardinality(r) = Cardinality(s) - 1 /\ Cardinality(s) \in Nat
        BY <1>0, <3>1, <3>2, FS_RemoveElement
      <4> QED
        BY <4>1
    <3>4. Total(f, T \cup r) = Total(f, T) + Total(f, r)
      BY <1>2, <3>2, <3>3
    <3>5. Total(f, s) = f[x] + Total(f, r) /\ f[x] \in Nat
      BY <1>0, <3>1, <3>2, TotalRemoves
    <3>6. (T \cup s) \ {x} = T \cup r /\ x \in T \cup s
      BY <3>1
    <3>7. Total(f, T \cup s) = f[x] + Total(f, T \cup r)
      BY <1>0, <3>2, <3>6, TotalRemoves
    <3>8. Total(f, T) \in Nat /\ Total(f, r) \in Nat
      BY <1>0, <3>2
    <3> HIDE DEF r
    <3> QED
      BY <3>4, <3>5, <3>7, <3>8
  <2> QED
    BY <2>1, <2>2
<1>3. 0 \in N
  BY <1>1
<1> HIDE DEF N
<1>4. Cardinality(U) \in N /\ Cardinality(U) <= Cardinality(U) /\ U \in SUBSET U
  <2>1. Cardinality(U) \in Nat
    BY <1>0
  <2> QED
    BY <1>2, <1>3, <2>1, EveryNumberIsReached
<1> QED
  BY <1>4 DEF N

(* A finite set in some order: every element once.                          *)
LEMMA OrderedOnce ==
  ASSUME NEW S, IsFiniteSet(S)
  PROVE  /\ SetToSeq(S) \in Seq(S) /\ Len(SetToSeq(S)) = Cardinality(S) /\ Cardinality(S) \in Nat
         /\ \A x \in S : \E i \in 1 .. Cardinality(S) : SetToSeq(S)[i] = x
<1> DEFINE n == Cardinality(S)
           q == CHOOSE f \in [1 .. n -> S] : IsInjective(f)
<1>1. n \in Nat /\ IsFiniteSet(1 .. n) /\ Cardinality(1 .. n) = n
  BY FS_CardinalityType, FS_Interval
<1>2. \E f \in [1 .. n -> S] : IsInjective(f)
  BY FS_CardinalityType DEF ExistsBijection, Bijection, Injection
<1>3. q \in [1 .. n -> S] /\ IsInjective(q)
  BY <1>2
<1>4. SetToSeq(S) = q
  BY DEF SetToSeq
<1> HIDE DEF q
<1>5. q \in Injection(1 .. n, S)
  BY <1>3 DEF Injection
<1>6. q \in Surjection(1 .. n, S)
  BY <1>1, <1>5, FS_Injection
<1>7. q \in Seq(S) /\ Len(q) = n
  BY <1>1, <1>3
<1> QED
  BY <1>1, <1>4, <1>6, <1>7 DEF Surjection

-----------------------------------------------------------------------------
(* The budget: what is planned is taken from the capacity.                  *)

\* The ids of the planned entries, and of those planned on g.
Ids(p) == {p.decisions[k].task.task : k \in 1 .. Len(p.decisions)}
On(p, g) == {k \in 1 .. Len(p.decisions) : p.decisions[k].gpu = g}
IdsOn(p, g) == {p.decisions[k].task.task : k \in On(p, g)}

\* What is planned was taken from the capacity, and left some of it.
MemOk(p, cap, mem) ==
  /\ p.live.mem = cap.mem - Total(mem, Ids(p))
  /\ p.decisions # <<>> => p.live.mem > 0

VramOk(p, cap, vram) ==
  /\ \A k \in 1 .. Len(p.decisions) : p.decisions[k].gpu \in DOMAIN cap.gpu \cup {None}
  /\ \A g \in DOMAIN cap.gpu :
       /\ p.live.gpu[g] = cap.gpu[g] - Total(vram, IdsOn(p, g))
       /\ On(p, g) # {} => p.live.gpu[g] > 0

\* mem and vram are what the queue's entries need, by their ids.
Needs(queue, mem, vram) ==
  \A i \in 1 .. Len(queue) :
    mem[queue[i].task] = queue[i].mem /\ vram[queue[i].task] = queue[i].vram

(* The image of a finite set is finite, and no larger.                      *)
LEMMA ImageIsFinite ==
  ASSUME NEW S, IsFiniteSet(S), NEW f, DOMAIN f = S, f = [x \in S |-> f[x]]
  PROVE  IsFiniteSet({f[x] : x \in S}) /\ Cardinality({f[x] : x \in S}) <= Cardinality(S)
<1> DEFINE T == {f[x] : x \in S}
<1>1. f \in Surjection(S, T)
  BY DEF Surjection
<1> QED
  BY <1>1, FS_Surjection

(* The decisions of a cycle are about finitely many tasks.                *)
LEMMA IdsAreFinite ==
  ASSUME NEW p, Len(p.decisions) \in Nat, NEW g
  PROVE  IsFiniteSet(Ids(p)) /\ IsFiniteSet(IdsOn(p, g)) /\ IdsOn(p, g) \subseteq Ids(p)
<1>1. IsFiniteSet(1 .. Len(p.decisions))
  BY FS_Interval
<1>2. IsFiniteSet(Ids(p))
  <2> DEFINE h == [k \in 1 .. Len(p.decisions) |-> p.decisions[k].task.task]
  <2>1. Ids(p) = {h[k] : k \in 1 .. Len(p.decisions)}
    BY DEF Ids
  <2>2. DOMAIN h = 1 .. Len(p.decisions) /\ h = [k \in 1 .. Len(p.decisions) |-> h[k]]
    OBVIOUS
  <2> HIDE DEF h
  <2> QED
    BY <1>1, <2>1, <2>2, ImageIsFinite
<1>3. IdsOn(p, g) \subseteq Ids(p)
  BY DEF Ids, IdsOn, On
<1> QED
  BY <1>2, <1>3, FS_Subset

(* One task of the queue keeps memory and VRAM within the capacity.       *)
LEMMA BudgetStep ==
  ASSUME NEW p, NEW queue, EntriesOk(queue), Distinct(queue), NEW cap, CapOk(cap),
         cap.gated = TRUE, NEW i \in Nat, i + 1 <= Len(queue), Len(queue) \in Nat,
         NEW mem, NEW vram, Needs(queue, mem, vram),
         Shape(p, queue, cap, i), Apart(p, queue, i), MemOk(p, cap, mem), VramOk(p, cap, vram)
  PROVE  LET q == PlanStep(p, queue[i + 1]) IN MemOk(q, cap, mem) /\ VramOk(q, cap, vram)
<1> DEFINE task == queue[i + 1]
           q == PlanStep(p, task)
           n == Len(p.decisions)
           id == task.task
<1>1. /\ Move(p, task, q) /\ n \in Nat /\ p.decisions \in Seq(DecisionsOf(FirstOf(queue, i)))
      /\ p.live.gated = TRUE /\ DOMAIN p.live.gpu = DOMAIN cap.gpu
  BY StepMoves DEF Shape
<1>2. /\ task.mem \in Nat /\ task.vram \in Nat /\ mem[id] = task.mem /\ vram[id] = task.vram
  <2>1. i + 1 \in 1 .. Len(queue)
    OBVIOUS
  <2> QED
    BY <2>1 DEF EntriesOk, Needs
<1>3. id \notin Ids(p) /\ \A x \in Ids(p) : mem[x] \in Nat /\ vram[x] \in Nat
  <2> SUFFICES ASSUME NEW k \in 1 .. n
               PROVE  /\ p.decisions[k].task.task # id
                      /\ mem[p.decisions[k].task.task] \in Nat
                      /\ vram[p.decisions[k].task.task] \in Nat
    BY DEF Ids
  <2>1. PICK j \in 1 .. i : p.decisions[k].task.task = queue[j].task
    BY DEF Apart
  <2>2. j # i + 1 /\ j \in 1 .. Len(queue) /\ i + 1 \in 1 .. Len(queue)
    OBVIOUS
  <2>3. queue[j].task # queue[i + 1].task
    BY <2>2 DEF Distinct
  <2>4. mem[queue[j].task] \in Nat /\ vram[queue[j].task] \in Nat
    BY <2>2 DEF EntriesOk, Needs
  <2> QED
    BY <2>1, <2>3, <2>4
<1> HIDE DEF q, task, id
<1>4. CASE SamePlan(p, q)
  <2>1. Ids(q) = Ids(p) /\ \A g : On(q, g) = On(p, g) /\ IdsOn(q, g) = IdsOn(p, g)
    BY <1>4 DEF Ids, On, IdsOn, SamePlan
  <2> QED
    BY <1>4, <2>1 DEF MemOk, VramOk, SamePlan, q, task
<1>5. ASSUME NEW h, NEW rule, Admits(p, task, h, rule, q)
      PROVE  MemOk(q, cap, mem) /\ VramOk(q, cap, vram)
  <2>1. /\ Len(q.decisions) = n + 1
        /\ \A k \in 1 .. n : q.decisions[k] = p.decisions[k]
        /\ q.decisions[n + 1].task = task /\ q.decisions[n + 1].gpu = h
    <3>1. /\ Len(q.decisions) = Len(p.decisions) + 1
          /\ \A k \in 1 .. Len(p.decisions) : q.decisions[k] = p.decisions[k]
          /\ q.decisions[Len(p.decisions) + 1] = [task |-> task, gpu |-> h, rule |-> rule]
      BY <1>1, <1>5, AdmissionAppends
    <3> QED
      BY <3>1
  <2>2. \A k : k \in 1 .. Len(q.decisions) <=> k \in 1 .. n \/ k = n + 1
    BY <1>1, <2>1
  <2>3. Ids(q) = Ids(p) \cup {id}
    BY <2>1, <2>2 DEF Ids, id
  <2>4. ASSUME NEW g
        PROVE  /\ g = h => IdsOn(q, g) = IdsOn(p, g) \cup {id}
               /\ g # h => IdsOn(q, g) = IdsOn(p, g) /\ On(q, g) = On(p, g)
    <3>1. g = h => On(q, g) = On(p, g) \cup {n + 1}
      BY <2>1, <2>2 DEF On
    <3>2. g # h => On(q, g) = On(p, g)
      BY <2>1, <2>2 DEF On
    <3>3. \A k \in On(p, g) : q.decisions[k].task.task = p.decisions[k].task.task
      BY <2>1 DEF On
    <3>4. g = h => IdsOn(q, g) = IdsOn(p, g) \cup {id}
      <4> SUFFICES ASSUME g = h PROVE IdsOn(q, g) = IdsOn(p, g) \cup {id}
        OBVIOUS
      <4>1. q.decisions[n + 1].task.task = id
        BY <2>1 DEF id
      <4> QED
        BY <3>1, <3>3, <4>1 DEF IdsOn
    <3>5. g # h => IdsOn(q, g) = IdsOn(p, g)
      BY <3>2, <3>3 DEF IdsOn
    <3> QED
      BY <3>2, <3>4, <3>5
  <2>5. /\ q.live.mem = p.live.mem - task.mem /\ task.mem < p.live.mem
        /\ \A g \in DOMAIN cap.gpu :
             q.live.gpu[g] = IF g = h THEN p.live.gpu[g] - task.vram ELSE p.live.gpu[g]
    BY <1>1, <1>5 DEF Admits, Take, Use, FitsNonGpu, Room
  <2>6. h \in DOMAIN cap.gpu \cup {None} /\ (h \in DOMAIN cap.gpu => task.vram < p.live.gpu[h])
    <3>1. CASE task.vram > 0
      BY <1>1, <1>5, <3>1 DEF Admits, Room
    <3>2. CASE ~ (task.vram > 0)
      BY <1>5, <3>2, NoneAssumption DEF Admits, CapOk
    <3> QED
      BY <3>1, <3>2
  <2>7. IsFiniteSet(Ids(q)) /\ \A g : IsFiniteSet(IdsOn(q, g)) /\ IdsOn(p, g) \subseteq Ids(p)
    <3>1. Len(q.decisions) \in Nat
      BY <1>1, <2>1
    <3> QED
      BY <1>1, <3>1, IdsAreFinite
  <2>8. IsFiniteSet(Ids(p)) /\ \A g : IsFiniteSet(IdsOn(p, g))
    BY <1>1, IdsAreFinite
  <2>9. Total(mem, Ids(q)) = task.mem + Total(mem, Ids(p)) /\ Total(mem, Ids(p)) \in Nat
    <3>1. Ids(q) \ {id} = Ids(p)
      BY <1>3, <2>3
    <3>2. \A x \in Ids(q) : mem[x] \in Nat
      BY <1>2, <1>3, <2>3
    <3> QED
      BY <1>2, <1>3, <2>3, <2>7, <2>8, <3>1, <3>2, TotalRemoves
  <2>10. MemOk(q, cap, mem)
    <3>1. p.live.mem = cap.mem - Total(mem, Ids(p)) /\ cap.mem \in Int
      BY DEF MemOk, CapOk
    <3>2. q.live.mem = cap.mem - Total(mem, Ids(q)) /\ q.live.mem > 0
      BY <1>2, <2>5, <2>9, <3>1
    <3> QED
      BY <3>2 DEF MemOk
  <2>11. ASSUME NEW g \in DOMAIN cap.gpu
         PROVE  /\ q.live.gpu[g] = cap.gpu[g] - Total(vram, IdsOn(q, g))
                /\ On(q, g) # {} => q.live.gpu[g] > 0
    <3>1. CASE g # h
      BY <2>4, <2>5, <3>1 DEF VramOk
    <3>2. CASE g = h
      <4>1. IdsOn(q, g) \ {id} = IdsOn(p, g) /\ id \in IdsOn(q, g)
        BY <1>3, <2>4, <2>7, <3>2
      <4>2. \A x \in IdsOn(q, g) : vram[x] \in Nat
        BY <1>2, <1>3, <2>4, <2>7, <3>2
      <4>3. Total(vram, IdsOn(q, g)) = task.vram + Total(vram, IdsOn(p, g))
        BY <1>2, <2>7, <4>1, <4>2, TotalRemoves
      <4>4. Total(vram, IdsOn(p, g)) \in Nat
        BY <2>8, <4>1, <4>2, TotalRemoves
      <4>5. p.live.gpu[g] = cap.gpu[g] - Total(vram, IdsOn(p, g)) /\ cap.gpu[g] \in Int
        BY DEF VramOk, CapOk
      <4>6. q.live.gpu[g] = cap.gpu[g] - Total(vram, IdsOn(q, g)) /\ q.live.gpu[g] > 0
        <5>1. q.live.gpu[g] = p.live.gpu[g] - task.vram /\ task.vram < p.live.gpu[g]
          BY <2>5, <2>6, <3>2
        <5> QED
          BY <1>2, <4>3, <4>4, <4>5, <5>1
      <4> QED
        BY <4>6
    <3> QED
      BY <3>1, <3>2
  <2>12. \A k \in 1 .. Len(q.decisions) : q.decisions[k].gpu \in DOMAIN cap.gpu \cup {None}
    BY <2>1, <2>2, <2>6 DEF VramOk
  <2> QED
    BY <2>10, <2>11, <2>12 DEF VramOk
<1> QED
  BY <1>1, <1>4, <1>5 DEF Move, q, task

-----------------------------------------------------------------------------
\* What holds of the plan after i entries of the queue.
CycleOk(p, queue, running, cap, i) ==
  /\ Shape(p, queue, cap, i) /\ Apart(p, queue, i)
  /\ HeldOk(p, running) /\ Canary(p, running)
  /\ AloneOk(p, running, cap) /\ IdleOk(p, cap)

BudgetOk(p, queue, cap) ==
  \A mem, vram : Needs(queue, mem, vram) => MemOk(p, cap, mem) /\ VramOk(p, cap, vram)

(* The cycle's invariant holds before the first task of the queue.        *)
LEMMA CycleStarts ==
  ASSUME NEW queue, NEW running, NEW cap, CapOk(cap), Len(running) \in Nat,
         cap.slots = Len(running), NEW b, Based(b, running, cap), BasedPhase(b, running, cap)
  PROVE  CycleOk(b, queue, running, cap, 0) /\ BudgetOk(b, queue, cap)
<1>1. /\ Fields(b) /\ b.live = Start(cap).live /\ b.decisions = <<>>
      /\ \A j \in 1 .. Len(running) : running[j].ident # None => running[j].ident \in b.held
  BY DEF Based
<1>2. b.live = [gated |-> cap.gated, mem |-> cap.mem, gpu |-> cap.gpu, slots |-> cap.slots]
  BY <1>1 DEF Start
<1>3. Len(b.decisions) = 0 /\ \A S : b.decisions \in Seq(S)
  BY <1>1
<1>4. cap.slots \in Nat /\ cap.mem \in Int /\ \A g \in DOMAIN cap.gpu : cap.gpu[g] \in Int
  BY DEF CapOk
<1>5. b.phase \in Phases
  BY DEF BasedPhase, Phases
<1>6. Shape(b, queue, cap, 0)
  <2>1. b.live.slots = cap.slots + Len(b.decisions)
    BY <1>2, <1>3, <1>4
  <2> QED
    BY <1>1, <1>2, <1>3, <1>5, <2>1 DEF Shape
<1>7. Apart(b, queue, 0)
  BY <1>3 DEF Apart
<1>8. HeldOk(b, running) /\ Canary(b, running)
  BY <1>1, <1>3 DEF HeldOk, Canary
<1>9. AloneOk(b, running, cap)
  BY <1>1, <1>3 DEF AloneOk, BasedPhase
<1>10. IdleOk(b, cap)
  <2>1. ASSUME b.live.slots = 0 PROVE b = Start(cap)
    BY <1>2, <2>1 DEF BasedPhase
  <2>2. b.phase # "backfill"
    BY DEF BasedPhase
  <2> QED
    BY <2>1, <2>2 DEF IdleOk
<1>11. ASSUME NEW mem, NEW vram PROVE MemOk(b, cap, mem) /\ VramOk(b, cap, vram)
  <2>1. Ids(b) = {} /\ \A g : On(b, g) = {} /\ IdsOn(b, g) = {}
    BY <1>3 DEF Ids, On, IdsOn
  <2>2. Total(mem, {}) = 0 /\ Total(vram, {}) = 0
    BY TotalOfEmpty
  <2>3. MemOk(b, cap, mem)
    <3>1. b.live.mem = cap.mem - Total(mem, Ids(b))
      BY <1>2, <1>4, <2>1, <2>2
    <3>2. b.decisions = <<>>
      BY <1>1
    <3> QED
      BY ONLY <3>1, <3>2, Zenon DEF MemOk
  <2>4. ASSUME NEW g \in DOMAIN cap.gpu
        PROVE  b.live.gpu[g] = cap.gpu[g] - Total(vram, IdsOn(b, g)) /\ On(b, g) = {}
    <3>1. Total(vram, IdsOn(b, g)) = 0 /\ On(b, g) = {}
      BY <2>1, <2>2
    <3>2. b.live.gpu[g] = cap.gpu[g] /\ cap.gpu[g] \in Int
      BY <1>2, <1>4
    <3> QED
      BY <3>1, <3>2
  <2> QED
    BY <1>3, <2>1, <2>3, <2>4 DEF VramOk
<1> QED
  BY <1>6, <1>7, <1>8, <1>9, <1>10, <1>11 DEF CycleOk, BudgetOk

(* One dispatch cycle plans entries of its queue, each at most once, within *)
(* the worker slots and, once there is a snapshot, the memory and the VRAM  *)
(* of its capacity; it plans an exclusive entry only alone and with nothing *)
(* running, and a cold one only when nothing of its profile runs or was     *)
(* planned before it.                                                       *)
THEOREM PlanIsSound ==
  ASSUME NEW queue, EntriesOk(queue), Distinct(queue), NEW running, Len(running) \in Nat,
         NEW cap, CapOk(cap), cap.slots = Len(running)
  PROVE  LET p == PlanDispatch(queue, running, cap)
         IN  /\ CycleOk(p, queue, running, cap, Len(queue))
             /\ cap.gated = TRUE => BudgetOk(p, queue, cap)
<1>1. Len(queue) \in Nat
  BY DEF EntriesOk
<1>2. PICK occupied, visited :
        /\ occupied[0] = Start(cap)
        /\ \A i \in 1 .. Len(running) : occupied[i] = Occupy(occupied[i - 1], running[i])
        /\ visited[0] = occupied[Len(running)]
        /\ \A i \in 1 .. Len(queue) : visited[i] = PlanStep(visited[i - 1], queue[i])
        /\ PlanDispatch(queue, running, cap) = visited[Len(queue)]
  BY <1>1, PlanIsAChain
<1> DEFINE Ok(i) == /\ CycleOk(visited[i], queue, running, cap, i)
                    /\ cap.gated = TRUE => BudgetOk(visited[i], queue, cap)
           S == {i \in Nat : i <= Len(queue) => Ok(i)}
<1>3. 0 \in S
  <2>1. Based(visited[0], running, cap) /\ BasedPhase(visited[0], running, cap)
    BY <1>2, OccupantsAreCollected
  <2>2. CycleOk(visited[0], queue, running, cap, 0) /\ BudgetOk(visited[0], queue, cap)
    BY <2>1, CycleStarts
  <2>3. Ok(0)
    BY <2>2
  <2> QED
    BY <2>3
<1> HIDE DEF Ok
<1>4. ASSUME NEW i \in Nat, i \in S PROVE i + 1 \in S
  <2>1. SUFFICES ASSUME i + 1 <= Len(queue) PROVE Ok(i + 1)
    OBVIOUS
  <2> DEFINE p == visited[i]
             q == PlanStep(p, queue[i + 1])
  <2>2. Ok(i) /\ visited[i + 1] = q
    <3>1. i + 1 \in 1 .. Len(queue) /\ (i + 1) - 1 = i
      BY <1>1, <2>1
    <3> QED
      BY <1>2, <1>4, <2>1, <3>1
  <2> HIDE DEF p
  <2>3. CycleOk(p, queue, running, cap, i) /\ (cap.gated = TRUE => BudgetOk(p, queue, cap))
    BY <2>2 DEF p, Ok
  <2>4. CycleOk(q, queue, running, cap, i + 1)
    <3>1. Shape(q, queue, cap, i + 1)
      BY <2>3, ShapeStep DEF CycleOk
    <3>2. Apart(q, queue, i + 1)
      BY <1>1, <2>1, <2>3, ApartStep DEF CycleOk
    <3>3. HeldOk(q, running) /\ Canary(q, running)
      BY <2>3, CanaryStep DEF CycleOk
    <3>4. AloneOk(q, running, cap) /\ IdleOk(q, cap)
      BY <1>1, <2>1, <2>3, AloneStep DEF CycleOk
    <3> QED
      BY <3>1, <3>2, <3>3, <3>4 DEF CycleOk
  <2>5. ASSUME cap.gated = TRUE PROVE BudgetOk(q, queue, cap)
    <3> SUFFICES ASSUME NEW mem, NEW vram, Needs(queue, mem, vram)
                 PROVE  MemOk(q, cap, mem) /\ VramOk(q, cap, vram)
      BY DEF BudgetOk
    <3>1. MemOk(p, cap, mem) /\ VramOk(p, cap, vram)
      BY <2>3, <2>5 DEF BudgetOk
    <3> QED
      BY <1>1, <2>1, <2>3, <2>5, <3>1, BudgetStep DEF CycleOk
  <2> QED
    BY <2>2, <2>4, <2>5 DEF Ok
<1> HIDE DEF S
<1>5. Len(queue) \in S
  BY <1>1, <1>3, <1>4, EveryNumberIsReached
<1> QED
  BY <1>1, <1>2, <1>5 DEF S, Ok
==============================================================================
