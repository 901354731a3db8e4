-------------------------- MODULE AccountingProofs ---------------------------
(***************************************************************************)
(* Proofs about Accounting, for every set of tasks, workers, estimates and *)
(* budgets: what the monitor, the workers and the dispatch keep is of its  *)
(* type, no worker runs two tasks, nothing is counted twice, and what is   *)
(* admitted fits next to what the workers hold or were promised.           *)
(***************************************************************************)
EXTENDS Accounting, CycleProofs

-----------------------------------------------------------------------------
(* More about sums over finite sets.                                        *)

(* The sum of what two functions add up to.                               *)
LEMMA TotalAdds ==
  ASSUME NEW S, IsFiniteSet(S), NEW f, NEW h, NEW k,
         \A x \in S : f[x] \in Nat /\ h[x] \in Nat /\ k[x] = f[x] + h[x]
  PROVE  Total(k, S) = Total(f, S) + Total(h, S)
<1> DEFINE N == {n \in Nat : \A s \in SUBSET S :
                   Cardinality(s) <= n => Total(k, s) = Total(f, s) + Total(h, s)}
<1>0. \A s \in SUBSET S : IsFiniteSet(s) /\ Cardinality(s) \in Nat
  BY FS_Subset, FS_CardinalityType
<1>1. Total(k, {}) = Total(f, {}) + Total(h, {})
  BY TotalOfEmpty
<1>2. 0 \in N
  <2> SUFFICES ASSUME NEW s \in SUBSET S, Cardinality(s) <= 0
               PROVE  Total(k, s) = Total(f, s) + Total(h, s)
    OBVIOUS
  <2>1. Cardinality(s) = 0
    BY <1>0
  <2>2. s = {}
    BY <1>0, <2>1, FS_EmptySet
  <2> QED
    BY <1>1, <2>2
<1>3. ASSUME NEW n \in Nat, n \in N PROVE n + 1 \in N
  <2> SUFFICES ASSUME NEW s \in SUBSET S, Cardinality(s) <= n + 1, s # {}
               PROVE  Total(k, s) = Total(f, s) + Total(h, s)
    BY <1>1
  <2> DEFINE y == Some(s)
             r == s \ {y}
  <2>1. y \in s /\ r \in SUBSET S /\ Cardinality(r) <= n
    BY <1>0, SomeElement
  <2>2. Total(k, r) = Total(f, r) + Total(h, r)
    BY <1>3, <2>1
  <2>3. /\ Total(k, s) = k[y] + Total(k, r)
        /\ Total(f, s) = f[y] + Total(f, r) /\ Total(h, s) = h[y] + Total(h, r)
    BY <1>0, TotalUnfolds
  <2>4. Total(f, r) \in Nat /\ Total(h, r) \in Nat
    BY <1>0, <2>1, TotalRemoves
  <2>5. f[y] \in Nat /\ h[y] \in Nat /\ k[y] = f[y] + h[y]
    BY <2>1
  <2> HIDE DEF y, r
  <2> QED
    BY <2>2, <2>3, <2>4, <2>5
<1> HIDE DEF N
<1>4. \A n \in Nat : n \in N
  BY <1>2, <1>3, EveryNumberIsReached
<1>5. Cardinality(S) \in N /\ Cardinality(S) <= Cardinality(S) /\ S \in SUBSET S
  BY <1>0, <1>4
<1> QED
  BY <1>5 DEF N

(* A larger summand makes the sum no smaller.                             *)
LEMMA TotalIsMonotone ==
  ASSUME NEW S, IsFiniteSet(S), NEW f, NEW k, \A x \in S : f[x] \in Nat /\ k[x] \in Nat /\ f[x] <= k[x]
  PROVE  Total(f, S) <= Total(k, S)
<1> DEFINE h == [x \in S |-> k[x] - f[x]]
<1>1. \A x \in S : f[x] \in Nat /\ h[x] \in Nat /\ k[x] = f[x] + h[x]
  OBVIOUS
<1> HIDE DEF h
<1>2. Total(k, S) = Total(f, S) + Total(h, S)
  BY <1>1, TotalAdds
<1>3. Total(f, S) \in Nat /\ Total(h, S) \in Nat
  BY <1>1, TotalRemoves
<1> QED
  BY <1>2, <1>3

(* Zeros add up to zero.                                                  *)
LEMMA TotalOfZeros ==
  ASSUME NEW S, IsFiniteSet(S), NEW f, \A x \in S : f[x] = 0
  PROVE  Total(f, S) = 0
<1>1. \A x \in S : f[x] \in Nat /\ f[x] = f[x] + f[x]
  OBVIOUS
<1>2. PICK n : n = Total(f, S)
  OBVIOUS
<1>3. n = n + n
  BY <1>1, <1>2, TotalAdds
<1>4. n \in Nat
  BY <1>1, <1>2, TotalRemoves
<1>5. n = 0
  BY ONLY <1>3, <1>4
<1> QED
  BY <1>2, <1>5

(* A sum over tasks is the sum over the workers they run on, when no two  *)
(* run on the same one and the others count nothing.                      *)
LEMMA TotalByWorker ==
  ASSUME NEW T, IsFiniteSet(T), NEW S, IsFiniteSet(S), NEW f, NEW h, NEW on,
         \A t \in T : f[t] \in Nat /\ on[t] \in S /\ h[on[t]] = f[t],
         \A t, u \in T : on[t] = on[u] => t = u,
         \A w \in S : (\A t \in T : on[t] # w) => h[w] = 0
  PROVE  Total(h, S) = Total(f, T)
<1> DEFINE Image(s) == {on[t] : t \in s}
           N == {n \in Nat : \A s \in SUBSET T :
                   Cardinality(s) <= n => Total(h, Image(s)) = Total(f, s)}
<1>0. \A s \in SUBSET T : IsFiniteSet(s) /\ Cardinality(s) \in Nat
  BY FS_Subset, FS_CardinalityType
<1>1. \A s \in SUBSET T : Image(s) \in SUBSET S /\ IsFiniteSet(Image(s))
  <2>1. \A s \in SUBSET T : Image(s) \in SUBSET S
    OBVIOUS
  <2> HIDE DEF Image
  <2> QED
    BY <2>1, FS_Subset
<1>2. \A w \in S : h[w] \in Nat
  OBVIOUS
<1>3. Total(h, Image({})) = Total(f, {})
  <2>1. Image({}) = {}
    OBVIOUS
  <2> QED
    BY <2>1, TotalOfEmpty
<1>4. 0 \in N
  <2> SUFFICES ASSUME NEW s \in SUBSET T, Cardinality(s) <= 0
               PROVE  Total(h, Image(s)) = Total(f, s)
    OBVIOUS
  <2>1. Cardinality(s) = 0
    BY <1>0
  <2>2. s = {}
    BY <1>0, <2>1, FS_EmptySet
  <2> QED
    BY <1>3, <2>2
<1>5. ASSUME NEW n \in Nat, n \in N PROVE n + 1 \in N
  <2> SUFFICES ASSUME NEW s \in SUBSET T, Cardinality(s) <= n + 1, s # {}
               PROVE  Total(h, Image(s)) = Total(f, s)
    BY <1>3
  <2> DEFINE y == Some(s)
             r == s \ {y}
  <2>1. y \in s /\ r \in SUBSET T /\ Cardinality(r) <= n
    BY <1>0, SomeElement
  <2>2. Total(h, Image(r)) = Total(f, r)
    BY <1>5, <2>1
  <2>3. Total(f, s) = f[y] + Total(f, r)
    BY <1>0, TotalUnfolds
  <2> HIDE DEF y
  <2>4. Image(s) \ {on[y]} = Image(r) /\ on[y] \in Image(s)
    BY <2>1
  <2> HIDE DEF Image, r
  <2>5. Total(h, Image(s)) = h[on[y]] + Total(h, Image(r))
    BY <1>1, <1>2, <2>4, TotalRemoves
  <2>6. h[on[y]] = f[y]
    BY <2>1
  <2> QED
    BY <2>2, <2>3, <2>5, <2>6
<1> HIDE DEF N
<1>6. \A n \in Nat : n \in N
  BY <1>4, <1>5, EveryNumberIsReached
<1>7. Total(h, Image(T)) = Total(f, T)
  <2>1. Cardinality(T) \in N /\ Cardinality(T) <= Cardinality(T) /\ T \in SUBSET T
    BY <1>0, <1>6
  <2> QED
    BY <2>1 DEF N
<1>8. Total(h, S) = Total(h, Image(T)) + Total(h, S \ Image(T))
  <2>1. Image(T) \in SUBSET S /\ S \ Image(T) \in SUBSET S /\ Image(T) \cap (S \ Image(T)) = {}
        /\ Image(T) \cup (S \ Image(T)) = S
    OBVIOUS
  <2> HIDE DEF Image
  <2> QED
    BY <1>2, <2>1, TotalOfUnion
<1>9. Total(h, S \ Image(T)) = 0
  <2>1. \A w \in S \ Image(T) : h[w] = 0
    OBVIOUS
  <2>2. IsFiniteSet(S \ Image(T))
    BY FS_Subset
  <2> HIDE DEF Image
  <2> QED
    BY <2>1, <2>2, TotalOfZeros
<1>10. Total(f, T) \in Nat
  BY TotalRemoves
<1> HIDE DEF Image
<1> QED
  BY <1>7, <1>8, <1>9, <1>10

-----------------------------------------------------------------------------
(* The inductive invariant: what is sampled, what runs, what is queued.     *)

\* What is being read, and what was published, lack at most GPUs.
MonitorInv ==
  /\ toRead \subseteq Pools /\ DOMAIN reading \subseteq Pools \ toRead
  /\ Mem \in toRead \cup DOMAIN reading
  /\ \A pool \in DOMAIN reading : reading[pool] \in Shares
  /\ snapshot # None =>
       /\ Mem \in DOMAIN snapshot
       /\ \A pool \in DOMAIN snapshot : pool \in Pools /\ snapshot[pool] \in Shares

\* Every attempt has a worker of its own.
RunInv ==
  /\ rss \in [Workers -> [Pools -> Nat]]
  /\ run \in [Tasks -> Attempts \cup {NoRun}]
  /\ \A t, u \in InFlight : run[t].worker = run[u].worker => t = u
  /\ returned \subseteq InFlight

\* What is queued waits, in the order of its submission.
QueueInv ==
  /\ \E q \in Queues : queue = Without(q, Tasks \ Range(queue))
  /\ Range(queue) \cap InFlight = {}
  /\ rr \in 0 .. Len(GpuOrder)

AccountingInv == MonitorInv /\ RunInv /\ QueueInv

(* The invariant says more than the types.                                *)
LEMMA InvTypes == AccountingInv => TypeOK
BY DEF AccountingInv, MonitorInv, RunInv, QueueInv, TypeOK

(* The queues tasks are submitted in.                                     *)
LEMMA SubmittedQueue ==
  ASSUME NEW q \in Queues
  PROVE  Queue(q) /\ NoDup(q) /\ Range(q) \subseteq Tasks
<1>1. q \in Seq(Tasks) /\ \A i, j \in DOMAIN q : q[i] = q[j] => i = j
  BY QueuesAssumption
<1>2. Queue(q)
  BY <1>1, SeqOfRange DEF Queue
<1> QED
  BY <1>1, <1>2 DEF NoDup, Tasks

(* What is queued was submitted, once.                                    *)
LEMMA QueuedOnce == QueueInv => Queue(queue) /\ NoDup(queue) /\ Range(queue) \subseteq Tasks
<1> SUFFICES ASSUME QueueInv PROVE Queue(queue) /\ NoDup(queue) /\ Range(queue) \subseteq Tasks
  OBVIOUS
<1>1. PICK q \in Queues : queue = Without(q, Tasks \ Range(queue))
  BY DEF QueueInv
<1>2. Queue(q) /\ NoDup(q) /\ Range(q) \subseteq Tasks
  BY SubmittedQueue
<1> DEFINE w == Without(q, Tasks \ Range(queue))
<1>3. Queue(w) /\ Range(w) = Range(q) \ (Tasks \ Range(queue)) /\ NoDup(w)
  BY <1>2, WithoutLeaves
<1>4. queue = w
  BY <1>1
<1> HIDE DEF w
<1> QED
  BY <1>2, <1>3, <1>4

(* The tasks that may leave the queue leave it in order.                  *)
LEMMA QueueShrinks ==
  ASSUME QueueInv, NEW S
  PROVE  LET left == Without(queue, S) IN
           /\ \E q \in Queues : left = Without(q, Tasks \ Range(left))
           /\ Range(left) = Range(queue) \ S
<1> DEFINE left == Without(queue, S)
<1>1. PICK q \in Queues : queue = Without(q, Tasks \ Range(queue))
  BY DEF QueueInv
<1>2. Queue(q) /\ Range(q) \subseteq Tasks
  BY SubmittedQueue
<1>3. Queue(queue) /\ Range(queue) \subseteq Tasks
  BY QueuedOnce
<1>4. Range(left) = Range(queue) \ S
  BY <1>3, WithoutLeaves
<1> DEFINE A == Tasks \ Range(queue)
           B == Tasks \ Range(left)
<1>5. Without(Without(q, A), S) = Without(q, A \cup S)
  BY <1>2, WithoutTwice
<1>6. \A x \in Range(q) : x \in A \cup S <=> x \in B
  BY <1>2, <1>4
<1>7. Without(q, A \cup S) = Without(q, B)
  <2> HIDE DEF A, B
  <2> QED
    BY <1>2, <1>6, WithoutAgrees
<1>8. left = Without(q, B)
  BY <1>1, <1>5, <1>7
<1> QED
  BY <1>4, <1>8

(* The tasks in flight are finitely many.                                 *)
LEMMA InFlightIsFinite == RunInv => IsFiniteSet(InFlight)
<1> SUFFICES ASSUME RunInv PROVE IsFiniteSet(InFlight)
  OBVIOUS
<1> DEFINE on == [t \in InFlight |-> run[t].worker]
<1>1. \A t \in InFlight : run[t] \in Attempts /\ run[t].worker \in Workers
  BY DEF RunInv, InFlight, NoRun, Attempts
<1>2. on \in Injection(InFlight, Workers)
  <2>1. \A t, u \in InFlight : on[t] = on[u] => t = u
    BY DEF RunInv
  <2> QED
    BY <1>1, <2>1 DEF Injection, IsInjective
<1> HIDE DEF on
<1> QED
  BY <1>2, WorkersAssumption, FS_Injection

(* What an attempt in flight is.                                          *)
LEMMA AttemptFields ==
  ASSUME RunInv, NEW t \in InFlight
  PROVE  /\ t \in Tasks /\ run[t] \in Attempts
         /\ run[t].worker \in Workers /\ run[t].start \in [Pools -> Nat]
         /\ run[t].observed \in [Pools -> Nat] /\ run[t].known \subseteq Pools
BY DEF RunInv, InFlight, NoRun, Attempts

(* A process that starts holds nothing, and no task runs yet.             *)
LEMMA AccountingStarts == Init => AccountingInv
<1> SUFFICES ASSUME Init PROVE AccountingInv
  OBVIOUS
<1>1. MonitorInv
  <2>1. DOMAIN reading = {}
    BY DEF Init
  <2> QED
    BY <2>1 DEF Init, MonitorInv, Pools
<1>2. RunInv /\ InFlight = {}
  <2>1. Zero \in [Pools -> Nat]
    BY DEF Zero
  <2>2. \A t \in Tasks : run[t] = NoRun
    BY DEF Init
  <2>3. InFlight = {}
    BY <2>2 DEF InFlight, NoRun
  <2> QED
    BY <2>1, <2>3 DEF Init, RunInv
<1>3. QueueInv
  <2>1. queue \in Queues
    BY DEF Init
  <2>2. Queue(queue) /\ Range(queue) \subseteq Tasks
    BY <2>1, SubmittedQueue
  <2>3. Without(queue, Tasks \ Range(queue)) = queue
    BY <2>2, WithoutNobody
  <2>4. rr \in 0 .. Len(GpuOrder)
    BY GpuOrderAssumption DEF Init
  <2> QED
    BY <1>2, <2>1, <2>3, <2>4 DEF QueueInv
<1> QED
  BY <1>1, <1>2, <1>3 DEF AccountingInv

-----------------------------------------------------------------------------
(* The monitor and the workers.                                             *)

(* The monitor's steps.                                                   *)
LEMMA MonitorStep ==
  ASSUME AccountingInv, Publish \/ \E pool \in Pools : Sample(pool) \/ SampleFails(pool)
  PROVE  MonitorInv'
<1>1. MonitorInv /\ RunInv
  BY DEF AccountingInv
<1>2. CASE Publish
  <2>1. DOMAIN reading' = {}
    BY <1>2 DEF Publish
  <2>2. Mem \in Pools /\ Mem \in DOMAIN reading
    BY <1>1, <1>2 DEF Publish, MonitorInv, Pools
  <2> QED
    BY <1>1, <1>2, <2>1, <2>2 DEF Publish, MonitorInv
<1>3. ASSUME NEW pool \in Pools, Sample(pool) PROVE MonitorInv'
  <2> DEFINE v == [w \in Workers |-> rss[w][pool]]
  <2>1. v \in Shares
    BY <1>1 DEF RunInv, Shares
  <2>2. /\ reading' = [p \in {pool} \cup DOMAIN reading |-> IF p = pool THEN v ELSE reading[p]]
        /\ toRead' = toRead \ {pool} /\ snapshot' = snapshot /\ pool \in toRead
    BY <1>3 DEF Sample
  <2> HIDE DEF v
  <2>3. DOMAIN reading' = {pool} \cup DOMAIN reading
    BY <2>2
  <2>4. \A p \in DOMAIN reading' : reading'[p] \in Shares
    BY <1>1, <2>1, <2>2 DEF MonitorInv
  <2> QED
    BY <1>1, <2>2, <2>3, <2>4 DEF MonitorInv
<1>4. ASSUME NEW pool \in Pools, SampleFails(pool) PROVE MonitorInv'
  BY <1>1, <1>4 DEF SampleFails, MonitorInv
<1> QED
  BY <1>2, <1>3, <1>4

(* The steps of the workers and of their tasks' results.                  *)
LEMMA WorkerStep ==
  ASSUME AccountingInv,
         \/ \E t \in Tasks : \/ \E pool \in Pools : Allocate(t, pool) \/ Release(t, pool)
                             \/ Return(t) \/ Collect(t)
         \/ \E w \in Workers : Retire(w)
  PROVE  RunInv' /\ InFlight' \subseteq InFlight
<1>1. RunInv
  BY DEF AccountingInv
<1>2. rss \in [Workers -> [Pools -> Nat]]
  BY <1>1 DEF RunInv
<1>3. ASSUME rss' \in [Workers -> [Pools -> Nat]], run' = run,
             returned' = returned \/ \E t \in InFlight : returned' = returned \cup {t}
      PROVE  RunInv' /\ InFlight' \subseteq InFlight
  <2>1. InFlight' = InFlight
    BY <1>3 DEF InFlight
  <2> QED
    BY <1>1, <1>3, <2>1 DEF RunInv
<1>4. ASSUME NEW t \in Tasks, NEW pool \in Pools, Allocate(t, pool) \/ Release(t, pool)
      PROVE  RunInv' /\ InFlight' \subseteq InFlight
  <2> DEFINE w == run[t].worker
  <2>1. t \in InFlight /\ w \in Workers /\ run' = run /\ returned' = returned
    <3>1. t \in InFlight /\ run' = run /\ returned' = returned
      BY <1>4 DEF Allocate, Release
    <3> QED
      BY <1>1, <3>1, AttemptFields
  <2>2. PICK x \in Nat : rss' = [rss EXCEPT ![w][pool] = x]
    <3>1. rss[w][pool] \in Nat
      BY <1>2, <2>1
    <3>2. CASE Allocate(t, pool)
      <4>1. rss[w][pool] + 1 \in Nat
        BY <3>1
      <4> QED
        BY <3>2, <4>1 DEF Allocate
    <3>3. CASE Release(t, pool)
      <4>1. rss[w][pool] - 1 \in Nat
        BY <3>1, <3>3 DEF Release
      <4> QED
        BY <3>3, <4>1 DEF Release
    <3> QED
      BY <1>4, <3>2, <3>3
  <2>3. rss' \in [Workers -> [Pools -> Nat]]
    BY <1>2, <2>1, <2>2
  <2> QED
    BY <1>3, <2>1, <2>3
<1>5. ASSUME NEW t \in Tasks, Return(t) PROVE RunInv' /\ InFlight' \subseteq InFlight
  <2> DEFINE w == run[t].worker
  <2>1. t \in InFlight /\ run' = run /\ returned' = returned \cup {t}
    BY <1>5 DEF Return
  <2>2. w \in Workers /\ run[t].start \in [Pools -> Nat]
    BY <1>1, <2>1, AttemptFields
  <2>3. PICK kept \in Keeps :
          rss' = [rss EXCEPT ![w] = [pool \in Pools |-> Least(rss[w][pool], run[t].start[pool] + kept)]]
    BY <1>5, <2>2, <1>2 DEF Return
  <2>4. kept \in Nat
    BY AmountsAssumption
  <2>5. [pool \in Pools |-> Least(rss[w][pool], run[t].start[pool] + kept)] \in [Pools -> Nat]
    BY <1>2, <2>2, <2>4 DEF Least
  <2>6. rss' \in [Workers -> [Pools -> Nat]]
    <3> HIDE DEF w
    <3> QED
      BY <1>2, <2>3, <2>5
  <2> QED
    BY <1>3, <2>1, <2>6
<1>6. ASSUME NEW t \in Tasks, Collect(t) PROVE RunInv' /\ InFlight' \subseteq InFlight
  <2>1. run' = [run EXCEPT ![t] = NoRun] /\ rss' = rss /\ returned' = returned \ {t}
    BY <1>6 DEF Collect
  <2>2. run' \in [Tasks -> Attempts \cup {NoRun}]
    BY <1>1, <2>1 DEF RunInv
  <2>3. \A u \in Tasks : run'[u] = IF u = t THEN NoRun ELSE run[u]
    BY <1>1, <2>1 DEF RunInv
  <2>4. InFlight' = InFlight \ {t}
    BY <2>3 DEF InFlight, NoRun
  <2>5. \A u \in InFlight' : run'[u].worker = run[u].worker
    BY <2>3, <2>4 DEF InFlight
  <2> QED
    BY <1>1, <2>1, <2>2, <2>4, <2>5 DEF RunInv
<1>7. ASSUME NEW w \in Workers, Retire(w) PROVE RunInv' /\ InFlight' \subseteq InFlight
  <2>1. rss' = [rss EXCEPT ![w] = Zero] /\ run' = run /\ returned' = returned
    BY <1>7 DEF Retire
  <2>2. Zero \in [Pools -> Nat]
    BY DEF Zero
  <2>3. rss' \in [Workers -> [Pools -> Nat]]
    BY <1>2, <2>1, <2>2
  <2> QED
    BY <1>3, <2>1, <2>3
<1> QED
  BY <1>4, <1>5, <1>6, <1>7

-----------------------------------------------------------------------------
(* The sums of the accounting.                                              *)

CommittedOf(attempts, pool) == [t \in InFlight |-> Committed(attempts[t], t, pool)]
OwedOf(pool) == [w \in Workers |-> Owed(w, pool)]

\* The recursions of the two sums.
SumsCommitted(attempts, pool, it) ==
  it = [s \in SUBSET InFlight |->
          IF s = {} THEN 0 ELSE Committed(attempts[Some(s)], Some(s), pool) + it[s \ {Some(s)}]]
SumsOwed(pool, it) ==
  it = [s \in SUBSET Workers |->
          IF s = {} THEN 0 ELSE Owed(Some(s), pool) + it[s \ {Some(s)}]]

(* What is committed in all is the sum over the tasks in flight.          *)
LEMMA CommittedIsTotal ==
  ASSUME RunInv, NEW attempts, NEW pool
  PROVE  TotalCommitted(attempts, pool) = Total(CommittedOf(attempts, pool), InFlight)
<1> DEFINE it == CHOOSE f : SumsCommitted(attempts, pool, f)
           g == CommittedOf(attempts, pool)
<1>1. ASSUME NEW f PROVE SumsCommitted(attempts, pool, f) <=> Summed(g, InFlight, f)
  <2>1. ASSUME NEW s \in SUBSET InFlight
        PROVE  (IF s = {} THEN 0 ELSE Committed(attempts[Some(s)], Some(s), pool) + f[s \ {Some(s)}])
               = (IF s = {} THEN 0 ELSE g[Some(s)] + f[s \ {Some(s)}])
    <3>1. CASE s = {}
      BY <3>1
    <3>2. CASE s # {}
      <4>1. Some(s) \in s
        BY <3>2 DEF Some
      <4>2. g[Some(s)] = Committed(attempts[Some(s)], Some(s), pool)
        BY <4>1 DEF CommittedOf
      <4> QED
        BY <3>2, <4>2
    <3> QED
      BY <3>1, <3>2
  <2> HIDE DEF g
  <2> QED
    BY <2>1, Zenon DEF SumsCommitted, Summed
<1>2. IsFiniteSet(InFlight)
  BY InFlightIsFinite
<1>3. \E f : SumsCommitted(attempts, pool, f)
  <2> HIDE DEF g
  <2>1. PICK f : Summed(g, InFlight, f)
    BY <1>2, SummedExists
  <2> QED
    BY <1>1, <2>1
<1>4. SumsCommitted(attempts, pool, it)
  BY <1>3
<1>5. TotalCommitted(attempts, pool) = it[InFlight]
  BY DEF TotalCommitted, MapThenSumSet, MapThenFoldSet, SumsCommitted, Some
<1> HIDE DEF it, g
<1>6. Summed(g, InFlight, it)
  BY <1>1, <1>4
<1>7. InFlight \in SUBSET InFlight
  OBVIOUS
<1> QED
  BY <1>2, <1>5, <1>6, <1>7, TotalIsSummed DEF g

(* What is owed in all is the sum over the workers.                       *)
LEMMA OwedIsTotal == \A pool : TotalOwed(pool) = Total(OwedOf(pool), Workers)
<1> SUFFICES ASSUME NEW pool PROVE TotalOwed(pool) = Total(OwedOf(pool), Workers)
  OBVIOUS
<1> DEFINE it == CHOOSE f : SumsOwed(pool, f)
           g == OwedOf(pool)
<1>1. ASSUME NEW f PROVE SumsOwed(pool, f) <=> Summed(g, Workers, f)
  <2>1. ASSUME NEW s \in SUBSET Workers
        PROVE  (IF s = {} THEN 0 ELSE Owed(Some(s), pool) + f[s \ {Some(s)}])
               = (IF s = {} THEN 0 ELSE g[Some(s)] + f[s \ {Some(s)}])
    <3>1. CASE s = {}
      BY <3>1
    <3>2. CASE s # {}
      <4>1. Some(s) \in s
        BY <3>2 DEF Some
      <4>2. g[Some(s)] = Owed(Some(s), pool)
        BY <4>1 DEF OwedOf
      <4> QED
        BY <3>2, <4>2
    <3> QED
      BY <3>1, <3>2
  <2> HIDE DEF g
  <2> QED
    BY <2>1, Zenon DEF SumsOwed, Summed
<1>2. IsFiniteSet(Workers)
  BY WorkersAssumption
<1>3. \E f : SumsOwed(pool, f)
  <2> HIDE DEF g
  <2>1. PICK f : Summed(g, Workers, f)
    BY <1>2, SummedExists
  <2> QED
    BY <1>1, <2>1
<1>4. SumsOwed(pool, it)
  BY <1>3
<1>5. TotalOwed(pool) = it[Workers]
  BY DEF TotalOwed, MapThenSumSet, MapThenFoldSet, SumsOwed, Some
<1> HIDE DEF it, g
<1>6. Summed(g, Workers, it)
  BY <1>1, <1>4
<1>7. Workers \in SUBSET Workers
  OBVIOUS
<1> QED
  BY <1>2, <1>5, <1>6, <1>7, TotalIsSummed DEF g

(* What is owed in all after a step is the sum over the workers then.     *)
LEMMA OwedIsTotalAfter == \A pool : TotalOwed(pool)' = Total([w \in Workers |-> Owed(w, pool)'], Workers)
<1>1. (\A pool : TotalOwed(pool) = Total(OwedOf(pool), Workers))'
  BY OwedIsTotal, PTL
<1> QED
  BY <1>1 DEF OwedOf

(* What the published snapshot shows of a pool is a sum of naturals.      *)
LEMMA UsedIsTotal ==
  ASSUME MonitorInv, snapshot # None, NEW pool \in DOMAIN snapshot
  PROVE  /\ Used(pool) = Total(snapshot[pool], Workers) /\ Used(pool) \in Nat
         /\ \A w \in Workers : snapshot[pool][w] \in Nat
<1>1. snapshot[pool] \in [Workers -> Nat]
  BY DEF MonitorInv, Shares
<1>2. Used(pool) = Total(snapshot[pool], Workers)
  BY DEF Used, Total
<1>3. \A w \in Workers : snapshot[pool][w] \in Nat
  BY <1>1
<1> QED
  BY <1>2, <1>3, WorkersAssumption, TotalRemoves

(* A task's share of a pool is a natural.                                 *)
LEMMA ShareIsNat == \A t \in Tasks : \A w, pool : Share(Estimate[t], w, pool) \in Nat
BY AmountsAssumption DEF Share

-----------------------------------------------------------------------------
(* What a dispatch plans.                                                   *)

\* attempts is run with fresher observations.
Refresh(attempts) ==
  /\ attempts \in [Tasks -> Attempts \cup {NoRun}]
  /\ \A t \in Tasks : /\ attempts[t].worker = run[t].worker
                      /\ attempts[t].start = run[t].start

(* Sampling changes the observations only.                                *)
LEMMA RefreshKeeps ==
  ASSUME RunInv, NEW attempts \in Refreshes
  PROVE  Refresh(attempts)
<1>1. PICK due \in SUBSET InFlight :
        \E readable : attempts = Refreshed(due, readable)
  BY DEF Refreshes
<1>2. PICK readable : attempts = Refreshed(due, readable)
  BY <1>1
<1>3. \A t \in Tasks : attempts[t] = IF t \in due
        THEN [run[t] EXCEPT !.observed = [pool \in Pools |-> Observed(t, pool, readable)]]
        ELSE run[t]
  BY <1>2 DEF Refreshed
<1>4. ASSUME NEW t \in Tasks
      PROVE  /\ attempts[t] \in Attempts \cup {NoRun}
             /\ attempts[t].worker = run[t].worker /\ attempts[t].start = run[t].start
  <2>1. CASE t \notin due
    BY <1>3, <2>1 DEF RunInv
  <2>2. CASE t \in due
    <3> DEFINE o == [pool \in Pools |-> Observed(t, pool, readable)]
    <3>1. /\ run[t] \in Attempts /\ run[t].worker \in Workers
          /\ run[t].start \in [Pools -> Nat] /\ run[t].observed \in [Pools -> Nat]
      BY <2>2, AttemptFields
    <3>2. ASSUME NEW pool \in Pools PROVE Observed(t, pool, readable) \in Nat
      <4>1. rss[run[t].worker][pool] \in Nat /\ run[t].start[pool] \in Nat
            /\ run[t].observed[pool] \in Nat
        BY <3>1 DEF RunInv
      <4>2. Positive(rss[run[t].worker][pool] - run[t].start[pool]) \in Nat
        BY <4>1 DEF Positive
      <4> QED
        BY <4>1, <4>2 DEF Observed
    <3>3. o \in [Pools -> Nat]
      BY <3>2
    <3> HIDE DEF o
    <3>4. attempts[t] = [run[t] EXCEPT !.observed = o]
      BY <1>3, <2>2 DEF o
    <3> QED
      BY <3>1, <3>3, <3>4 DEF Attempts
  <2> QED
    BY <2>1, <2>2
<1>5. DOMAIN attempts = Tasks /\ attempts = [t \in Tasks |-> attempts[t]]
  BY <1>2 DEF Refreshed
<1> QED
  BY <1>4, <1>5 DEF Refresh

(* What is committed is a natural.                                        *)
LEMMA CommittedIsNat ==
  ASSUME RunInv, NEW attempts, Refresh(attempts), NEW pool \in Pools
  PROVE  /\ \A t \in InFlight : Committed(attempts[t], t, pool) \in Nat
         /\ TotalCommitted(attempts, pool) \in Nat
<1>1. ASSUME NEW t \in InFlight PROVE Committed(attempts[t], t, pool) \in Nat
  <2>1. attempts[t] \in Attempts
    <3>1. attempts[t] \in Attempts \cup {NoRun} /\ attempts[t].worker # None
      BY DEF Refresh, InFlight
    <3> QED
      BY <3>1 DEF NoRun
  <2>2. attempts[t].observed[pool] \in Nat
    BY <2>1 DEF Attempts
  <2>3. Share(Estimate[t], attempts[t].worker, pool) \in Nat
    BY ShareIsNat DEF InFlight
  <2> QED
    BY <2>2, <2>3 DEF Committed, Positive
<1>2. \A t \in InFlight : CommittedOf(attempts, pool)[t] \in Nat
  BY <1>1 DEF CommittedOf
<1>3. IsFiniteSet(InFlight)
  BY InFlightIsFinite
<1> QED
  BY <1>1, <1>2, <1>3, CommittedIsTotal, TotalRemoves

MemNeeds == [t \in Tasks |-> Estimate[t].mem]
VramNeeds == [t \in Tasks |-> Estimate[t].vram]

(* What is planned was queued, and fits what the accounting leaves free.  *)
LEMMA PlanFits ==
  ASSUME AccountingInv, NEW attempts, Refresh(attempts)
  PROVE  LET p == Planned(attempts) IN
           /\ p.rr \in 0 .. Len(GpuOrder)
           /\ p.decisions \in Seq(Range(p.decisions)) /\ Len(p.decisions) \in Nat
           /\ \A k \in 1 .. Len(p.decisions) :
                /\ p.decisions[k].task.task \in Range(queue)
                /\ p.decisions[k].gpu \in Gpus \cup {None}
           /\ snapshot # None =>
                /\ MemOk(p, Capacity(attempts), MemNeeds)
                /\ VramOk(p, Capacity(attempts), VramNeeds)
<1> DEFINE e == [i \in DOMAIN queue |-> Entry(queue[i])]
           order == SetToSeq(InFlight)
           running == [i \in DOMAIN order |-> Occupant(attempts[order[i]], order[i])]
           cap == Capacity(attempts)
           p == PlanDispatch(e, running, cap)
           n == Len(e)
<1>1. MonitorInv /\ RunInv /\ QueueInv
  BY DEF AccountingInv
<1>2. /\ queue \in Seq(Range(queue)) /\ Len(queue) \in Nat /\ DOMAIN queue = 1 .. Len(queue)
      /\ Range(queue) \subseteq Tasks /\ NoDup(queue)
  BY <1>1, QueuedOnce DEF Queue
<1>3. Len(e) = Len(queue) /\ \A i \in 1 .. Len(queue) : e[i] = Entry(queue[i]) /\ queue[i] \in Tasks
  BY <1>2
<1>4. ASSUME NEW i \in 1 .. n
      PROVE  /\ e[i].mem = Estimate[queue[i]].mem /\ e[i].vram = Estimate[queue[i]].vram
             /\ e[i].mem \in Nat /\ e[i].vram \in Nat /\ e[i].cpu = 1 /\ e[i].task = queue[i]
             /\ queue[i] \in Range(queue) /\ queue[i] \in Tasks
  <2>1. e[i] = Entry(queue[i]) /\ queue[i] \in Range(queue) /\ queue[i] \in Tasks
    BY <1>2, <1>3 DEF Range
  <2> QED
    BY <2>1, AmountsAssumption DEF Entry
<1>5. EntriesOk(e)
  <2>1. e \in Seq(Range(e))
    BY <1>2 DEF Range
  <2> HIDE DEF e
  <2> QED
    BY <1>4, <2>1 DEF EntriesOk
<1>6. Distinct(e)
  <2> HIDE DEF e
  <2> QED
    BY <1>2, <1>3, <1>4 DEF Distinct, NoDup
<1>7. /\ Len(running) = Cardinality(InFlight) /\ Cardinality(InFlight) \in Nat
  <2>1. order \in Seq(InFlight) /\ Len(order) = Cardinality(InFlight) /\ Cardinality(InFlight) \in Nat
    BY <1>1, InFlightIsFinite, OrderedOnce
  <2> HIDE DEF order
  <2> QED
    BY <2>1
<1>8. ASSUME snapshot # None, NEW pool \in Pools, pool \in DOMAIN snapshot
      PROVE  Free(attempts, pool) \in Int
  BY <1>1, <1>8, UsedIsTotal, CommittedIsNat, BudgetAssumption DEF Free
<1>9. CapOk(cap) /\ cap.slots = Cardinality(InFlight) /\ (snapshot # None => cap.gated = TRUE)
  <2>1. cap.slots = Cardinality(InFlight) /\ cap.rr = rr /\ rr \in 0 .. Len(GpuOrder)
    BY <1>1 DEF Capacity, QueueInv
  <2>2. snapshot # None => cap.gated = TRUE
    BY DEF Capacity
  <2>3. DOMAIN cap.gpu = Known /\ Known \subseteq Gpus
    BY DEF Capacity, Known
  <2>4. cap.mem \in Int
    <3>1. CASE snapshot = None
      BY <3>1 DEF Capacity
    <3>2. CASE snapshot # None
      <4>1. Mem \in DOMAIN snapshot /\ Mem \in Pools
        BY <1>1, <3>2 DEF MonitorInv, Pools
      <4> QED
        BY <1>8, <3>2, <4>1 DEF Capacity
    <3> QED
      BY <3>1, <3>2
  <2>5. ASSUME NEW g \in DOMAIN cap.gpu PROVE cap.gpu[g] \in Int
    <3>1. g \in Known
      BY <2>3
    <3>2. cap.gpu[g] = IF snapshot = None THEN 0 ELSE Free(attempts, g)
      BY <3>1 DEF Capacity
    <3>3. snapshot # None => g \in Pools /\ g \in DOMAIN snapshot
      BY <3>1 DEF Known, Pools
    <3> QED
      BY <1>8, <3>2, <3>3
  <2> HIDE DEF cap
  <2> QED
    BY <1>7, <2>1, <2>2, <2>3, <2>4, <2>5 DEF CapOk
<1>10. Planned(attempts) = p
  BY DEF Planned
<1> HIDE DEF e, running, cap
<1>11. CycleOk(p, e, running, cap, n) /\ (cap.gated = TRUE => BudgetOk(p, e, cap))
  BY <1>5, <1>6, <1>7, <1>9, PlanIsSound
<1> HIDE DEF p
<1>12. p.rr \in 0 .. Len(GpuOrder) /\ p.decisions \in Seq(DecisionsOf(FirstOf(e, n)))
  BY <1>11 DEF CycleOk, Shape, Fields
<1>13. Len(p.decisions) \in Nat /\ p.decisions \in Seq(Range(p.decisions))
  BY <1>12, SeqOfRange
<1>14. ASSUME NEW k \in 1 .. Len(p.decisions)
       PROVE  p.decisions[k].task.task \in Range(queue) /\ p.decisions[k].gpu \in Gpus \cup {None}
  <2>1. p.decisions[k] \in DecisionsOf(FirstOf(e, n))
    BY <1>12
  <2>2. PICK i \in 1 .. n : p.decisions[k].task = e[i]
    BY <2>1 DEF DecisionsOf, FirstOf
  <2> QED
    BY <1>4, <2>1, <2>2 DEF DecisionsOf
<1>15. ASSUME snapshot # None
       PROVE  MemOk(p, cap, MemNeeds) /\ VramOk(p, cap, VramNeeds)
  <2>1. Needs(e, MemNeeds, VramNeeds)
    BY <1>4 DEF Needs, MemNeeds, VramNeeds
  <2> QED
    BY <1>9, <1>11, <1>15, <2>1 DEF BudgetOk
<1> QED
  BY <1>10, <1>12, <1>13, <1>14, <1>15 DEF cap

-----------------------------------------------------------------------------
(* Nothing is counted twice.                                                *)

\* The task that runs on a busy worker.
The(w) == CHOOSE t \in TaskOf(w) : TRUE

(* A busy worker runs one task.                                           *)
LEMMA OneTask ==
  ASSUME RunInv
  PROVE  /\ \A t \in InFlight : /\ run[t].worker \in Workers /\ Busy(run[t].worker)
                                /\ The(run[t].worker) = t
         /\ \A w \in Workers : Busy(w) => /\ The(w) \in InFlight /\ run[The(w)].worker = w
                                          /\ TaskOf(w) = {The(w)}
<1>1. ASSUME NEW t \in InFlight
      PROVE  TaskOf(run[t].worker) = {t} /\ run[t].worker \in Workers
  BY AttemptFields DEF TaskOf, RunInv
<1>2. ASSUME NEW w \in Workers, Busy(w)
      PROVE  /\ The(w) \in InFlight /\ run[The(w)].worker = w /\ TaskOf(w) = {The(w)}
  <2>1. PICK t \in InFlight : run[t].worker = w
    BY <1>2 DEF Busy, TaskOf
  <2>2. TaskOf(w) = {t}
    BY <1>1, <2>1
  <2> QED
    BY <2>1, <2>2 DEF The
<1>3. ASSUME NEW t \in InFlight
      PROVE  Busy(run[t].worker) /\ The(run[t].worker) = t
  BY <1>1 DEF Busy, The
<1> QED
  BY <1>1, <1>2, <1>3

\* What is committed on a worker.
CommittedAt(attempts, pool) ==
  [w \in Workers |-> IF Busy(w) THEN Committed(attempts[The(w)], The(w), pool) ELSE 0]

(* The commitments add up worker by worker.                               *)
LEMMA CommittedByWorker ==
  ASSUME RunInv, NEW attempts, Refresh(attempts), NEW pool \in Pools
  PROVE  /\ TotalCommitted(attempts, pool) = Total(CommittedAt(attempts, pool), Workers)
         /\ \A w \in Workers : CommittedAt(attempts, pool)[w] \in Nat
<1> DEFINE f == CommittedOf(attempts, pool)
           h == CommittedAt(attempts, pool)
           on == [t \in InFlight |-> run[t].worker]
<1>1. \A t \in InFlight : f[t] \in Nat /\ f[t] = Committed(attempts[t], t, pool)
  BY CommittedIsNat DEF CommittedOf
<1>2. \A t \in InFlight : on[t] \in Workers /\ h[on[t]] = f[t]
  BY <1>1, OneTask DEF CommittedAt
<1>3. \A t, u \in InFlight : on[t] = on[u] => t = u
  BY DEF RunInv
<1>4. \A w \in Workers : (\A t \in InFlight : on[t] # w) => h[w] = 0
  <2> SUFFICES ASSUME NEW w \in Workers, \A t \in InFlight : on[t] # w PROVE h[w] = 0
    OBVIOUS
  <2>1. ~ Busy(w)
    BY OneTask
  <2> QED
    BY <2>1 DEF CommittedAt
<1>5. IsFiniteSet(InFlight) /\ IsFiniteSet(Workers)
  BY InFlightIsFinite, WorkersAssumption
<1>6. \A w \in Workers : h[w] \in Nat
  BY <1>1, OneTask DEF CommittedAt
<1>7. TotalCommitted(attempts, pool) = Total(f, InFlight)
  BY CommittedIsTotal
<1> HIDE DEF f, h, on
<1>8. Total(h, Workers) = Total(f, InFlight)
  BY <1>1, <1>2, <1>3, <1>4, <1>5, TotalByWorker
<1> QED
  BY <1>6, <1>7, <1>8 DEF h

(* With up-to-date samples all that is neither held nor promised is free. *)
LEMMA FreshIsExact == AccountingInv => FreshAccountingIsExact
<1> SUFFICES ASSUME AccountingInv, NEW pool \in Pools, Fresh(pool)
             PROVE  Free(run, pool) = Budget[pool] - TotalOwed(pool)
  BY DEF FreshAccountingIsExact
<1>1. MonitorInv /\ RunInv
  BY DEF AccountingInv
<1>2. Refresh(run)
  BY <1>1 DEF Refresh, RunInv
<1>3. snapshot # None /\ pool \in DOMAIN snapshot
  BY DEF Fresh
<1> DEFINE f == snapshot[pool]
           h == CommittedAt(run, pool)
           k == OwedOf(pool)
<1>4. /\ Used(pool) = Total(f, Workers) /\ Used(pool) \in Nat
      /\ \A w \in Workers : f[w] \in Nat /\ f[w] = rss[w][pool]
  BY <1>1, <1>3, UsedIsTotal DEF Fresh
<1>5. /\ TotalCommitted(run, pool) = Total(h, Workers) /\ TotalCommitted(run, pool) \in Nat
      /\ \A w \in Workers : h[w] \in Nat
  BY <1>1, <1>2, CommittedByWorker, CommittedIsNat
<1>6. ASSUME NEW w \in Workers PROVE k[w] = f[w] + h[w]
  <2>1. k[w] = Owed(w, pool)
    BY DEF OwedOf
  <2>2. CASE ~ Busy(w)
    <3>1. Owed(w, pool) = rss[w][pool] /\ h[w] = 0
      BY <2>2 DEF Owed, CommittedAt
    <3> QED
      BY <1>4, <2>1, <3>1
  <2>3. CASE Busy(w)
    <3> DEFINE t == The(w)
               start == run[t].start[pool]
               share == Share(Estimate[t], w, pool)
               seen == run[t].observed[pool]
    <3>1. t \in InFlight /\ run[t].worker = w
      BY <1>1, <2>3, OneTask
    <3>2. start \in Nat /\ seen \in Nat /\ t \in Tasks
      BY <1>1, <3>1, AttemptFields
    <3>3. share \in Nat
      BY <3>2, ShareIsNat
    <3>4. seen = rss[w][pool] - start
      BY <3>1 DEF Fresh, Held
    <3>5. Owed(w, pool) = start + Larger(share, rss[w][pool] - start)
      BY <2>3, <3>1 DEF Owed, Held, The
    <3>6. h[w] = Positive(share - seen)
      BY <2>3, <3>1 DEF CommittedAt, Committed
    <3>7. f[w] \in Nat /\ f[w] = rss[w][pool]
      BY <1>4
    <3> HIDE DEF t, start, share, seen, f, h, k
    <3> QED
      BY <2>1, <3>2, <3>3, <3>4, <3>5, <3>6, <3>7 DEF Larger, Positive
  <2> QED
    BY <2>2, <2>3
<1>7. TotalOwed(pool) = Total(k, Workers)
  BY OwedIsTotal
<1> HIDE DEF f, h, k
<1>8. Total(k, Workers) = Total(f, Workers) + Total(h, Workers)
  BY <1>4, <1>5, <1>6, WorkersAssumption, TotalAdds
<1> QED
  BY <1>4, <1>5, <1>7, <1>8, BudgetAssumption DEF Free

-----------------------------------------------------------------------------
(* What a dispatch ships.                                                   *)

(* The largest of a set of integers.                                      *)
LEMMA MaxIs ==
  ASSUME NEW S \in SUBSET Int, NEW x \in S, \A y \in S : x >= y
  PROVE  Max(S) = x
<1>1. Max(S) \in S /\ \A y \in S : Max(S) >= y
  BY DEF Max
<1>2. PICK m \in S : m = Max(S) /\ m >= x
  BY <1>1
<1>3. m \in Int /\ x \in Int /\ x >= m
  OBVIOUS
<1> QED
  BY <1>2, <1>3

\* The fold of Dispatch over the indices of n decisions.
Shipping(attempts, known, ds, n, it) ==
  it = [s \in SUBSET (1 .. n) |->
          IF s = {} THEN attempts ELSE Ship(it[s \ {Max(s)}], ds[Max(s)], known)]

(* The fold has a value.                                                  *)
LEMMA ShippingExists ==
  ASSUME NEW attempts, NEW known, NEW ds, NEW m \in Nat
  PROVE  \E it : Shipping(attempts, known, ds, m, it)
<1> DEFINE N == {n \in Nat : \E it : Shipping(attempts, known, ds, n, it)}
           Value(it, s) == IF s = {} THEN attempts ELSE Ship(it[s \ {Max(s)}], ds[Max(s)], known)
<1>1. 0 \in N
  <2> DEFINE it == [s \in SUBSET (1 .. 0) |-> attempts]
  <2>1. \A s \in SUBSET (1 .. 0) : s = {}
    OBVIOUS
  <2>2. it = [s \in SUBSET (1 .. 0) |-> Value(it, s)]
    BY <2>1
  <2>3. Shipping(attempts, known, ds, 0, it)
    BY <2>2 DEF Shipping
  <2> QED
    BY <2>3
<1>2. ASSUME NEW n \in Nat, n \in N PROVE n + 1 \in N
  <2>1. PICK it : Shipping(attempts, known, ds, n, it)
    BY <1>2
  <2> DEFINE jt == [s \in SUBSET (1 .. n + 1) |->
                      IF s \subseteq 1 .. n THEN it[s] ELSE Ship(it[s \ {n + 1}], ds[n + 1], known)]
  <2>2. \A s \in SUBSET (1 .. n) : it[s] = Value(it, s)
    BY <2>1 DEF Shipping
  <2>3. ASSUME NEW s \in SUBSET (1 .. n + 1) PROVE jt[s] = Value(jt, s)
    <3>1. CASE s \subseteq 1 .. n
      <4>1. s \ {Max(s)} \in SUBSET (1 .. n) /\ s \ {Max(s)} \in SUBSET (1 .. n + 1)
        BY <3>1
      <4>2. jt[s] = it[s] /\ jt[s \ {Max(s)}] = it[s \ {Max(s)}]
        BY <3>1, <4>1
      <4> QED
        BY <2>2, <3>1, <4>2
    <3>2. CASE ~ (s \subseteq 1 .. n)
      <4>1. n + 1 \in s /\ s # {} /\ \A y \in s : n + 1 >= y
        BY <3>2
      <4>2. Max(s) = n + 1
        BY <4>1, MaxIs
      <4>3. s \ {n + 1} \in SUBSET (1 .. n) /\ s \ {n + 1} \in SUBSET (1 .. n + 1)
        OBVIOUS
      <4>4. jt[s] = Ship(it[s \ {n + 1}], ds[n + 1], known) /\ jt[s \ {n + 1}] = it[s \ {n + 1}]
        BY <3>2, <4>3
      <4> QED
        BY <4>1, <4>2, <4>4
    <3> QED
      BY <3>1, <3>2
  <2>4. jt = [s \in SUBSET (1 .. n + 1) |-> Value(jt, s)]
    BY <2>3
  <2> HIDE DEF jt
  <2>5. Shipping(attempts, known, ds, n + 1, jt)
    BY <2>4 DEF Shipping
  <2>6. n + 1 \in Nat /\ \E kt : Shipping(attempts, known, ds, n + 1, kt)
    BY <2>5
  <2> QED
    BY <2>6
<1> HIDE DEF N
<1>3. m \in N
  BY <1>1, <1>2, EveryNumberIsReached
<1> QED
  BY <1>3 DEF N

\* The attempts after all decisions.
Shipped(attempts, known, ds) == FoldLeft(LAMBDA acc, d : Ship(acc, d, known), attempts, ds)

(* The decisions are shipped one after the other.                         *)
LEMMA ShippedInOrder ==
  ASSUME NEW attempts, NEW known, NEW ds, ds \in Seq(Range(ds))
  PROVE  \E f : /\ f[0] = attempts /\ f[Len(ds)] = Shipped(attempts, known, ds)
                /\ \A k \in 1 .. Len(ds) : f[k] = Ship(f[k - 1], ds[k], known)
<1> DEFINE n == Len(ds)
           it == CHOOSE g : Shipping(attempts, known, ds, n, g)
           f == [k \in 0 .. n |-> it[1 .. k]]
<1>0. n \in Nat /\ DOMAIN ds = 1 .. n
  OBVIOUS
<1>1. Shipping(attempts, known, ds, n, it)
  BY <1>0, ShippingExists
<1>2. Shipped(attempts, known, ds) = it[1 .. n]
  BY <1>0 DEF Shipped, FoldLeft, MapThenFoldSet, Shipping
<1> HIDE DEF it
<1>3. \A s \in SUBSET (1 .. n) :
        it[s] = IF s = {} THEN attempts ELSE Ship(it[s \ {Max(s)}], ds[Max(s)], known)
  BY <1>1 DEF Shipping
<1>4. f[0] = attempts
  <2>1. {} \in SUBSET (1 .. n) /\ 1 .. 0 = {}
    OBVIOUS
  <2>2. it[{}] = attempts
    BY <1>3, <2>1
  <2>3. f[0] = it[1 .. 0]
    BY <1>0
  <2> QED
    BY <2>1, <2>2, <2>3
<1>5. ASSUME NEW k \in 1 .. n PROVE f[k] = Ship(f[k - 1], ds[k], known)
  <2>1. (1 .. k) \in SUBSET (1 .. n) /\ 1 .. k # {} /\ (1 .. k) \ {k} = 1 .. (k - 1)
    <3>1. k \in 1 .. k /\ n \in Nat
      BY <1>0
    <3>2. \A i : i \in (1 .. k) \ {k} <=> i \in 1 .. (k - 1)
      OBVIOUS
    <3> QED
      BY <3>1, <3>2
  <2>2. Max(1 .. k) = k
    <3>1. (1 .. k) \in SUBSET Int /\ k \in 1 .. k /\ \A y \in 1 .. k : k >= y
      OBVIOUS
    <3> QED
      BY <3>1, MaxIs
  <2>3. it[1 .. k] = Ship(it[1 .. (k - 1)], ds[k], known)
    BY <1>3, <2>1, <2>2
  <2>4. f[k] = it[1 .. k] /\ f[k - 1] = it[1 .. (k - 1)]
    BY <1>0
  <2> QED
    BY <2>3, <2>4
<1>6. f[n] = it[1 .. n]
  BY <1>0
<1> HIDE DEF f
<1> QED
  BY <1>2, <1>4, <1>5, <1>6

\* t was placed on a worker that was idle, as one of the first k decisions says.
Placed(acc, known, ds, k, t) ==
  \E w \in Workers : /\ acc[t] = NewRun(w, known) /\ ~ Busy(w)
                     /\ \E j \in 1 .. k : ds[j].task.task = t /\ ds[j].gpu = Pin[w]

\* What holds of the attempts after k decisions.
ShipsOk(attempts, acc, known, ds, k) ==
  /\ acc \in [Tasks -> Attempts \cup {NoRun}]
  /\ \A t \in InFlight : acc[t] = attempts[t]
  /\ \A t \in Tasks \ InFlight : acc[t].worker # None => Placed(acc, known, ds, k, t)
  /\ \A t, u \in Tasks : acc[t].worker # None /\ acc[t].worker = acc[u].worker => t = u

(* One decision places its task on an idle worker, or leaves it queued.   *)
LEMMA ShipStep ==
  ASSUME RunInv, NEW attempts, Refresh(attempts), NEW known \in SUBSET Pools, NEW acc, NEW ds,
         NEW k \in Nat, ShipsOk(attempts, acc, known, ds, k),
         ds[k + 1].task.task \in Tasks \ InFlight
  PROVE  ShipsOk(attempts, Ship(acc, ds[k + 1], known), known, ds, k + 1)
<1> DEFINE d == ds[k + 1]
           x == d.task.task
           idle == IdleFor(acc, d.gpu)
           b == Ship(acc, d, known)
<1>1. ASSUME NEW a, NEW t, Placed(acc, known, ds, k, t), a[t] = acc[t]
      PROVE  Placed(a, known, ds, k + 1, t)
  <2>1. \A j \in 1 .. k : j \in 1 .. k + 1
    OBVIOUS
  <2> QED
    BY <1>1, <2>1 DEF Placed
<1>2. CASE idle = {}
  <2>1. b = acc
    BY <1>2 DEF Ship
  <2> HIDE DEF b
  <2>2. \A t \in Tasks \ InFlight : b[t].worker # None => Placed(b, known, ds, k + 1, t)
    BY <1>1, <2>1 DEF ShipsOk
  <2> QED
    BY <2>1, <2>2 DEF ShipsOk, b
<1>3. CASE idle # {}
  <2> DEFINE w == CHOOSE w \in idle : TRUE
             r == NewRun(w, known)
  <2>1. w \in Workers /\ Pin[w] = d.gpu /\ \A t \in Tasks : acc[t].worker # w
    <3>1. w \in idle
      BY <1>3
    <3> QED
      BY <3>1 DEF IdleFor
  <2>2. b = [acc EXCEPT ![x] = r]
    BY <1>3 DEF Ship
  <2> HIDE DEF w, b, x, d
  <2>3. r \in Attempts /\ r.worker = w /\ w # None
    <3>1. rss[w] \in [Pools -> Nat] /\ Zero \in [Pools -> Nat]
      BY <2>1 DEF RunInv, Zero
    <3>2. {pool \in known : pool \in {Mem, Pin[w]}} \in SUBSET Pools
      OBVIOUS
    <3> QED
      BY <2>1, <3>1, <3>2, WorkersAssumption DEF NewRun, Attempts
  <2>4. x \in Tasks \ InFlight
    BY DEF x, d
  <2>5. b \in [Tasks -> Attempts \cup {NoRun}] /\ \A t \in Tasks : b[t] = IF t = x THEN r ELSE acc[t]
    BY <2>2, <2>3, <2>4 DEF ShipsOk
  <2>6. \A t \in InFlight : b[t] = attempts[t]
    BY <2>4, <2>5 DEF ShipsOk, InFlight
  <2>7. ~ Busy(w)
    <3>1. \A t \in InFlight : run[t].worker # w
      BY <2>1 DEF ShipsOk, Refresh, InFlight
    <3> QED
      BY <3>1 DEF Busy, TaskOf
  <2>8. ASSUME NEW t \in Tasks \ InFlight, b[t].worker # None PROVE Placed(b, known, ds, k + 1, t)
    <3>1. CASE t # x
      BY <1>1, <2>5, <2>8, <3>1 DEF ShipsOk
    <3>2. CASE t = x
      <4>1. b[t] = NewRun(w, known)
        BY <2>5, <3>2
      <4>2. k + 1 \in 1 .. k + 1 /\ ds[k + 1].task.task = t /\ ds[k + 1].gpu = Pin[w]
        BY <2>1, <3>2 DEF x, d
      <4> QED
        BY <2>1, <2>7, <4>1, <4>2 DEF Placed
    <3> QED
      BY <3>1, <3>2
  <2>9. \A t, u \in Tasks : b[t].worker # None /\ b[t].worker = b[u].worker => t = u
    <3> HIDE DEF r
    <3> QED
      BY <2>1, <2>3, <2>5 DEF ShipsOk
  <2>10. ShipsOk(attempts, b, known, ds, k + 1)
    BY <2>5, <2>6, <2>8, <2>9 DEF ShipsOk
  <2> QED
    BY <2>10 DEF b, d
<1> QED
  BY <1>2, <1>3

(* All decisions together.                                                *)
LEMMA ShippedFits ==
  ASSUME RunInv, NEW attempts, Refresh(attempts), NEW known \in SUBSET Pools,
         NEW ds, ds \in Seq(Range(ds)), \A k \in 1 .. Len(ds) : ds[k].task.task \in Tasks \ InFlight
  PROVE  ShipsOk(attempts, Shipped(attempts, known, ds), known, ds, Len(ds))
<1>1. PICK f : /\ f[0] = attempts /\ f[Len(ds)] = Shipped(attempts, known, ds)
               /\ \A k \in 1 .. Len(ds) : f[k] = Ship(f[k - 1], ds[k], known)
  BY ShippedInOrder
<1>2. Len(ds) \in Nat
  OBVIOUS
<1> DEFINE N == {k \in Nat : k <= Len(ds) => ShipsOk(attempts, f[k], known, ds, k)}
<1>3. 0 \in N
  <2>1. \A t \in Tasks \ InFlight : attempts[t].worker = None
    BY DEF Refresh, InFlight
  <2>2. \A t, u \in Tasks : attempts[t].worker # None /\ attempts[t].worker = attempts[u].worker => t = u
    BY DEF Refresh, RunInv, InFlight
  <2>3. ShipsOk(attempts, attempts, known, ds, 0)
    BY <2>1, <2>2 DEF ShipsOk, Refresh
  <2> QED
    BY <1>1, <2>3
<1>4. ASSUME NEW k \in Nat, k \in N PROVE k + 1 \in N
  <2>1. SUFFICES ASSUME k + 1 <= Len(ds) PROVE ShipsOk(attempts, f[k + 1], known, ds, k + 1)
    OBVIOUS
  <2>2. k + 1 \in 1 .. Len(ds) /\ (k + 1) - 1 = k /\ ShipsOk(attempts, f[k], known, ds, k)
    BY <1>2, <1>4, <2>1
  <2>3. f[k + 1] = Ship(f[k], ds[k + 1], known) /\ ds[k + 1].task.task \in Tasks \ InFlight
    BY <1>1, <2>2
  <2> QED
    BY <2>2, <2>3, ShipStep
<1> HIDE DEF N
<1>5. Len(ds) \in N
  BY <1>2, <1>3, <1>4, EveryNumberIsReached
<1> QED
  BY <1>1, <1>2, <1>5 DEF N

\* A dispatch that ships its plan, with the observations attempts.
Dispatched(attempts, known) ==
  LET p == Planned(attempts) IN
    /\ Refresh(attempts) /\ known \in SUBSET Pools
    /\ rr' = p.rr /\ rss' = rss /\ returned' = returned /\ UNCHANGED monitorVars
    /\ queue' = Kept(run')
    /\ p.decisions \in Seq(Range(p.decisions))
    /\ ShipsOk(attempts, run', known, p.decisions, Len(p.decisions))

(* What Dispatch does, in these terms.                                    *)
LEMMA DispatchUnfolds ==
  ASSUME AccountingInv, Dispatch
  PROVE  \E attempts, known : Dispatched(attempts, known)
<1>1. RunInv /\ QueueInv
  BY DEF AccountingInv
<1>2. PICK attempts \in Refreshes, known \in SUBSET Pools :
        /\ rr' = Planned(attempts).rr
        /\ run' = Shipped(attempts, known, Planned(attempts).decisions)
        /\ queue' = Kept(run')
  BY DEF Dispatch, Shipped
<1> DEFINE ds == Planned(attempts).decisions
<1>3. Refresh(attempts)
  BY <1>1, RefreshKeeps
<1>4. ds \in Seq(Range(ds)) /\ \A k \in 1 .. Len(ds) : ds[k].task.task \in Tasks \ InFlight
  <2>1. Range(queue) \subseteq Tasks \ InFlight
    BY <1>1, QueuedOnce DEF QueueInv
  <2> QED
    BY <1>3, <2>1, PlanFits
<1> HIDE DEF ds
<1>5. ShipsOk(attempts, Shipped(attempts, known, ds), known, ds, Len(ds))
  BY <1>1, <1>3, <1>4, ShippedFits
<1>6. rss' = rss /\ returned' = returned /\ UNCHANGED monitorVars
  BY DEF Dispatch
<1>7. Dispatched(attempts, known)
  BY <1>2, <1>3, <1>4, <1>5, <1>6 DEF Dispatched, ds
<1> QED
  BY <1>7

(* A dispatch keeps every attempt on a worker of its own, and the queue.  *)
LEMMA DispatchStep ==
  ASSUME AccountingInv, Dispatch
  PROVE  RunInv' /\ QueueInv'
<1>1. RunInv /\ QueueInv
  BY DEF AccountingInv
<1>2. PICK attempts, known : Dispatched(attempts, known)
  BY DispatchUnfolds
<1> DEFINE ds == Planned(attempts).decisions
<1>3. ShipsOk(attempts, run', known, ds, Len(ds)) /\ Refresh(attempts)
  BY <1>2 DEF Dispatched
<1>4. InFlight \subseteq InFlight'
  BY <1>3 DEF ShipsOk, Refresh, InFlight
<1>5. RunInv'
  <2>1. \A t, u \in InFlight' : run'[t].worker = run'[u].worker => t = u
    BY <1>3 DEF ShipsOk, InFlight
  <2> QED
    BY <1>1, <1>2, <1>3, <1>4, <2>1 DEF RunInv, ShipsOk, Dispatched
<1>6. QueueInv'
  <2> DEFINE gone == {t \in Tasks : run'[t].worker # None}
             left == Without(queue, gone)
  <2>1. queue' = left
    BY <1>2 DEF Dispatched, Kept
  <2>2. /\ \E q \in Queues : left = Without(q, Tasks \ Range(left))
        /\ Range(left) = Range(queue) \ gone
    BY <1>1, QueueShrinks
  <2>3. rr' \in 0 .. Len(GpuOrder)
    BY <1>2, PlanFits DEF Dispatched
  <2>4. InFlight' = gone
    BY DEF InFlight
  <2> HIDE DEF left, gone
  <2> QED
    BY <2>1, <2>2, <2>3, <2>4 DEF QueueInv
<1> QED
  BY <1>5, <1>6

-----------------------------------------------------------------------------
(* What is admitted fits.                                                   *)

Amount(pool) == IF pool = Mem THEN MemNeeds ELSE VramNeeds

\* The tasks a dispatch ships to a worker that uses the pool.
Joining(pool) ==
  {t \in Tasks \ InFlight :
     run'[t].worker # None /\ (pool = Mem \/ Pin[run'[t].worker] = pool)}

\* What they bring to a worker.
Brought(pool) ==
  [w \in Workers |->
     IF \E t \in Joining(pool) : run'[t].worker = w
       THEN Amount(pool)[CHOOSE t \in Joining(pool) : run'[t].worker = w]
       ELSE 0]

(* What joins a pool is less than what the accounting found free there.   *)
LEMMA JoiningFits ==
  ASSUME AccountingInv, NEW attempts, NEW known, Dispatched(attempts, known),
         NEW pool \in Pools, snapshot # None, AdmittedTo(pool)
  PROVE  /\ pool \in DOMAIN snapshot
         /\ IsFiniteSet(Joining(pool))
         /\ Total(Amount(pool), Joining(pool)) < Free(attempts, pool)
<1> DEFINE p == Planned(attempts)
           n == Len(p.decisions)
           cap == Capacity(attempts)
<1>1. MonitorInv /\ RunInv
  BY DEF AccountingInv
<1>2. Refresh(attempts) /\ ShipsOk(attempts, run', known, p.decisions, n)
  BY DEF Dispatched
<1>3. MemOk(p, cap, MemNeeds) /\ VramOk(p, cap, VramNeeds) /\ n \in Nat
  BY <1>2, PlanFits
<1>4. \A k \in 1 .. n : p.decisions[k].task.task \in Tasks
  BY <1>2, PlanFits, QueuedOnce DEF AccountingInv
<1>5. /\ cap.mem = Free(attempts, Mem) /\ DOMAIN cap.gpu = Gpus \cap DOMAIN snapshot
      /\ \A g \in DOMAIN cap.gpu : cap.gpu[g] = Free(attempts, g)
  BY DEF Capacity, Known
<1>6. PICK u \in Tasks : /\ run[u].worker = None /\ run'[u].worker # None
                         /\ Share(Estimate[u], run'[u].worker, pool) > 0
  BY DEF AdmittedTo
<1> HIDE DEF p, n, cap
<1>7. ASSUME NEW t \in Tasks \ InFlight, run'[t].worker # None
      PROVE  \E j \in 1 .. n : p.decisions[j].task.task = t /\ p.decisions[j].gpu = Pin[run'[t].worker]
  <2>1. PICK w \in Workers : /\ run'[t] = NewRun(w, known)
                             /\ \E j \in 1 .. n : /\ p.decisions[j].task.task = t
                                                  /\ p.decisions[j].gpu = Pin[w]
    BY <1>2, <1>7 DEF ShipsOk, Placed
  <2>2. run'[t].worker = w
    BY <2>1 DEF NewRun
  <2> QED
    BY <2>1, <2>2
<1>8. u \in Tasks \ InFlight
  BY <1>6 DEF InFlight
<1>9. PICK j \in 1 .. n : p.decisions[j].task.task = u /\ p.decisions[j].gpu = Pin[run'[u].worker]
  BY <1>6, <1>7, <1>8
<1>10. /\ IsFiniteSet(Ids(p)) /\ IsFiniteSet(IdsOn(p, pool))
       /\ Ids(p) \subseteq Tasks /\ IdsOn(p, pool) \subseteq Ids(p)
  <2>1. Ids(p) \subseteq Tasks
    BY <1>4 DEF Ids, n
  <2> QED
    BY <1>3, <2>1, IdsAreFinite DEF n
<1>11. \A t \in Tasks : MemNeeds[t] \in Nat /\ VramNeeds[t] \in Nat
  BY AmountsAssumption DEF MemNeeds, VramNeeds
<1>12. CASE pool = Mem
  <2>1. Joining(pool) \subseteq Ids(p)
    BY <1>7 DEF Joining, Ids, n
  <2>2. IsFiniteSet(Joining(pool))
    BY <1>10, <2>1, FS_Subset
  <2>3. Total(MemNeeds, Joining(pool)) <= Total(MemNeeds, Ids(p))
    BY <1>10, <1>11, <2>1, TotalGrows
  <2>4. Total(MemNeeds, Ids(p)) \in Nat /\ Total(MemNeeds, Joining(pool)) \in Nat
    <3>1. \A t \in Ids(p) : MemNeeds[t] \in Nat
      BY <1>10, <1>11
    <3>2. \A t \in Joining(pool) : MemNeeds[t] \in Nat
      BY <2>1, <3>1
    <3> QED
      BY <1>10, <2>2, <3>1, <3>2, TotalRemoves
  <2>5. p.decisions # <<>>
    <3>1. n # 0
      BY <1>3, <1>9
    <3> QED
      BY <3>1 DEF n
  <2>6. Free(attempts, pool) - Total(MemNeeds, Ids(p)) > 0
    BY <1>3, <1>5, <1>12, <2>5 DEF MemOk
  <2>7. Free(attempts, pool) \in Int
    <3>1. Used(pool) \in Nat
      BY <1>1, <1>12, UsedIsTotal DEF MonitorInv
    <3>2. TotalCommitted(attempts, pool) \in Nat
      BY <1>1, <1>2, CommittedIsNat
    <3> QED
      BY <3>1, <3>2, BudgetAssumption DEF Free
  <2>8. pool \in DOMAIN snapshot
    BY <1>1, <1>12 DEF MonitorInv
  <2>9. Amount(pool) = MemNeeds
    BY <1>12 DEF Amount
  <2>10. Total(MemNeeds, Joining(pool)) < Free(attempts, pool)
    BY <2>3, <2>4, <2>6, <2>7
  <2> QED
    BY <2>2, <2>8, <2>9, <2>10
<1>13. CASE pool # Mem
  <2>1. pool \in Gpus
    BY <1>13 DEF Pools
  <2>2. Joining(pool) \subseteq IdsOn(p, pool)
    <3>1. ASSUME NEW t \in Joining(pool) PROVE t \in IdsOn(p, pool)
      <4>1. t \in Tasks \ InFlight /\ run'[t].worker # None /\ Pin[run'[t].worker] = pool
        BY <1>13, <3>1 DEF Joining
      <4>2. PICK i \in 1 .. n : p.decisions[i].task.task = t /\ p.decisions[i].gpu = pool
        BY <1>7, <4>1
      <4> QED
        BY <4>2 DEF IdsOn, On, n
    <3> QED
      BY <3>1
  <2>3. IsFiniteSet(Joining(pool))
    BY <1>10, <2>2, FS_Subset
  <2>4. pool = Pin[run'[u].worker]
    BY <1>6, <1>13 DEF Share
  <2>5. j \in On(p, pool)
    BY <1>9, <2>4 DEF On, n
  <2>6. pool \in DOMAIN cap.gpu
    <3>1. p.decisions[j].gpu \in DOMAIN cap.gpu \cup {None}
      BY <1>3, <1>9 DEF VramOk, n
    <3> QED
      BY <1>9, <2>1, <2>4, <3>1, NoneAssumption
  <2>7. cap.gpu[pool] - Total(VramNeeds, IdsOn(p, pool)) > 0
    BY <1>3, <2>5, <2>6 DEF VramOk
  <2>8. pool \in DOMAIN snapshot /\ cap.gpu[pool] = Free(attempts, pool)
    BY <1>5, <2>6
  <2>9. Total(VramNeeds, Joining(pool)) <= Total(VramNeeds, IdsOn(p, pool))
    BY <1>10, <1>11, <2>2, TotalGrows
  <2>10. Total(VramNeeds, IdsOn(p, pool)) \in Nat /\ Total(VramNeeds, Joining(pool)) \in Nat
    <3>1. \A t \in IdsOn(p, pool) : VramNeeds[t] \in Nat
      BY <1>10, <1>11
    <3>2. \A t \in Joining(pool) : VramNeeds[t] \in Nat
      BY <2>2, <3>1
    <3> QED
      BY <1>10, <2>3, <3>1, <3>2, TotalRemoves
  <2>11. Free(attempts, pool) \in Int
    <3>1. Used(pool) \in Nat
      BY <1>1, <2>8, UsedIsTotal
    <3>2. TotalCommitted(attempts, pool) \in Nat
      BY <1>1, <1>2, CommittedIsNat
    <3> QED
      BY <3>1, <3>2, BudgetAssumption DEF Free
  <2>12. Amount(pool) = VramNeeds
    BY <1>13 DEF Amount
  <2>13. Total(VramNeeds, Joining(pool)) < Free(attempts, pool)
    BY <2>7, <2>8, <2>9, <2>10, <2>11
  <2> QED
    BY <2>3, <2>8, <2>12, <2>13
<1> QED
  BY <1>12, <1>13

(* What joins adds up worker by worker.                                   *)
LEMMA BroughtByWorker ==
  ASSUME RunInv', NEW pool \in Pools, IsFiniteSet(Joining(pool))
  PROVE  /\ Total(Brought(pool), Workers) = Total(Amount(pool), Joining(pool))
         /\ \A w \in Workers : Brought(pool)[w] \in Nat
         /\ \A t \in Joining(pool) : Brought(pool)[run'[t].worker] = Amount(pool)[t]
<1> DEFINE T == Joining(pool)
           f == Amount(pool)
           h == Brought(pool)
           on == [t \in T |-> run'[t].worker]
<1>1. \A t \in Tasks : f[t] \in Nat
  BY AmountsAssumption DEF Amount, MemNeeds, VramNeeds
<1>2. \A t \in T : t \in Tasks /\ t \in InFlight' /\ run'[t].worker \in Workers
  BY DEF Joining, InFlight, RunInv, Attempts, NoRun
<1>3. \A t, u \in T : run'[t].worker = run'[u].worker => t = u
  BY <1>2 DEF RunInv
<1>4. ASSUME NEW t \in T PROVE h[run'[t].worker] = f[t]
  <2>1. (CHOOSE u \in T : run'[u].worker = run'[t].worker) = t
    BY <1>3, <1>4
  <2> QED
    BY <1>2, <1>4, <2>1 DEF Brought
<1>5. \A w \in Workers : (\A t \in T : on[t] # w) => h[w] = 0
  BY DEF Brought
<1>6. ASSUME NEW w \in Workers PROVE h[w] \in Nat
  <2>1. CASE \E t \in T : run'[t].worker = w
    BY <1>1, <1>2, <1>4, <2>1
  <2>2. CASE ~ \E t \in T : run'[t].worker = w
    BY <2>2 DEF Brought
  <2> QED
    BY <2>1, <2>2
<1>7. /\ \A t \in T : f[t] \in Nat /\ on[t] \in Workers /\ h[on[t]] = f[t]
      /\ \A t, u \in T : on[t] = on[u] => t = u
  BY <1>1, <1>2, <1>3, <1>4
<1> HIDE DEF T, f, h, on
<1>8. Total(h, Workers) = Total(f, T)
  BY <1>5, <1>7, WorkersAssumption, TotalByWorker DEF T
<1> QED
  BY <1>4, <1>6, <1>8 DEF T, f, h

(* After a dispatch a worker owes at most what the snapshot shows of it,  *)
(* what is still committed to its task, and what joins.                   *)
LEMMA OwedAfter ==
  ASSUME AccountingInv, RunInv', NEW attempts, NEW known, Dispatched(attempts, known),
         NEW pool \in Pools, snapshot # None, pool \in DOMAIN snapshot, IsFiniteSet(Joining(pool)),
         NEW w \in Workers, CreditShown(w, pool)
  PROVE  /\ Owed(w, pool)' \in Nat
         /\ Owed(w, pool)' <= snapshot[pool][w] + CommittedAt(attempts, pool)[w] + Brought(pool)[w]
<1> DEFINE held == rss[w][pool]
           shown == snapshot[pool][w]
           committed == CommittedAt(attempts, pool)[w]
           brought == Brought(pool)[w]
           n == Len(Planned(attempts).decisions)
<1>1. MonitorInv /\ RunInv
  BY DEF AccountingInv
<1>2. Refresh(attempts) /\ ShipsOk(attempts, run', known, Planned(attempts).decisions, n)
      /\ rss' = rss
  BY DEF Dispatched
<1>3. shown \in Nat /\ committed \in Nat /\ brought \in Nat /\ held \in Nat
  BY <1>1, <1>2, UsedIsTotal, CommittedByWorker, BroughtByWorker DEF RunInv
<1>4. InFlight' = {t \in Tasks : run'[t].worker # None} /\ InFlight \subseteq InFlight'
  BY <1>2 DEF InFlight, ShipsOk, Refresh
<1>5. ASSUME NEW t \in InFlight', run'[t].worker = w
      PROVE  Owed(w, pool)' = run'[t].start[pool]
                              + Larger(Share(Estimate[t], w, pool), held - run'[t].start[pool])
  <2>1. TaskOf(w)' = {t}
    BY <1>5 DEF TaskOf, RunInv
  <2>2. Busy(w)' /\ The(w)' = t
    BY <2>1 DEF Busy, The
  <2>3. Owed(w, pool)' = (run[The(w)].start[pool]
                          + Larger(Share(Estimate[The(w)], w, pool), Held(The(w), pool)))'
    BY <2>2 DEF Owed, The
  <2>4. Held(The(w), pool)' = held - run'[t].start[pool]
    BY <1>2, <1>5, <2>2 DEF Held
  <2> QED
    BY <2>2, <2>3, <2>4
<1>6. CASE Busy(w)
  <2> DEFINE t == The(w)
             start == run[t].start[pool]
             share == Share(Estimate[t], w, pool)
             seen == attempts[t].observed[pool]
  <2>1. t \in InFlight /\ run[t].worker = w /\ t \in Tasks /\ TaskOf(w) = {t}
    BY <1>1, <1>6, OneTask DEF InFlight
  <2>2. run'[t] = attempts[t] /\ attempts[t].worker = w /\ attempts[t].start = run[t].start
    BY <1>2, <2>1 DEF ShipsOk, Refresh
  <2>3. Owed(w, pool)' = start + Larger(share, held - start)
    BY <1>4, <1>5, <2>1, <2>2
  <2>4. start \in Nat /\ share \in Nat
    BY <1>1, <2>1, AttemptFields, ShareIsNat
  <2>5. seen \in Nat
    <3>1. attempts[t] \in Attempts
      BY <1>2, <2>1, <2>2, WorkersAssumption DEF Refresh, NoRun, Attempts
    <3> QED
      BY <3>1 DEF Attempts
  <2>6. committed = Positive(share - seen)
    BY <1>6, <2>2 DEF CommittedAt, Committed
  <2>7. shown >= (IF held - start > share THEN held ELSE start + seen)
    <3>1. (\E u \in TaskOf(w) : Held(u, pool) > Share(Estimate[u], w, pool)) <=> held - start > share
      BY <2>1 DEF Held
    <3>2. CASE held - start > share
      BY <3>1, <3>2 DEF CreditShown
    <3>3. CASE ~ (held - start > share)
      BY <1>6, <2>2, <3>1, <3>3 DEF CreditShown, The
    <3> QED
      BY <3>2, <3>3
  <2> HIDE DEF t, start, share, seen, held, shown, committed, brought
  <2>8. start + Larger(share, held - start) \in Nat
    BY <1>3, <2>4 DEF Larger
  <2>9. start + Larger(share, held - start) <= shown + committed + brought
    <3>1. CASE held - start > share
      BY <1>3, <2>4, <2>7, <3>1 DEF Larger
    <3>2. CASE ~ (held - start > share)
      BY <1>3, <2>4, <2>5, <2>6, <2>7, <3>2 DEF Larger, Positive
    <3> QED
      BY <3>1, <3>2
  <2> QED
    BY <2>3, <2>8, <2>9 DEF shown, committed, brought
<1>7. CASE ~ Busy(w)
  <2>1. shown >= held
    <3>1. TaskOf(w) = {}
      BY <1>7 DEF Busy
    <3> QED
      BY <1>7, <3>1 DEF CreditShown
  <2>2. CASE \E t \in InFlight' : run'[t].worker = w
    <3>1. PICK t \in InFlight' : run'[t].worker = w
      BY <2>2
    <3>2. t \in Tasks \ InFlight /\ run'[t].worker # None
      BY <1>2, <1>4, <1>7, <3>1 DEF ShipsOk, Refresh, Busy, TaskOf
    <3>3. run'[t].start = rss[w]
      <4>1. PICK v \in Workers : run'[t] = NewRun(v, known)
        BY <1>2, <3>2 DEF ShipsOk, Placed
      <4>2. run'[t].worker = v /\ run'[t].start = rss[v]
        BY <4>1 DEF NewRun
      <4> QED
        BY <3>1, <4>2
    <3> DEFINE share == Share(Estimate[t], w, pool)
    <3>4. share \in Nat
      BY <3>2, ShareIsNat
    <3>5. Owed(w, pool)' = held + Larger(share, held - held)
      BY <1>5, <3>1, <3>3
    <3>6. share <= brought
      <4>1. CASE t \in Joining(pool)
        <5>1. brought = Amount(pool)[t]
          BY <3>1, <4>1, BroughtByWorker
        <5>2. Amount(pool)[t] \in Nat /\ share \in {0, Amount(pool)[t]}
          BY <3>2, AmountsAssumption DEF Amount, MemNeeds, VramNeeds, Share
        <5> QED
          BY <5>1, <5>2
      <4>2. CASE t \notin Joining(pool)
        <5>1. share = 0
          BY <3>1, <3>2, <4>2 DEF Joining, Share
        <5> QED
          BY <1>3, <5>1
      <4> QED
        BY <4>1, <4>2
    <3> HIDE DEF share, held, shown, committed, brought
    <3>7. /\ held + Larger(share, held - held) \in Nat
          /\ held + Larger(share, held - held) <= shown + committed + brought
      BY <1>3, <2>1, <3>4, <3>6 DEF Larger
    <3> QED
      BY <3>5, <3>7 DEF shown, committed, brought
  <2>3. CASE ~ \E t \in InFlight' : run'[t].worker = w
    <3>1. Owed(w, pool)' = held
      BY <1>2, <2>3 DEF Owed, Busy, TaskOf
    <3> HIDE DEF held, shown, committed, brought
    <3>2. held \in Nat /\ held <= shown + committed + brought
      BY <1>3, <2>1
    <3> QED
      BY <3>1, <3>2 DEF shown, committed, brought
  <2> QED
    BY <2>2, <2>3
<1> QED
  BY <1>6, <1>7

(* A dispatch that admits to a pool leaves what all workers may come to   *)
(* hold below the budget.                                                 *)
LEMMA AdmissionStep ==
  ASSUME AccountingInv, Dispatch, NEW pool \in Pools, snapshot # None, AdmittedTo(pool),
         \A w \in Workers : CreditShown(w, pool)
  PROVE  TotalOwed(pool)' < Budget[pool]
<1>1. PICK attempts, known : Dispatched(attempts, known)
  BY DispatchUnfolds
<1>2. MonitorInv /\ RunInv /\ RunInv' /\ Refresh(attempts)
  BY <1>1, DispatchStep DEF AccountingInv, Dispatched
<1>3. /\ pool \in DOMAIN snapshot /\ IsFiniteSet(Joining(pool))
      /\ Total(Amount(pool), Joining(pool)) < Free(attempts, pool)
  BY <1>1, JoiningFits
<1> DEFINE f == snapshot[pool]
           h == CommittedAt(attempts, pool)
           b == Brought(pool)
           k == [w \in Workers |-> Owed(w, pool)']
           fh == [w \in Workers |-> f[w] + h[w]]
           fhb == [w \in Workers |-> fh[w] + b[w]]
<1>4. /\ Used(pool) = Total(f, Workers) /\ Used(pool) \in Nat
      /\ \A w \in Workers : f[w] \in Nat
  BY <1>2, <1>3, UsedIsTotal
<1>5. /\ TotalCommitted(attempts, pool) = Total(h, Workers) /\ TotalCommitted(attempts, pool) \in Nat
      /\ \A w \in Workers : h[w] \in Nat
  BY <1>2, CommittedByWorker, CommittedIsNat
<1>6. Total(b, Workers) = Total(Amount(pool), Joining(pool)) /\ \A w \in Workers : b[w] \in Nat
  BY <1>2, <1>3, BroughtByWorker
<1>7. \A w \in Workers : k[w] \in Nat /\ k[w] <= f[w] + h[w] + b[w]
  BY <1>1, <1>2, <1>3, OwedAfter
<1>8. TotalOwed(pool)' = Total(k, Workers)
  BY OwedIsTotalAfter
<1> HIDE DEF f, h, b, k
<1>9. \A w \in Workers : /\ fh[w] = f[w] + h[w] /\ fh[w] \in Nat
                         /\ fhb[w] = fh[w] + b[w] /\ fhb[w] \in Nat /\ k[w] <= fhb[w]
  BY <1>4, <1>5, <1>6, <1>7
<1> HIDE DEF fh, fhb
<1>10. Total(fh, Workers) = Total(f, Workers) + Total(h, Workers)
  BY <1>4, <1>5, <1>9, WorkersAssumption, TotalAdds
<1>11. Total(fhb, Workers) = Total(fh, Workers) + Total(b, Workers)
  BY <1>6, <1>9, WorkersAssumption, TotalAdds
<1>12. Total(k, Workers) <= Total(fhb, Workers)
  BY <1>7, <1>9, WorkersAssumption, TotalIsMonotone
<1>13. Total(b, Workers) \in Nat /\ Total(k, Workers) \in Nat
  BY <1>6, <1>7, WorkersAssumption, TotalRemoves
<1>14. Total(b, Workers) < Budget[pool] - Used(pool) - TotalCommitted(attempts, pool)
  BY <1>3, <1>6 DEF Free
<1>15. Budget[pool] \in Int
  BY BudgetAssumption
<1> QED
  BY <1>4, <1>5, <1>8, <1>10, <1>11, <1>12, <1>13, <1>14, <1>15

-----------------------------------------------------------------------------
(* The invariant holds.                                                     *)

(* Every step keeps the invariant.                                        *)
LEMMA AccountingStep == AccountingInv /\ [Next]_vars => AccountingInv'
<1> SUFFICES ASSUME AccountingInv, [Next]_vars PROVE AccountingInv'
  OBVIOUS
<1>1. MonitorInv /\ RunInv /\ QueueInv
  BY DEF AccountingInv
<1>2. ASSUME UNCHANGED <<rss, run, returned>> PROVE RunInv' /\ InFlight' = InFlight
  BY <1>1, <1>2 DEF RunInv, InFlight
<1>3. ASSUME UNCHANGED <<queue, rr>>, InFlight' \subseteq InFlight PROVE QueueInv'
  BY <1>1, <1>3 DEF QueueInv
<1>4. ASSUME UNCHANGED monitorVars PROVE MonitorInv'
  BY <1>1, <1>4 DEF MonitorInv, monitorVars
<1>5. CASE Publish \/ \E pool \in Pools : Sample(pool) \/ SampleFails(pool)
  <2>1. MonitorInv'
    BY <1>5, MonitorStep
  <2>2. UNCHANGED <<rss, run, returned>> /\ UNCHANGED <<queue, rr>>
    BY <1>5 DEF Publish, Sample, SampleFails
  <2> QED
    BY <1>2, <1>3, <2>1, <2>2 DEF AccountingInv
<1>6. CASE \/ \E t \in Tasks : \/ \E pool \in Pools : Allocate(t, pool) \/ Release(t, pool)
                               \/ Return(t) \/ Collect(t)
           \/ \E w \in Workers : Retire(w)
  <2>1. RunInv' /\ InFlight' \subseteq InFlight
    BY <1>6, WorkerStep
  <2>2. UNCHANGED monitorVars /\ UNCHANGED <<queue, rr>>
    BY <1>6 DEF Allocate, Release, Return, Collect, Retire
  <2> QED
    BY <1>3, <1>4, <2>1, <2>2 DEF AccountingInv
<1>7. CASE Dispatch
  <2>1. UNCHANGED monitorVars
    BY <1>7 DEF Dispatch
  <2> QED
    BY <1>4, <1>7, <2>1, DispatchStep DEF AccountingInv
<1>8. CASE UNCHANGED vars
  BY <1>2, <1>3, <1>4, <1>8 DEF vars, monitorVars, AccountingInv
<1> QED
  BY <1>5, <1>6, <1>7, <1>8 DEF Next

(* The invariant is one.                                                  *)
LEMMA AccountingInvariant == Spec => []AccountingInv
<1> QED
  BY AccountingStarts, AccountingStep, PTL DEF Spec

(* Every variable is of its type: samples are whole, a task in flight runs *)
(* on a worker, the queue keeps the order of submission (monitor.py:77-119, *)
(* adaptive_executor.py:402-406).                                          *)
THEOREM AccountingTypes == Spec => []TypeOK
<1> QED
  BY AccountingInvariant, InvTypes, PTL

(* Nothing is counted twice: with up-to-date samples of a pool, all of it  *)
(* that is neither held nor promised is free, and no more                  *)
(* (accounting.py:1-13, adaptive_executor.py:616-645).                     *)
THEOREM NothingCountedTwice == Spec => []FreshAccountingIsExact
<1> QED
  BY AccountingInvariant, FreshIsExact, PTL

(* Only a dispatch admits.                                                *)
LEMMA AdmissionFitsStep ==
  ASSUME AccountingInv, [Next]_vars
  PROVE  \A pool \in Pools :
           /\ snapshot # None /\ AdmittedTo(pool)
           /\ \A w \in Workers : CreditShown(w, pool)
           => TotalOwed(pool)' < Budget[pool]
<1> SUFFICES ASSUME NEW pool \in Pools, snapshot # None, AdmittedTo(pool),
                    \A w \in Workers : CreditShown(w, pool)
             PROVE  TotalOwed(pool)' < Budget[pool]
  OBVIOUS
<1>1. PICK t \in Tasks : run[t].worker = None /\ run'[t].worker # None
  BY DEF AdmittedTo
<1>2. CASE Dispatch
  BY <1>2, AdmissionStep
<1>3. CASE ~ Dispatch
  <2>1. run' = run \/ \E u \in Tasks : Collect(u)
    BY <1>3 DEF Next, vars, Publish, Sample, SampleFails, Allocate, Release, Return, Retire
  <2>2. \A u \in Tasks : Collect(u) => run'[t].worker = None
    <3>1. ASSUME NEW u \in Tasks, Collect(u) PROVE run'[t].worker = None
      <4>1. run \in [Tasks -> Attempts \cup {NoRun}] /\ run' = [run EXCEPT ![u] = NoRun]
        BY <3>1 DEF Collect, AccountingInv, RunInv
      <4>2. run'[t] = run[t] \/ run'[t] = NoRun
        BY <4>1
      <4> QED
        BY <1>1, <4>2 DEF NoRun
    <3> QED
      BY <3>1
  <2> QED
    BY <1>1, <2>1, <2>2
<1> QED
  BY <1>2, <1>3

(* Admission keeps the headroom: whatever is admitted to a pool fits next *)
(* to all that the workers hold or were promised, as long as the snapshot *)
(* shows the usage that was credited (accounting.py:35-43,                *)
(* adaptive_executor.py:498-568).                                         *)
THEOREM AdmissionKeepsHeadroom == Spec => AdmissionFits
<1> QED
  BY AccountingInvariant, AdmissionFitsStep, PTL DEF Spec, AdmissionFits

=============================================================================
