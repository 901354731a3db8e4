----------------------------- MODULE Accounting -----------------------------
(***************************************************************************)
(* How the executor decides what is free (accounting.py, monitor.py and    *)
(* the observed-usage polling of adaptive_executor.py): three clocks that  *)
(* read the same processes and never meet.                                 *)
(*                                                                         *)
(*   the monitor    reads memory, then each GPU, and publishes a snapshot  *)
(*   the dispatch   samples the growth of the workers in flight (at most   *)
(*                  every 0.1 s each), commits the rest of each estimate   *)
(*                  on top of the snapshot and ships a plan                *)
(*   the workers    allocate, free, return and keep part of it resident    *)
(*                                                                         *)
(* A pool is the host's memory or one GPU.  The executor sees the sum of a *)
(* pool over the workers; snapshots keep the workers' shares apart so that *)
(* properties can speak of them.  _maybe_dispatch is one step: it holds    *)
(* the lock, and what the workers and the monitor do meanwhile commutes    *)
(* with the samples it takes.  Which workers are idle and how they are     *)
(* replaced is the Executor module's; here a worker has a fixed pin, and   *)
(* Retire gives its slot a fresh process.  Amounts are whole gigabytes;    *)
(* other programs use a constant part, taken off the Budget.               *)
(***************************************************************************)
EXTENDS Scheduling, FiniteSets, Functions

CONSTANTS Queues,     \* the orders in which tasks may have been submitted
          Estimate,   \* each task's estimate, [mem, vram]
          Peak,       \* what each task really allocates at most, [mem, vram]
          Workers,    \* the pool's worker slots
          Pin,        \* each worker's GPU, or None
          Mem,        \* the name of the memory pool
          Budget,     \* total minus headroom minus other programs, per pool
          Keeps       \* what a task may leave resident in its worker

Tasks == UNION {Range(q) : q \in Queues}
Pools == {Mem} \cup Gpus

ASSUME MemAssumption == Mem \notin Gpus \cup {None}
ASSUME WorkersAssumption ==
  IsFiniteSet(Workers) /\ Cardinality(Workers) = MaxWorkers /\ None \notin Workers
ASSUME PinAssumption == Pin \in [Workers -> Gpus \cup {None}]
ASSUME BudgetAssumption == Budget \in [Pools -> Int]
ASSUME QueuesAssumption ==
  \A q \in Queues : q \in Seq(Tasks) /\ \A i, j \in DOMAIN q : q[i] = q[j] => i = j
ASSUME AmountsAssumption ==
  /\ Keeps \subseteq Nat
  /\ \A t \in Tasks : /\ Estimate[t].mem \in Nat /\ Estimate[t].vram \in Nat
                      /\ Peak[t].mem \in Nat /\ Peak[t].vram \in Nat

VARIABLES
  rss,       \* what each worker process holds of each pool
  reading,   \* the pools the monitor has read since it last published
  toRead,    \* the pools it has still to read
  snapshot,  \* monitor.current, None before the first poll
  queue,     \* the queue of waiting tasks
  run,       \* each task's attempt: [worker, start, known, observed, gated]
  returned,  \* tasks in flight whose result waits for the collector
  rr         \* _next_gpu_index

monitorVars == <<reading, toRead, snapshot>>
vars == <<rss, monitorVars, queue, run, returned, rr>>

NoRun == [worker |-> None, start |-> None, known |-> {}, observed |-> None, gated |-> TRUE]

InFlight == {t \in Tasks : run[t].worker # None}
TaskOf(w) == {t \in InFlight : run[t].worker = w}
Busy(w) == TaskOf(w) # {}

\* An amount of a task's [mem, vram] record that counts in a pool.
Share(amount, w, pool) ==
  IF pool = Mem THEN amount.mem ELSE IF pool = Pin[w] THEN amount.vram ELSE 0

Zero == [pool \in Pools |-> 0]
Positive(x) == IF x > 0 THEN x ELSE 0
Least(x, y) == IF x < y THEN x ELSE y

Init ==
  /\ rss = [w \in Workers |-> Zero]
  /\ reading = <<>> /\ toRead = Pools /\ snapshot = None
  /\ queue \in Queues
  /\ run = [t \in Tasks |-> NoRun]
  /\ returned = {}
  /\ rr = 0

-----------------------------------------------------------------------------
(* The monitor's thread: _poll_loop and snapshot.                           *)

Sample(pool) ==
  /\ pool \in toRead
  /\ pool # Mem => Mem \notin toRead
  /\ reading' = [p \in {pool} \cup DOMAIN reading |->
                   IF p = pool THEN [w \in Workers |-> rss[w][pool]] ELSE reading[p]]
  /\ toRead' = toRead \ {pool}
  /\ UNCHANGED <<rss, snapshot, queue, run, returned, rr>>

\* An NVML error leaves the GPU out of this snapshot.
SampleFails(g) ==
  /\ g \in toRead \ {Mem} /\ Mem \notin toRead
  /\ toRead' = toRead \ {g}
  /\ UNCHANGED <<rss, reading, snapshot, queue, run, returned, rr>>

Publish ==
  /\ toRead = {}
  /\ snapshot' = reading
  /\ reading' = <<>> /\ toRead' = Pools
  /\ UNCHANGED <<rss, queue, run, returned, rr>>

-----------------------------------------------------------------------------
(* The worker processes.                                                    *)

Allocate(t, pool) ==
  LET w == run[t].worker IN
    /\ t \in InFlight \ returned
    /\ rss[w][pool] < run[t].start[pool] + Share(Peak[t], w, pool)
    /\ rss' = [rss EXCEPT ![w][pool] = @ + 1]
    /\ UNCHANGED <<monitorVars, queue, run, returned, rr>>

Release(t, pool) ==
  LET w == run[t].worker IN
    /\ t \in InFlight \ returned
    /\ rss[w][pool] > 0
    /\ rss' = [rss EXCEPT ![w][pool] = @ - 1]
    /\ UNCHANGED <<monitorVars, queue, run, returned, rr>>

\* The function returns: memory above what it found is freed, but for what the
\* allocator keeps; a process never keeps more than it holds.
Return(t) ==
  LET w == run[t].worker IN
    /\ t \in InFlight \ returned
    /\ returned' = returned \cup {t}
    /\ \E kept \in Keeps :
         rss' = [rss EXCEPT ![w] =
                   [pool \in Pools |-> Least(@[pool], run[t].start[pool] + kept)]]
    /\ UNCHANGED <<monitorVars, queue, run, rr>>

\* A recycled or evicted worker: its successor holds nothing.
Retire(w) ==
  /\ ~ Busy(w) /\ rss[w] # Zero
  /\ rss' = [rss EXCEPT ![w] = Zero]
  /\ UNCHANGED <<monitorVars, queue, run, returned, rr>>

\* _process_result: the entry leaves in_flight.
Collect(t) ==
  /\ t \in returned
  /\ returned' = returned \ {t}
  /\ run' = [run EXCEPT ![t] = NoRun]
  /\ UNCHANGED <<rss, monitorVars, queue, rr>>

-----------------------------------------------------------------------------
(* Observed usage and commitments.                                          *)

\* _update_observed: growth above a known baseline; 0 when it cannot be read.
Observed(t, pool, readable) ==
  IF pool \notin run[t].known THEN run[t].observed[pool]
  ELSE IF <<t, pool>> \in readable
    THEN Positive(rss[run[t].worker][pool] - run[t].start[pool])
    ELSE 0

\* _refresh_observations: the entries whose last sample is old enough.
Refreshed(due, readable) ==
  [t \in Tasks |->
     IF t \in due
       THEN [run[t] EXCEPT !.observed = [pool \in Pools |-> Observed(t, pool, readable)]]
       ELSE run[t]]

CommittedOverrunBug(attempt, t, pool) ==
  Share(Estimate[t], attempt.worker, pool) - attempt.observed[pool]

CommittedTwiceBug(attempt, t, pool) == Share(Estimate[t], attempt.worker, pool)

\* committed_gb of one task in flight.
Committed(attempt, t, pool) ==
  Positive(Share(Estimate[t], attempt.worker, pool) - attempt.observed[pool])

TotalCommitted(attempts, pool) ==
  MapThenSumSet(LAMBDA t : Committed(attempts[t], t, pool), InFlight)

Used(pool) == MapThenSumSet(LAMBDA w : snapshot[pool][w], Workers)

\* What _build_dispatch_plan takes for free.
Free(attempts, pool) == Budget[pool] - Used(pool) - TotalCommitted(attempts, pool)

-----------------------------------------------------------------------------
(* The dispatch thread: _maybe_dispatch.                                    *)

Known == IF snapshot = None THEN Gpus ELSE Gpus \cap DOMAIN snapshot

Capacity(attempts) ==
  [gated |-> snapshot # None,
   mem   |-> IF snapshot = None THEN 0 ELSE Free(attempts, Mem),
   gpu   |-> [g \in Known |-> IF snapshot = None THEN 0 ELSE Free(attempts, g)],
   slots |-> Cardinality(InFlight),
   rr    |-> rr]

\* Durations are unknown, every estimate is a hint, nothing is exclusive.
Entry(t) ==
  [mem |-> Estimate[t].mem, vram |-> Estimate[t].vram, cpu |-> 1, dur |-> None,
   excl |-> FALSE, ident |-> None, cold |-> FALSE, task |-> t]

Occupant(attempt, t) ==
  LET g == Pin[attempt.worker] IN
    [mem |-> Committed(attempt, t, Mem), gpu |-> g, left |-> None, excl |-> FALSE,
     vram |-> IF g = None THEN 0 ELSE Committed(attempt, t, g), ident |-> None]

Planned(attempts) ==
  LET running == SetToSeq(InFlight) IN
    PlanDispatch([i \in DOMAIN queue |-> Entry(queue[i])],
                 [i \in DOMAIN running |-> Occupant(attempts[running[i]], running[i])],
                 Capacity(attempts))

\* _capture_baseline: the worker as it is now, as far as it can be read.
NewRun(w, readable) ==
  [worker |-> w, start |-> rss[w], known |-> {pool \in readable : pool \in {Mem, Pin[w]}},
   observed |-> Zero, gated |-> snapshot # None]

IdleFor(attempts, g) ==
  {w \in Workers : Pin[w] = g /\ \A t \in Tasks : attempts[t].worker # w}

\* One decision; without an idle worker the task stays queued.
Ship(attempts, d, readable) ==
  IF IdleFor(attempts, d.gpu) = {} THEN attempts
  ELSE [attempts EXCEPT ![d.task.task] =
          NewRun(CHOOSE w \in IdleFor(attempts, d.gpu) : TRUE, readable)]

KeptBug(attempts) == queue

\* The entries still queued after the decisions.
Kept(attempts) == Without(queue, {t \in Tasks : attempts[t].worker # None})

\* The observations this cycle may leave: which entries are due, and what of
\* them can be read.
Refreshes ==
  UNION {{Refreshed(due, readable) :
            readable \in SUBSET {x \in due \X Pools : x[2] \in run[x[1]].known}} :
         due \in SUBSET InFlight}

Dispatch ==
  /\ queue # <<>>
  /\ \E attempts \in Refreshes :
       LET plan == Planned(attempts) IN
         /\ rr' = plan.rr
         /\ \E known \in SUBSET Pools :
              run' = FoldLeft(LAMBDA acc, d : Ship(acc, d, known), attempts, plan.decisions)
         /\ queue' = Kept(run')
  /\ UNCHANGED <<rss, monitorVars, returned>>

Next ==
  \/ \E pool \in Pools : Sample(pool) \/ SampleFails(pool)
  \/ Publish
  \/ \E t \in Tasks : \/ \E pool \in Pools : Allocate(t, pool) \/ Release(t, pool)
                      \/ Return(t) \/ Collect(t)
  \/ \E w \in Workers : Retire(w)
  \/ Dispatch

Spec == Init /\ [][Next]_vars

-----------------------------------------------------------------------------
Shares == [Workers -> Nat]
Attempts ==
  [worker : Workers, start : [Pools -> Nat], known : SUBSET Pools, observed : [Pools -> Nat],
   gated : BOOLEAN]

(* The type of every variable; the monitor's published and half-taken       *)
(* snapshots lack at most GPUs, the queue keeps the order of submission     *)
(* (monitor.py:77-119, adaptive_executor.py:402-406).                       *)
TypeOK ==
  /\ rss \in [Workers -> [Pools -> Nat]]
  /\ toRead \subseteq Pools
  /\ DOMAIN reading \subseteq Pools \ toRead
  /\ \A pool \in DOMAIN reading : reading[pool] \in Shares
  /\ snapshot # None =>
       /\ Mem \in DOMAIN snapshot
       /\ \A pool \in DOMAIN snapshot : pool \in Pools /\ snapshot[pool] \in Shares
  /\ \A t \in Tasks : run[t] \in Attempts \cup {NoRun}
  /\ \E q \in Queues : queue = Without(q, Tasks \ Range(queue))
  /\ Range(queue) \cap InFlight = {}
  /\ returned \subseteq InFlight
  /\ rr \in 0 .. Len(GpuOrder)

Grown(w, pool) == \A t \in TaskOf(w) : rss[w][pool] >= run[t].start[pool]
Held(t, pool) == rss[run[t].worker][pool] - run[t].start[pool]
Larger(x, y) == IF x > y THEN x ELSE y

\* What a worker may come to hold: what it held when its task started and the
\* larger of the estimate and the real use on top of it.
Owed(w, pool) ==
  IF Busy(w)
    THEN LET t == CHOOSE t \in TaskOf(w) : TRUE IN
           run[t].start[pool] + Larger(Share(Estimate[t], w, pool), Held(t, pool))
    ELSE rss[w][pool]
TotalOwed(pool) == MapThenSumSet(LAMBDA w : Owed(w, pool), Workers)

\* The snapshot shows what the accounting leaves out: all of an idle or an
\* overrunning worker, of the others what their tasks are credited with.
CreditShown(w, pool) ==
  LET over == \E t \in TaskOf(w) : Held(t, pool) > Share(Estimate[t], w, pool)
      held == IF Busy(w) /\ ~ over
                THEN LET t == CHOOSE t \in TaskOf(w) : TRUE IN
                       run[t].start[pool] + run'[t].observed[pool]
                ELSE rss[w][pool]
  IN snapshot[pool][w] >= held

AdmittedTo(pool) ==
  \E t \in Tasks : /\ run[t].worker = None /\ run'[t].worker # None
                   /\ Share(Estimate[t], run'[t].worker, pool) > 0

(* Admission keeps the headroom: what is admitted to a pool fits next to    *)
(* what every worker holds or was promised, as long as the snapshot shows   *)
(* the usage credited to the tasks in flight; an overrun is never lent to   *)
(* others (accounting.py:35-43, adaptive_executor.py:498-568).              *)
AdmissionFits ==
  [][\A pool \in Pools :
       /\ snapshot # None /\ AdmittedTo(pool)
       /\ \A w \in Workers : CreditShown(w, pool)
       => TotalOwed(pool)' < Budget[pool]]_vars

\* Every sample of a pool is up to date.
Fresh(pool) ==
  /\ snapshot # None /\ pool \in DOMAIN snapshot
  /\ \A w \in Workers : snapshot[pool][w] = rss[w][pool] /\ Grown(w, pool)
  /\ \A t \in InFlight : run[t].observed[pool] = Held(t, pool)

(* Nothing is counted twice: with up-to-date samples all of the pool that   *)
(* is neither held nor promised is free, a realized allocation counting     *)
(* once, in the snapshot (accounting.py:1-13, adaptive_executor.py:616-645).*)
FreshAccountingIsExact ==
  \A pool \in Pools : Fresh(pool) => Free(run, pool) = Budget[pool] - TotalOwed(pool)

-----------------------------------------------------------------------------
(* What a document says of the accounting, and the code does not do.        *)

(* docs/features/executor.md:294-300: "the headroom invariant is preserved  *)
(* (observed credit only ever frees admission capacity, never grants more   *)
(* than the estimate reserved)": once there are snapshots, the estimates in *)
(* flight fit every pool.                                                   *)
HeadroomPreserved ==
  (\A t \in InFlight : run[t].gated) =>
    \A pool \in Pools :
      MapThenSumSet(LAMBDA t : Share(Estimate[t], run[t].worker, pool), InFlight) <= Budget[pool]
=============================================================================
