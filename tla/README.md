# AdaptiveExecutor in TLA+

A verification project for `src/adaptive_executor`: a process-pool executor that learns what
each function needs and admits tasks so that memory, VRAM and workers are never overcommitted.
Line references are to `src/`; a bare line number in a module's comment is a line of
`adaptive_executor.py` in `Executor*.tla` and of `scheduling.py` in `Scheduling.tla` and
`Planner.tla`; the other modules name the file.

## 1. The system

| component | state it keeps | operations | correct when |
|---|---|---|---|
| **Planner** `scheduling.py` | none between cycles; in a cycle the free pools, occupants, held identities, blocked head and its reservation | `plan_dispatch`: front admission, canary, reservation, backfill rules (a) and (b) | a backfill never delays the head; an exclusive task is alone; one cold task per identity; a plan never overspends |
| **Executor** `adaptive_executor.py` | `_pending`, `_in_flight`, `_workers`, `_retiring`, the futures, `_next_gpu_index`, `_accepting`, `_threads_should_stop` | `submit`, `shutdown`, `Future.cancel`, and three threads: collector, dispatch (with `_check_workers`), timeouts | every accepted task is settled exactly once; nothing is lost or duplicated by crashes, timeouts, retries, recycling and shutdown |
| **Worker** `worker.py` | a process, a work queue and a result queue | `run`: take, execute, measure, report; crash; stop | a delivered result is not stranded when the worker leaves the pool |
| **Accounting** `accounting.py` and the polling in `adaptive_executor.py` | per task in flight: baseline, observed usage | `_capture_baseline`, `_refresh_observations`, committed memory and VRAM per GPU | what is committed and what is observed are not counted twice nor dropped; an overrun is not lent to others |
| **Profiles** `profiles.py` | per function (and key): observations, memory floor | `estimate`, `add`, `set_memory_floor`, `get`, `record`, `record_memory_floor` | estimates never fall below a crash floor; floors only rise until recovery; a learned function is not cold again |
| **Persistence** `profiles.py` | updates since the last save, the file | the debounced save, `_write_atomic`, `flush`, `_load` | the file is always one snapshot; a restart knows it; a clean exit loses nothing |
| **Monitor** `monitor.py` | the last snapshot | polls psutil and NVML | a snapshot may be old or lack a GPU: admission must cope |
| **Resolution, types, errors** `resolve.py`, `dtypes.py`, `errors.py` | none | validation at submit | sequential code, unit tests reach it |

How they interact. `submit` estimates a task from its profile and appends it to the queue. The
dispatch thread checks the workers, re-estimates the queue, calls the planner and ships each
decision to a worker over a `multiprocessing` queue, all in one critical section from the plan
to the last ship. The collector polls the result queues, updates the pool, the running set and
the profile, and settles futures. The timeout thread takes overdue tasks out of the running set
and may kill their workers. A dead worker is noticed by the dispatch thread (or by `shutdown`),
which drains its queue and retries or fails its task. Futures are settled, processes killed and
queues read *without* the lock.

What is hard. Four threads, the callers and the worker processes interleave; a task may be taken
by its result, its timeout, its worker's death, a cancel and a shutdown at about the same time;
a process that dies loses what its queue's feeder thread had not written yet; workers are
retired, replaced, poisoned and recycled while their results are on the way; the planner's two
backfill rules and the canary must agree over several admissions and several cycles; profiles
change under the queue; usage is read by two clocks that never meet; snapshots of the profiles
are taken under one lock and written under another, by three threads. `PROJECT.json` lists these hazards line by line.

## 2. The modules

| module | models |
|---|---|
| `Scheduling` | the operators of `scheduling.py`: a plan is the last of a chain of states, by `Occupy` along the running set and by `PlanStep` along the queue (recursive functions, so that proofs can speak of them); `Without`, what the executor keeps of its queue |
| `Planner` | one call of `plan_dispatch` as a state machine, an action per branch, its inputs chosen in `Init`; its invariants speak of every point of every plan |
| `PlannerProofs` | the theorems about `Planner` |
| `CycleProofs` | facts about sums, queues and one whole `PlanDispatch`, used by the proofs about `Executor` and `Accounting` |
| `Executor` | the executor's threads, its worker processes and their queues, with `Scheduling!PlanDispatch` as its planner (EXTENDS) |
| `ExecutorProofs` | the theorems about `Executor` that need no more than futures and penalties; the type invariant and the plan between its ships |
| `TypeProofs`, `SafetyProofs` | every action keeps the types; the inductive invariants of `Executor` and its safety theorems |
| `TaskLifecycle` | the abstract specification: what a caller is promised of one task |
| `ExecutorRefinement`, `RefinementProofs` | the refinement mapping from `Executor` to `TaskLifecycle`, and the proof that it is one |
| `Accounting` | monitor, dispatch and workers as three clocks over the same memory; `Scheduling!PlanDispatch` is its planner (EXTENDS) |
| `AccountingProofs` | the theorems about `Accounting` |
| `Profiles` | the operators of `LearnedProfile` and of the store: percentile, margin, floor, recovery, which bucket is selected |
| `ProfileStore` | the store, the file, the threads that save one to the other, kills and restarts (EXTENDS `Profiles`) |
| `Learning` | composes `ProfileStore` with the executor's side: estimates of waiting calls, results, crashes, shutdown |
| `LearningProofs` | the theorems about `Learning` |
| `MCPlanner`, `MCExecutor`, `MCAccounting`, `MCLearning` | the menus and constants the runs use |

### Planner and Scheduling

The record `p` of `Scheduling` is the state of `_Planner` (`_live_*`, `_rr`, the occupants, the
held identities, phase, head and reservation). The occupants are kept as what they give back by
each instant (`freed`) and as the set of their release times (`ends`), the two things
`_state_at` and `_compute_reservation` read from the list. Memory and VRAM are integers, as the
code only adds and compares; time is whole seconds below the horizon `Never`, which stands for
the infinite reservation. Admission keeps the code's strict comparisons. `lent` is a history
variable: what rule (b) admissions hold, which must be gone before the head starts.

### Executor

Each action is one critical section, or one effect outside the lock, of the thread it is named
for. `thread[th]` holds what that thread carries between its steps, `timer` the same for the
timeout thread:

| code | actions |
|---|---|
| `submit` | `SubmitEnter` (checks and estimate, unlocked), `SubmitAppend` (locked) |
| `Future.cancel` | `Cancel` |
| `_collect_results`, `_sweep_result_queues` | `Sweep`, `CheckQueue`, `ReadQueue`, `NextQueue` |
| `_process_result` | `ProcessResult` (locked), `SettleResult` (observation and future) |
| `_check_workers`, `_discard_queue`, `_handle_dead_worker` | `CheckWorkers`, `DrainQueue`, `DiscardQueue`, `RetryLost`, `FailLost` |
| `_check_timeouts`, `_escalate_kill` | `Overdue` (time), `ScanTimeouts`, `HandleTimeout`, `EscalateKill`, `SettleTimeout` |
| `_maybe_dispatch`, `_reestimate_pending` | `MaybeDispatch` (sweep, re-estimation, plan), then per decision `ReuseWorker`, `SpawnWorker`, `ReplaceWorker` or `LeaveQueued`, and `ShipTask` or `DropCancelled`, with the lock held throughout |
| `shutdown`, `_wait_for_in_flight`, `_stop_all_workers` | `Shutdown`, `FailPendingFutures`, `WaitForInFlight`, `StopThreads`, `StopAllWorkers`, `JoinWorkers`, `Close`, with `CheckWorkers` and what follows it in between |
| `Worker.run` | `TakeWork`, `TakeStop`, `Finish`, `Crash` |

The abstractions: a profile is unkeyed and has seen nothing or something (`samples` 0 or 1), and
what it then teaches is the constant `Learned`; its floor never recovers. The snapshot is
always there, nothing else uses memory and a running task's observed usage is 0, so the free
memory is the capacity less the commitments. Time is a choice: a task of `Slow` may become
overdue, a running task's remaining duration is unknown or any part of its estimate, the
re-estimation throttle lets any subset of the stale tasks through. A crashing process loses any
suffix of its unread results. Recording the observation and settling the future are one step,
so are recording the floor, doubling the estimate and re-queueing, and so are discarding a
queue and popping the dead worker's task: a step of another thread between the two commutes
with one of them. Joins have a timeout and therefore order nothing.

### Accounting

`rss[w][pool]` is what worker `w` really holds of a pool, the host's memory or one GPU. `Sample`,
`SampleFails` and `Publish` are the poll loop: memory first, then each GPU, in between anything
may happen; a GPU that fails is missing from the snapshot. `Allocate`, `Release` and `Return` are
the submitted functions, up to a peak that may exceed the estimate; what a function leaves
resident stays in its worker until `Retire`. `Dispatch` is `_maybe_dispatch` as one step: any
subset of the tasks in flight is due for a new sample, any of the samples may fail, the plan is
`PlanDispatch` of `Scheduling`, and each decision is shipped to an idle worker of that pin with a
new baseline. That the dispatch thread reads its samples one after the other makes no
difference: what others do between two of them commutes with one of them. Workers have fixed pins
here, which processes replace which is `Executor`'s subject. Other programs' use is constant and
part of `Budget`.

### Profiles, ProfileStore, Learning

Memory is in twentieths of a gigabyte, so that the safety margin (1.5 down to 1.0 in steps of
0.05) is exact; observations are whole gigabytes. VRAM and duration take the same percentile and
have no floor, and are left out. A profile that the `defaultdict` lacks is an empty one.

| code | actions |
|---|---|
| `record`, `record_memory_floor` (locked part) | `Update`, with the decision to save, used by `Record` and `RaiseFloor` |
| `_persist_snapshot`, `_write_atomic` | `BeginSave`, `ReplaceFile`, `FailSave` |
| `shutdown`, `_join_background_threads`, `flush` | `Shutdown`, `JoinThreads` (which may give up), `Flush` |
| a kill, a new process, `_load` | `NewProcess`, the file readable or not |
| `submit`, `_maybe_dispatch` | `Submit`, `Cycle` (any subset due for re-estimation, any starts the canary allows) |
| `_process_result` | `Collect` (locked), `Record` (unlocked, after it) |
| `_handle_dead_worker`, `_penalize_estimate` | `Lose`, `RaiseFloor`, `Requeue` |

`known` (the contents a store has had), `gaveUp`, `failed` and `streak` are history variables.
That `save_interval_seconds` have elapsed is a choice at every update; nothing checks it between
updates.

### TaskLifecycle

A task is new, queued, in flight, held (by whoever took it out of the running set) or settled.
Only held tasks get a result, a timeout or a crash; only never-dispatched tasks can be
cancelled; a retried task is exclusive from then on; an outcome is final.

## 3. The runs

| run | question | size |
|---|---|---|
| `planner` | Two menus of plans in one run. `OfMemory`: every queue of up to three tasks and every running set of up to three, with memory, cpu caps, exclusive tasks and known, unknown and no durations, with and without a snapshot. `OfPlaced`: three GPUs in round-robin order, one of them unknown to the snapshot, with cold, hinted and unrelated tasks. Does the head keep its reservation, are exclusive tasks alone, is there one cold task per identity, is nothing overspent, does a head no release can admit stop the plan? | 1.2 M states |
| `crash` | Two tasks of one function, two workers, two crashes (OOM or not), a cancelling caller: is a task ever lost, duplicated, weakened or run after its cancel? Is `TaskLifecycle` implemented? | 220 k states |
| `timeouts` | Timeouts under `fail_future` and under `kill_worker`, a function that raises, one crash, workers recycled after every task: one home per task, no stranded result, under `kill_worker` an idle worker really is idle, `TaskLifecycle`. | 785 k |
| `capacity` | Three tasks with three pins (two GPUs and none) on two workers, some of which do not fit together: one canary per profile, memory and VRAM, the pool's cap. | 173 k |
| `shutdown` | `shutdown(wait=True)` and `(wait=False)` against submits, cancels, ships, an OOM crash and results: who is abandoned, does a settled future ever change? | 1.7 M |
| `live` | Does every submitted task settle, on one worker whose pin has to change, although a task may hang and a worker may crash? | 20 k |
| `learning` | Three calls of one function, with and without key and hint, two OOM crashes, three saving threads, one restart: is the file ever anything but one snapshot, does a restart forget, does a clean exit lose anything, is a warm key ever cold again, does a floor fall, does a queued sibling keep an estimate below the floor? | 1.04 M |
| `accounting` | Two tasks on three workers, one of them overrunning its estimate or needing a GPU that snapshots may lack, with memory left resident: does an admission break the headroom when the snapshot shows what is credited, is anything counted twice? | 1.29 M |

`delivered`, `open_futures`, `overcommit` and `floor` end in the counterexamples of section 5.

**Bounds.** `MaxQueue` = 3 gives a queue a head, a task admitted before or around it, and one
more around both; `MaxWorkers` = 3 running tasks release at different instants; `Never` = 3
leaves durations 0, 1 and 2, so before, at and after a reservation. The menus of `MCPlanner`
hold tasks that fill the machine exactly, fall one short of it and exceed it. In `MCExecutor`
two tasks suffice for two threads to want one of them and for a second one to be retried or
planned next to it, and three to replace a worker pinned elsewhere. In `MCLearning`
`MaxObservations` = `RecoveryObservations` = 2 are the smallest values at which observations are
dropped and a single one does not recover a floor; `SaveEvery` = 2 makes some updates save and
others not; peaks of 0 and 2 GB lie below and above half of every floor. In `MCAccounting` the
two tasks of a line compete for a GPU or for memory that holds one of them and part of the other,
and a third worker is there for residual memory alone. `MaxCrashes` bounds the crashes of a behaviour; with `MaxRetries` = 1
it is high enough for a retry and then for a second crash. `MaxSpawns` bounds the processes,
one more than crashes, kills and replacements ask for at a time; the guard in `Spawn` is the
only place it appears. Results are read one worker at a time in any order, as the sweep does.
Deadlock is not checked: a plan ends, and an executor may rest idle or be shut down, a process
of `Learning` ended.
Symmetry is not used, as the tasks play different parts.

**Fairness** (`live` only). The dispatch loop and the worker processes are weakly fair: nothing
else ever makes them wait for good. `SubmitAppend`, the collector and the timeout
thread take the lock that the dispatch thread takes again and again, so their steps are not
continuously enabled; they get strong fairness, because the dispatch loop sleeps 10 ms without
the lock between any two cycles. A task that hangs becomes overdue since the clock runs (`Overdue`). A task of `Hung` never
finishes, so nothing is assumed of user code. Without shutdown only.

## 4. The proofs

TLAPS proves every invariant and action property that a passing run checks, and the refinement,
for all values of the constants that meet the assumptions below. One property is left to TLC:
`EveryTaskSettles`. Liveness under fairness is out of the prover's reach.

**Assumptions.** They are named, in the module that declares the constants; TLC evaluates them in
the runs.

- `Scheduling`: a positive pool size and horizon, `GpuOrder` a sequence, `None` neither a GPU nor
  an instant.
- `Planner`: the types of the menus, and in `Init` that at most `MaxWorkers` tasks are in flight, an
  exclusive one alone. `PlanInv` (its slots) and `ExclusiveRunsAlone` prove that of the executor.
- `Executor`: the types of estimates and of the machine, `BoundsAssumption` (natural numbers),
  `ModesAssumption` (the two timeout actions, the two ways to exit), and that `None` and `Stop` are
  no tasks, numbers, results or functions (`TasksAssumption`, `ApartAssumption`). The numbers of
  tasks, processes, crashes and retries are arbitrary.
- `Learning`, `ProfileStore`, `Profiles`: the types of hints, peaks and files, `None` apart from
  numbers, keys, threads and what a thread has in hand, and
  `RecoveryObservations <= MaxObservations`, without which no floor would ever recover.
- `Accounting`: as many workers as the pool's size, `None` none of them; pins, budgets and amounts
  of their types; no task twice in a queue.

**Induction.** The library's induction theorems take an operator as a parameter, which the back
ends cannot instantiate. Where the proofs need an induction they do it on a *set* of numbers that
contains 0 and is closed under successor: it is all of `Nat`, since its complement would have a
least element (`AllNaturals`, `EveryNumberIsReached`). That is how the chain of states of a plan,
`Without`, sums over finite sets, the observations read from a file and the decisions of a cycle
are reached; the community modules' folds are unfolded to the functions they stand for
(`TotalIsSummed`, `ShippedInOrder`). For the prover's sake `PlanDispatch` and `Without` are recursive functions rather
than folds and `SelectSeq`, and `Accounting!Sample` writes its function out rather than with `@@`.

### Planner (`PlannerProofs`), and a whole cycle (`CycleProofs`)

| theorem | property | argument |
|---|---|---|
| `TypeCorrect` | `TypeOK` | each operator of `Scheduling` keeps the type of `p` |
| `NoBackfillDelaysHead` | `HeadKeepsReservation` | `ReservationInv`: the pool at the reservation, less what rule (b) lent, still fits the head. An (a) admission was tested for it, a (b) admission adds as much to `lent` as it takes from the pool; and a finite reservation is an instant at which the head fitted |
| `CanaryHolds` | `OneColdPerIdentity` | `CanaryInv`: `held` contains every identity of a loaded running task and of a decision |
| `PlanWithinCapacity` | `WithinCapacity` | `CapacityInv`: slots in use are running plus planned, and the pool of a gated plan is positive after a decision because every admission is strict |
| `InfiniteReservationStalls` | `InfiniteReservationAdmitsNothing` | `DrainInv`: what has been given back is a step function of time that is constant after the last release, so a head that fits at no release time does not fit at the horizon either (`StuckHead`); rule (b) needs a finite reservation and rule (a) then refuses everybody |
| `ExclusiveAlone` | `ExclusiveRunsAlone` | `DrainInv`: an exclusive occupant or front admission closes the plan (`ExclusiveCloses`); an exclusive backfill would need empty slots, and a head blocked on an idle machine has no release to wait for (`IdleMachine`), hence stops the plan |
| `PlanIsSound` | | the same facts of the value of `PlanDispatch`, for any queue of distinct entries: by induction along the chain of states, decisions are entries of the queue, each once, within slots (`CycleOk`), and what they need in all is what left the pool (`BudgetOk`, a sum over the ids planned) |

The planner's invariants are inductive only together with `TypeOK` and with what `p` records of the
occupants.

### Executor (`ExecutorProofs`, `TypeProofs`, `SafetyProofs`, `RefinementProofs`)

| theorem | property | argument |
|---|---|---|
| `SettledForGood` | `SettledOnce` | each action that touches a future either guards its present state or settles it through `SettleFutures` (`Later`) |
| `CancelledStaysOut` | `CancelledNeverRuns` | `OnlyBegunRun`: a future that has begun is never cancelled, only tasks that have begun are marked as notified, and a work queue feeds a worker nothing but such tasks |
| `PenaltyIsForGood` | `PenaltyIsKept` | `PenaltyInv`: only a worker's current task can be lost, and it has begun, so a retried task is never new again and no submit overwrites its record; a re-estimate passes over retried tasks, and a second penalty doubles a natural number |
| `TypesAreRight` | `TypeOK` | `TypeInv`: what a thread carries is fixed by its program counter (`ThreadFits`) |
| `TasksHaveOneHome` | `EveryTaskHasOneHome` | `HomeInv`: queue, flight, timeout thread and each of the others are the places of a task; an open future has exactly one, and what its future and marks may be depends on which |
| `FlightIsWatched` | `InFlightIsWatched` | `WatchInv`: the worker of a task in flight has it as its current one, and is in the pool or being looked into as dead |
| `NothingIsStranded` | `NothingStranded` | `DrainInv`: before a shutdown, whoever is looked into is dead, and a queue is discarded only after it was drained of a dead process that writes no more |
| `PoolStaysWithinCap` | `PoolWithinCap` | `CapInv`, with the slots of `PlanInv`: tasks in flight and the rest of the plan fit the pool, so an idle worker can be replaced when it is full |
| `ExclusiveRunsAlone`, `OneCanaryRuns`, `FlightFitsMachine` | `ExclusiveAloneInFlight`, `OneCanaryPerProfile`, `InFlightFitsMachine` | `PlanInv`: between two ships, what is in flight *and* what the plan has still to ship is alone, holds one cold task per profile and fits memory and every GPU. `PlanIsSound` establishes it at the plan; a ship moves a task from one side to the other, everything else only takes away |
| `ShutdownWaits` | `ShutdownWaitsForWork` | `WaitInv`: after the refusal only late submits and retries are queued, after the wait only they are in flight; `HomeInv` leaves no other place for an open future but a thread's hands |
| `IdleWorkersAreReady` | `IdleWorkersAreFree` | `PipeInv`: under `kill_worker` a worker's current task is in exactly one place between its queue, its process, its results and the thread that reads them, and a worker without one is empty throughout; `BlankInv` for the ones to be spawned, `AsideInv` for the ones that have left |
| `ExecutorImplementsLife` | `ImplementsTaskLifecycle` | a task's phase is read off its future, the queue and the running set; `HomeInv` decides for every action which abstract step that is, the rest of the step leaves the task `Unseen` |

The inductive invariant is `ExecutorInv`: `TypeInv`, `HomeInv`, `PlanInv`, `CallerInv` (the threads
are told to stop exactly when a shutdown has come so far), `PoolInv`, `DeadInv`, `SecuredInv` (the
worker of the decision being shipped is idle), `WatchInv`, `DrainInv`, `CapInv`; the last two
properties add `SafetyInv`: `WaitInv`, `BlankInv`, `AsideInv`, `PipeInv`. The parts need each other:
no lost task may be queued again while it has another home, and that a dead worker's task has none
is known only because the worker was in the pool when the task was shipped.

### Learning (`LearningProofs`)

| theorem | property | argument |
|---|---|---|
| `SavesAreAtomic` | `FileIsOneSnapshot` | `SaverInv`: whatever a thread is about to write is a content the store has had, and the save lock belongs to a thread that is about to write |
| `CleanExit` | `CleanExitSavesAll` | `ExitInv`: once the join gave up on nobody, nothing runs and no background thread has anything in hand or to save, so nothing can change the store or the file but the caller's flush; `SaverInv` is needed for the lock: its holder must be the caller |
| `LearningTypes` | `TypeOK` | `LearnInv`: `StoresInv` (memory, file and every snapshot hold profiles), `CallsInv`, `HandsInv` (a call that is neither queued nor running is in the hand of one thread). An estimate is a natural number because a percentile is an observation and the margin is positive |
| `SkippedEntriesAreProtected` | `SkippedKeepsFloor` | a waiting call remembers the floor it was estimated under (`CallsInv`); one whose floor or sample count has changed is stale |
| `RestartLoadsTheFile` | `RestartsFromFile` | by induction over the observations of a file: loading appends them one by one, as many as the file kept, so none is dropped, and the floor is set last |
| `WarmKeysStayWarm` | `StaysWarm` | an update never empties the observations of a bucket, and a keyed bucket hides the base only once it has some of its own |
| `FloorsOnlyRise` | `FloorsRatchet` | a crash takes the larger of two floors; only `Recovered` clears one |

### Accounting (`AccountingProofs`)

| theorem | property | argument |
|---|---|---|
| `AccountingTypes` | `TypeOK` | `AccountingInv`: `MonitorInv` (memory is always part of a snapshot), `RunInv` (no worker runs two tasks: a decision is shipped to an idle one, `ShipsOk` along the decisions), `QueueInv` (what is left is the submitted queue without some tasks) |
| `NothingCountedTwice` | `FreshAccountingIsExact` | the sum over the tasks in flight is rearranged into a sum over the workers (`TotalByWorker`), and with fresh samples what a worker holds and what is still committed to its task are what it owes, worker by worker |
| `AdmissionKeepsHeadroom` | `AdmissionFits` | only a dispatch admits. What joins a pool is planned there, so it sums to less than what was found free (`JoiningFits`, from `PlanIsSound`); each worker owes afterwards at most what the snapshot shows, what is committed and what joins (`OwedAfter`), and the three sums add up to the budget |

`CreditShown`, the condition of `AdmissionFits`, is what the counterexample `overcommit` of section 5
lacks.

## 5. Where code and text disagree

Each of these is a run that ends in a counterexample.

- **`delivered`** `adaptive_executor.py:1123-1125`, "drain-then-discard so that result is not
  lost". The collector may have read the result and not yet processed it; the drain finds
  nothing, the future fails as crashed, and the result is dropped.
- **`open_futures`** `adaptive_executor.py:202`. A task whose worker is OOM-killed after the
  queue was refused is re-queued; `shutdown(wait=True)` sees nothing in flight and returns with
  that future open for good.
- **`overcommit`** `docs/features/executor.md:299-300`, "the headroom invariant is preserved
  (observed credit only ever frees admission capacity, never grants more than the estimate
  reserved)". Credit is sampled from the workers, usage from a snapshot that may be older: memory
  allocated in between is counted in neither, and a second task is admitted that does not fit.
  `AdmissionFits` says under which condition the headroom does hold.
- **`floor`** `README.md:125-127`, a floor is cleared "after five consecutive successful runs whose
  peak memory is below half the floor". The rule looks at the last five observations, which may be
  older than the crash that set the floor and may be of runs whose function raised.

Seen while modelling, without a run of their own:

- `adaptive_executor.py:330-331` says that backfill would route around an infeasible task;
  `InfiniteReservationStalls` proves that it admits nothing around one.
- `:1017-1019` says that nobody reads the queue of a poisoned worker; the flag is tested outside
  the lock that sets it (`:879`), so a read begun before goes on after.
- `:1003-1009`: the list of late tasks is made in one critical section and used in others; a task
  that has been retried since is timed out in its fresh attempt.
- `:1175-1177` takes a kill as proof that the task's estimate was too small; under `fail_future`
  the task may still have been waiting behind a timed-out one in the worker's queue.
- `README.md:92-95` says that a canary's siblings leave the queue with a learned estimate; the
  canary flag is fresh, the estimate up to 0.1 s old (`:425-427`).
- `adaptive_executor.py:283-285` says that a task that can never fit fails at the call site.
  Submission rejects `estimate > capacity`, the planner admits `estimate < free`: an estimate
  equal to the capacity is queued for ever and blocks the head.
- `scheduling.py:26` says that the head never starts later than under strict FIFO. Rule (a)
  compares resources: a hinted task of a cold head's identity may backfill, hold that identity
  through the reservation and keep the head waiting for the canary.
- `README.md:106-108` says that waiting tasks are re-estimated as their profile sharpens. The test
  is a sample count and a floor (`:432-436`): it misses a switch between base and keyed profile of
  equal counts, and everything once the profile holds its 100 observations.
- A keyed bucket hides the base profile's floor: a crash under one key does not floor the warm
  siblings under another.
- A canary leaves `_in_flight` before its observation is recorded (`:967-980`); in between a
  second cold task of its identity may start.
- `profiles.py:270-277`: a save counts as done when it is decided. One that fails is not retried
  before the next threshold, an older snapshot may be written over a newer one, and the interval is
  looked at only when something is recorded; the flush of a clean shutdown repairs all three.
- `docs/features/executor.md:337-338` says that corrupt profile data starts empty; `_load` does
  not catch `AttributeError` (a JSON list at the top level) or `UnicodeDecodeError`.
- Dispatch before the monitor's first snapshot is not gated by memory at all; memory that idle
  workers keep resident may keep a large head waiting for good, as nothing retires them for it.
- `start()` tests and sets `_started` without a lock (`:183-186`).
- `docs/OVERVIEW.md:165-166` says that exclusive tasks run alone from start to finish; under
  `fail_future` a timed-out task goes on running next to whatever is dispatched.

## 6. What is not modelled

- In `Executor`: observed usage (0 there; `Accounting` has it), a missing snapshot (`Planner` and
  `Accounting` have it), keys and floor recovery (`Learning` has them). Composing them into one
  state space is out of TLC's reach: `Executor`'s runs are near a million states without.
- Foreign memory use that changes, children of a worker that outlive it, a feeder thread wedged by
  a kill, several calls of `start()`, the context manager.
- The monitor's NVML start-up, shutdown and API fallbacks (sequential, no state that others read).
- `resolve.py`, `dtypes.py`, `errors.py`: one pass without state, or records.
- The harness under `tests/sim`: test code.

Hazards that this leaves uncovered are listed in `PROJECT.json` with a note.

## 7. Plan

Done: the planner, the executor and its refinement, the accounting with its two clocks, the profiles
with keys, floors and recovery, persistence with crashes and restarts; every safety and action
property the runs check and the refinement are proved. Left, the most important first:

1. `Backfill`: consecutive dispatch cycles with durations that come true, refined against FIFO
   admission (the head's start, not only its reservation), and then its proof: a head whose
   occupants keep their promises starts no later than its first reservation.
2. Proofs: a liveness argument's safety part, that a task overdue under `kill_worker` leaves its
   worker, from `PipeInv`.
3. A shorter `PlannerProofs`: its step lemmas and those of `CycleProofs` overlap where `Planner` and
   `PlanDispatch` take the same step.

The project keeps to about a dozen runs, each within five minutes: a new module shares a run with
a related one, or takes the place of a run whose counterexample has been settled.
