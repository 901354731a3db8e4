------------------------------ MODULE Executor ------------------------------
(***************************************************************************)
(* AdaptiveExecutor (adaptive_executor.py) with its worker processes: the  *)
(* threads that share it, one step per critical section or per externally  *)
(* visible effect.                                                         *)
(*                                                                         *)
(*   callers      submit, cancel and (once) shut down                      *)
(*   collector    _collect_results                                         *)
(*   dispatch     _dispatch_loop: _check_workers, then _maybe_dispatch     *)
(*   timer        _check_timeouts                                          *)
(*   workers      Worker.run in its own process, behind two queues         *)
(*                                                                         *)
(* The executor's lock is held across steps only by _maybe_dispatch, from  *)
(* its plan to its last decision (Unlocked); every other critical section  *)
(* is one step.  Work a thread does outside the lock - reading a queue,    *)
(* settling a future, killing a process - is a step of its own, and what   *)
(* the thread carries from one step to the next is in its record.          *)
(*                                                                         *)
(* Time is abstract: a task in flight may become overdue (later than the   *)
(* timeout) or overrun its learned duration at any moment.  A profile is   *)
(* the number of its observations, capped at one, and its floor; what one  *)
(* observation teaches is the constant Learned.                            *)
(***************************************************************************)
EXTENDS Scheduling, FiniteSets

CONSTANTS Tasks,        \* the calls of submit
          Fn,           \* the profile each task estimates from: Tasks -> Fns
          Unlearned,    \* each task's estimate while its profile is empty
          Learned,      \* each task's estimate once its profile has observations
          Hinted,       \* tasks submitted with memory_gb or vram_gb
          Memory,       \* memory_total_gb - memory_headroom_gb
          Vram,         \* vram_total_gb - vram_headroom_gb, per known GPU
          OnTimeouts,   \* the modes on_timeout may have: "fail_future", "kill_worker"
          MaxRetries,   \* max_resource_crash_retries
          Recycle,      \* worker_recycle_after_tasks, or None
          Waits,        \* the values of wait shutdown may be called with
          Raises,       \* tasks whose function raises
          Slow,         \* tasks that may run into the timeout
          Hung,         \* tasks that never return
          Cancels,      \* tasks whose caller may cancel them
          Shutdowns,    \* whether a caller may shut the executor down
          CrashExits,   \* exits a worker may crash with: "oom", "error"
          MaxCrashes,   \* bound on the crashes of a behaviour
          MaxSpawns     \* bound on the worker processes of a behaviour

EstimateType == [mem : Nat, vram : Nat, cpu : Nat, dur : Nat \cup {None}]

ASSUME EstimatesAssumption ==
  Unlearned \in [Tasks -> EstimateType] /\ Learned \in [Tasks -> EstimateType]
Fns == {Fn[t] : t \in Tasks}
Workers == 1 .. MaxSpawns
Stop == "stop"          \* the sentinel None of a work queue
ResultType == [task : Tasks, ok : BOOLEAN]

\* None is neither a task, a profile, a number nor a result, and no task is Stop.
ASSUME TasksAssumption == None \notin Tasks /\ Stop \notin Tasks
ASSUME ApartAssumption == None \notin Nat /\ None \notin ResultType /\ None \notin Fns
ASSUME BoundsAssumption == MaxRetries \in Nat /\ MaxCrashes \in Nat /\ MaxSpawns \in Nat
ASSUME ModesAssumption ==
  /\ OnTimeouts \subseteq {"fail_future", "kill_worker"} /\ Waits \subseteq BOOLEAN
  /\ CrashExits \subseteq {"oom", "error"}
ASSUME MachineAssumption ==
  Memory \in Int /\ DOMAIN Vram \subseteq Gpus /\ \A g \in DOMAIN Vram : Vram[g] \in Int
Threads == {"collector", "dispatch", "caller"}

VARIABLES
  future,      \* each task's future
  work,        \* each task's PendingWork
  pending,     \* the queue of waiting tasks
  inFlight,    \* the tasks in in_flight
  pool,        \* the worker ids in self.workers
  retiring,    \* the worker ids in self._retiring
  slot,        \* each worker's WorkerSlot
  spawned,     \* how many workers were ever spawned
  proc,        \* each worker's process: [alive, exit, task]
  workQueue,   \* each worker's work queue
  resultQueue, \* each worker's result queue
  profile,     \* the profile store: [samples, floor] per function
  plan,        \* the decisions _maybe_dispatch has still to ship
  rr,          \* _next_gpu_index
  thread,      \* what the collector, dispatch and shutdown threads carry
  timer,       \* what the timeout thread carries
  overdue,     \* in-flight tasks later than task_timeout_seconds
  accepting,   \* _accepting
  stopping,    \* _threads_should_stop
  wait,        \* shutdown's wait
  onTimeout,   \* on_timeout
  crashes,     \* crashes so far
  ran          \* history: the tasks some worker began to execute

taskVars   == <<future, work, overdue>>
queueVars  == <<pending, inFlight>>
poolVars   == <<pool, retiring, slot, spawned>>
procVars   == <<proc, workQueue, resultQueue, crashes, ran>>
planVars   == <<plan, rr>>
ctrlVars   == <<accepting, stopping, wait, onTimeout>>
vars == <<taskVars, queueVars, poolVars, procVars, profile, planVars, thread, timer, ctrlVars>>

-----------------------------------------------------------------------------
(* Futures.  "new" has no Future yet; "entering" is inside submit.          *)

Waiting  == {"pending", "running"}
Settled  == {"result", "raised", "timeout", "crashed", "refused", "infeasible", "cancelled"}
Outcomes == {"new", "entering", "rejected"} \cup Waiting \cup Settled

Done(t) == future[t] \in Settled

SettleAlwaysBug(f, S, outcome) == [t \in Tasks |-> IF t \in S THEN outcome ELSE f[t]]

\* _settle_future_result and _settle_future_exception: a done future stays.
SettleFutures(f, S, outcome) ==
  [t \in Tasks |-> IF t \in S /\ f[t] \notin Settled THEN outcome ELSE f[t]]

-----------------------------------------------------------------------------
(* Estimates and capacity.                                                  *)

Larger(a, b) == IF a > b THEN a ELSE b

\* LearnedProfile.estimate, hints and safety margin included, floor on top.
Estimate(t) ==
  LET prof == profile[Fn[t]]
      base == IF prof.samples > 0 THEN Learned[t] ELSE Unlearned[t]
  IN [base EXCEPT !.mem = IF prof.floor = None THEN @ ELSE Larger(@, prof.floor)]

\* _infeasible_estimate against the total capacity.
Infeasible(est) ==
  \/ est.mem > Memory
  \/ est.vram > 0 /\ DOMAIN Vram # {} /\ \A g \in DOMAIN Vram : est.vram > Vram[g]

\* in_flight without t.
PoppedGetBug(t) == inFlight
Popped(t) == inFlight \ {t}

Committed(S) == MapThenSumSet(LAMBDA t : work[t].est.mem, S)
CommittedVram(S, g) ==
  MapThenSumSet(LAMBDA t : work[t].est.vram, {t \in S : work[t].gpu = g})

\* _penalize_estimate: twice the estimate, alone, duration forgotten.
Penalized(w) ==
  [w EXCEPT !.est.mem = 2 * w.est.mem, !.est.vram = 2 * w.est.vram, !.est.dur = None,
            !.excl = TRUE]

\* A crashed task's PendingWork back in the queue.
Retried(w) ==
  [Penalized(w) EXCEPT !.retries = @ + 1, !.gpu = None, !.worker = None, !.ignored = FALSE]

FloorRaised(prof, floor) ==
  [prof EXCEPT !.floor = IF prof.floor = None THEN floor ELSE Larger(prof.floor, floor)]

\* cold and late are histories: planned as a cold task, and queued after a
\* shutdown had refused the queue.
NewWork(t) ==
  [est |-> Estimate(t), samples |-> profile[Fn[t]].samples, floor |-> profile[Fn[t]].floor,
   retries |-> 0, excl |-> FALSE, ignored |-> FALSE, notified |-> FALSE,
   gpu |-> None, worker |-> None, cold |-> FALSE, late |-> FALSE]

-----------------------------------------------------------------------------
(* Workers and threads at rest.                                             *)

NewSlot(gpu) ==
  [pin |-> gpu, current |-> None, stopped |-> FALSE, poisoned |-> FALSE,
   discarded |-> FALSE, completed |-> 0]

\* pc; todo: workers still to visit, dead: those of them taken out of the pool;
\* slot, buf: the worker being visited and what was read of its queue; hand: a
\* result to settle; lost: a task to retry or fail.
AtRest(pc) ==
  [pc |-> pc, todo |-> {}, dead |-> {}, slot |-> None, buf |-> <<>>, hand |-> None,
   lost |-> None]

\* Nobody is inside _maybe_dispatch's critical section.
UnlockedAlwaysBug == TRUE
Unlocked == thread["dispatch"].pc # "ship"
Alive(w) == proc[w].alive

Init ==
  /\ future = [t \in Tasks |-> "new"]
  /\ profile = [f \in Fns |-> [samples |-> 0, floor |-> None]]
  /\ work = [t \in Tasks |-> NewWork(t)]
  /\ pending = <<>> /\ inFlight = {}
  /\ pool = {} /\ retiring = {} /\ spawned = 0
  /\ slot = [w \in Workers |-> NewSlot(None)]
  /\ proc = [w \in Workers |-> [alive |-> FALSE, exit |-> None, task |-> None]]
  /\ workQueue = [w \in Workers |-> <<>>]
  /\ resultQueue = [w \in Workers |-> <<>>]
  /\ plan = <<>> /\ rr = 0
  /\ thread = [th \in Threads |->
                 AtRest(CASE th = "collector" -> "idle"
                          [] th = "dispatch"  -> "top"
                          [] th = "caller"    -> "up")]
  /\ timer = [todo |-> {}, task |-> None, victim |-> None]
  /\ overdue = {}
  /\ accepting = TRUE /\ stopping = FALSE /\ wait = TRUE /\ onTimeout \in OnTimeouts
  /\ crashes = 0 /\ ran = {}

-----------------------------------------------------------------------------
(* Callers.                                                                 *)

\* submit up to its critical section: the shutdown check, the estimate and
\* the feasibility check are made without the lock.
SubmitEnter(t) ==
  /\ future[t] = "new"
  /\ accepting /\ ~ stopping
  /\ work' = [work EXCEPT ![t] = NewWork(t)]
  /\ future' = [future EXCEPT ![t] = IF Infeasible(Estimate(t)) THEN "rejected" ELSE "entering"]
  /\ UNCHANGED <<overdue, queueVars, poolVars, procVars, profile, planVars, thread, timer, ctrlVars>>

SubmitAppend(t) ==
  /\ future[t] = "entering"
  /\ Unlocked
  /\ future' = [future EXCEPT ![t] = "pending"]
  /\ pending' = Append(pending, t)
  /\ work' = [work EXCEPT ![t].late = thread["caller"].pc \notin {"up", "failing"}]
  /\ UNCHANGED <<overdue, inFlight, poolVars, procVars, profile, planVars, thread, timer, ctrlVars>>

\* Future.cancel: succeeds only until the running handshake.
Cancel(t) ==
  /\ t \in Cancels
  /\ future[t] = "pending"
  /\ future' = [future EXCEPT ![t] = "cancelled"]
  /\ UNCHANGED <<work, overdue, queueVars, poolVars, procVars, profile, planVars, thread, timer, ctrlVars>>

\* shutdown, up to the refusal of the queue.
Shutdown ==
  /\ Shutdowns
  /\ thread["caller"].pc = "up"
  /\ accepting' = FALSE
  /\ wait' \in Waits
  /\ thread' = [thread EXCEPT !["caller"].pc = "failing"]
  /\ UNCHANGED <<taskVars, queueVars, poolVars, procVars, profile, planVars, timer, stopping,
                 onTimeout>>

FailPendingFutures ==
  /\ thread["caller"].pc = "failing"
  /\ Unlocked
  /\ future' = SettleFutures(future, Range(pending), "refused")
  /\ pending' = <<>>
  /\ thread' = [thread EXCEPT !["caller"].pc = IF wait THEN "top" ELSE "stop"]
  /\ UNCHANGED <<work, overdue, inFlight, poolVars, procVars, profile, planVars, timer, ctrlVars>>

QuietQueueBug == pending = <<>>
Quiet == inFlight = {}

\* The exit of _wait_for_in_flight.
WaitForInFlight ==
  /\ thread["caller"].pc = "check"
  /\ Unlocked
  /\ thread' = [thread EXCEPT !["caller"].pc = IF Quiet THEN "stop" ELSE "top"]
  /\ UNCHANGED <<taskVars, queueVars, poolVars, procVars, profile, planVars, timer, ctrlVars>>

StopThreads ==
  /\ thread["caller"].pc = "stop"
  /\ stopping' = TRUE
  /\ thread' = [thread EXCEPT !["caller"].pc = "stopAll"]
  /\ UNCHANGED <<taskVars, queueVars, poolVars, procVars, profile, planVars, timer, accepting,
                 wait, onTimeout>>

\* _stop_all_workers, without the lock: first the sentinels, then a second look
\* at the pool decides which workers are joined, drained and discarded.
StopAllWorkers ==
  /\ thread["caller"].pc = "stopAll"
  /\ slot' = [w \in Workers |-> [slot[w] EXCEPT !.stopped = @ \/ w \in pool]]
  /\ workQueue' = [w \in Workers |-> IF w \in pool THEN Append(workQueue[w], Stop)
                                     ELSE workQueue[w]]
  /\ thread' = [thread EXCEPT !["caller"].pc = "join"]
  /\ UNCHANGED <<taskVars, queueVars, pool, retiring, spawned, proc, resultQueue, crashes, ran,
                  profile, planVars, timer, ctrlVars>>

\* The joins give up after their timeout, so they order nothing.
JoinWorkers ==
  /\ thread["caller"].pc = "join"
  /\ LET left == pool \cup retiring IN
       thread' = [thread EXCEPT !["caller"].pc = IF left = {} THEN "close" ELSE "reap",
                                !["caller"].todo = left]
  /\ UNCHANGED <<taskVars, queueVars, poolVars, procVars, profile, planVars, timer, ctrlVars>>

-----------------------------------------------------------------------------
(* Worker processes (worker.py).                                            *)

\* A process that dies abruptly loses the results its feeder thread had not
\* written to the pipe yet: a suffix of its result queue.
Dies(w, exit) ==
  /\ proc' = [proc EXCEPT ![w] = [alive |-> FALSE, exit |-> exit, task |-> None]]
  /\ \E n \in 0 .. Len(resultQueue[w]) :
       resultQueue' = [resultQueue EXCEPT ![w] = SubSeq(@, 1, n)]

TakeWork(w) ==
  /\ Alive(w) /\ proc[w].task = None
  /\ workQueue[w] # <<>> /\ Head(workQueue[w]) # Stop
  /\ proc' = [proc EXCEPT ![w].task = Head(workQueue[w])]
  /\ workQueue' = [workQueue EXCEPT ![w] = Tail(@)]
  /\ ran' = ran \cup {Head(workQueue[w])}
  /\ UNCHANGED <<taskVars, queueVars, poolVars, resultQueue, crashes, profile, planVars, thread,
                 timer, ctrlVars>>

\* The stop sentinel ends the loop; the feeder thread is joined at exit.
TakeStop(w) ==
  /\ Alive(w) /\ proc[w].task = None
  /\ workQueue[w] # <<>> /\ Head(workQueue[w]) = Stop
  /\ proc' = [proc EXCEPT ![w] = [alive |-> FALSE, exit |-> "stop", task |-> None]]
  /\ workQueue' = [workQueue EXCEPT ![w] = Tail(@)]
  /\ UNCHANGED <<taskVars, queueVars, poolVars, resultQueue, crashes, ran, profile, planVars,
                 thread, timer, ctrlVars>>

Finish(w) ==
  /\ Alive(w) /\ proc[w].task # None /\ proc[w].task \notin Hung
  /\ proc' = [proc EXCEPT ![w].task = None]
  /\ resultQueue' = [resultQueue EXCEPT ![w] =
                       Append(@, [task |-> proc[w].task, ok |-> proc[w].task \notin Raises])]
  /\ UNCHANGED <<taskVars, queueVars, poolVars, workQueue, crashes, ran, profile, planVars,
                 thread, timer, ctrlVars>>

Crash(w) ==
  /\ Alive(w) /\ crashes < MaxCrashes
  /\ \E exit \in CrashExits : Dies(w, exit)
  /\ crashes' = crashes + 1
  /\ UNCHANGED <<taskVars, queueVars, poolVars, workQueue, ran, profile, planVars, thread,
                 timer, ctrlVars>>

-----------------------------------------------------------------------------
(* Results: what the collector, and whoever drains a worker, do with them.  *)

\* _read_queue past its check: everything there, or nothing if closed.
Delivered(w) == IF slot[w].discarded THEN <<>> ELSE resultQueue[w]

Emptied(w) == [resultQueue EXCEPT ![w] = IF slot[w].discarded THEN @ ELSE <<>>]

\* _sweep_result_queues: the workers are listed under the lock ...
Sweep ==
  /\ thread["collector"].pc = "idle"
  /\ ~ stopping \/ inFlight # {}
  /\ Unlocked /\ pool # {}
  /\ thread' = [thread EXCEPT !["collector"].pc = "sweep", !["collector"].todo = pool]
  /\ UNCHANGED <<taskVars, queueVars, poolVars, procVars, profile, planVars, timer, ctrlVars>>

\* ... and visited without it: the poisoned and discarded flags are checked,
CheckQueue(w) ==
  /\ thread["collector"].pc = "sweep" /\ w \in thread["collector"].todo
  /\ thread' = [thread EXCEPT !["collector"] =
       LET rest == @.todo \ {w} IN
       IF ~ slot[w].poisoned /\ ~ slot[w].discarded
         THEN [@ EXCEPT !.pc = "read", !.todo = rest, !.slot = w]
         ELSE [@ EXCEPT !.pc = IF rest = {} THEN "idle" ELSE "sweep", !.todo = rest]]
  /\ UNCHANGED <<taskVars, queueVars, poolVars, procVars, profile, planVars, timer, ctrlVars>>

\* then the queue is read.
ReadQueue ==
  /\ thread["collector"].pc = "read"
  /\ LET w == thread["collector"].slot IN
       /\ resultQueue' = Emptied(w)
       /\ thread' = [thread EXCEPT !["collector"].pc = "drain", !["collector"].buf = Delivered(w)]
  /\ UNCHANGED <<taskVars, queueVars, poolVars, proc, workQueue, crashes, ran, profile, planVars,
                 timer, ctrlVars>>

Settling(th) == thread[th].pc = "drain" /\ thread[th].hand # None
Processing(th) == thread[th].pc = "drain" /\ thread[th].hand = None /\ thread[th].buf # <<>>
Drained(th) == thread[th].pc = "drain" /\ thread[th].hand = None /\ thread[th].buf = <<>>

NextQueue ==
  /\ Drained("collector")
  /\ thread' = [thread EXCEPT !["collector"] =
       [AtRest(IF @.todo = {} THEN "idle" ELSE "sweep") EXCEPT !.todo = thread["collector"].todo]]
  /\ UNCHANGED <<taskVars, queueVars, poolVars, procVars, profile, planVars, timer, ctrlVars>>

Recycles(w) ==
  Recycle # None /\ ~ slot[w].stopped /\ slot[w].completed + 1 >= Recycle

RetireWorker(w) ==
  /\ workQueue' = [workQueue EXCEPT ![w] = Append(@, Stop)]
  /\ pool' = pool \ {w}
  /\ retiring' = retiring \cup {w}

\* _process_result under the lock: the worker is idle again, and may be
\* recycled; the task leaves the running set, or is no longer there.
ProcessResult(th) ==
  /\ Processing(th)
  /\ Unlocked
  /\ LET w      == thread[th].slot
         result == Head(thread[th].buf)
         t      == result.task
         owns   == w \in pool /\ slot[w].current = t
         live   == t \in inFlight /\ ~ work[t].ignored
     IN
       /\ IF owns
            THEN /\ slot' = [slot EXCEPT ![w].current = None, ![w].completed = @ + 1,
                                         ![w].stopped = @ \/ Recycles(w)]
                 /\ IF Recycles(w) THEN RetireWorker(w)
                                   ELSE UNCHANGED <<workQueue, pool, retiring>>
            ELSE UNCHANGED <<slot, workQueue, pool, retiring>>
       /\ inFlight' = Popped(t)
       /\ thread' = [thread EXCEPT ![th].buf = Tail(@), ![th].hand = IF live THEN result ELSE None]
  /\ UNCHANGED <<taskVars, pending, spawned, proc, resultQueue, crashes, ran, profile, planVars,
                 timer, ctrlVars>>

\* _process_result after the lock: the observation, then the future.
SettleResult(th) ==
  /\ Settling(th)
  /\ LET result == thread[th].hand IN
       /\ profile' = [profile EXCEPT ![Fn[result.task]].samples = 1]
       /\ future' = SettleFutures(future, {result.task}, IF result.ok THEN "result" ELSE "raised")
  /\ thread' = [thread EXCEPT ![th].hand = None]
  /\ UNCHANGED <<work, overdue, queueVars, poolVars, procVars, planVars, timer, ctrlVars>>

-----------------------------------------------------------------------------
(* _check_workers, run by the dispatch thread and by a waiting shutdown.     *)

Onward(th) ==
  CASE th = "dispatch"           -> "plan"
    [] th = "caller" /\ stopping   -> "close"
    [] th = "caller" /\ ~ stopping -> "check"

\* The record of a thread that is done with its worker (and its lost task).
Proceed(th) ==
  IF thread[th].todo = {} THEN AtRest(Onward(th))
  ELSE [AtRest("reap") EXCEPT !.todo = thread[th].todo, !.dead = thread[th].dead]

Dead == {w \in pool : ~ Alive(w)}

Exited == {w \in retiring : ~ Alive(w)}

CheckWorkers(th) ==
  /\ thread[th].pc = "top"
  /\ th = "dispatch" => ~ stopping
  /\ Unlocked
  /\ pool' = pool \ Dead
  /\ retiring' = retiring \ Exited
  /\ thread' = [thread EXCEPT ![th] =
       IF Dead \cup Exited = {} THEN AtRest(Onward(th))
       ELSE [AtRest("reap") EXCEPT !.todo = Dead \cup Exited, !.dead = Dead]]
  /\ UNCHANGED <<taskVars, queueVars, slot, spawned, procVars, profile, planVars, timer, ctrlVars>>

DrainsRetiredOnlyBug(w) == ~ Alive(w) /\ ~ slot[w].poisoned /\ slot[w].stopped
Drains(w) == ~ Alive(w) /\ ~ slot[w].poisoned

\* Reaped workers come before dead ones; a worker that is still alive (at
\* shutdown only) or poisoned is not drained.
DrainQueue(th, w) ==
  /\ thread[th].pc = "reap"
  /\ w \in thread[th].todo
  /\ w \in thread[th].dead => thread[th].todo \subseteq thread[th].dead
  /\ resultQueue' = IF Drains(w) THEN Emptied(w) ELSE resultQueue
  /\ thread' = [thread EXCEPT ![th].pc = "drain", ![th].slot = w, ![th].todo = @ \ {w},
                              ![th].buf = IF Drains(w) THEN Delivered(w) ELSE <<>>]
  /\ UNCHANGED <<taskVars, queueVars, poolVars, proc, workQueue, crashes, ran, profile, planVars,
                 timer, ctrlVars>>

\* _discard_queue; for a dead worker, then, _handle_dead_worker takes its
\* current task out of in_flight, and forgets it if the worker was stopped.
DiscardQueue(th) ==
  /\ th # "collector" /\ Drained(th)
  /\ LET w    == thread[th].slot
         lost == slot[w].current
     IN
       /\ slot' = [slot EXCEPT ![w].discarded = TRUE]
       /\ IF w \in thread[th].dead /\ lost # None
            THEN /\ Unlocked
                 /\ inFlight' = Popped(lost)
                 /\ thread' = [thread EXCEPT ![th] =
                      IF slot[w].stopped \/ lost \notin inFlight THEN Proceed(th)
                      ELSE [@ EXCEPT !.pc = "lost", !.lost = lost]]
            ELSE /\ thread' = [thread EXCEPT ![th] = Proceed(th)]
                 /\ UNCHANGED inFlight
  /\ UNCHANGED <<taskVars, pending, pool, retiring, spawned, procVars, profile, planVars, timer,
                 ctrlVars>>

ShouldRetry(th) ==
  /\ work[thread[th].lost].retries < MaxRetries
  /\ proc[thread[th].slot].exit = "oom"

\* The floor is recorded and the estimate doubled before the lock is taken;
\* nobody else can see the task until it is back in the queue.
RetryLost(th) ==
  /\ thread[th].pc = "lost" /\ ShouldRetry(th)
  /\ Unlocked
  /\ LET t == thread[th].lost IN
       /\ profile' = [profile EXCEPT ![Fn[t]] = FloorRaised(@, work[t].est.mem)]
       /\ work' = [work EXCEPT ![t] = Retried(@)]
       /\ pending' = <<t>> \o pending
  /\ thread' = [thread EXCEPT ![th] = Proceed(th)]
  /\ UNCHANGED <<future, overdue, inFlight, poolVars, procVars, planVars, timer, ctrlVars>>

FailLost(th) ==
  /\ thread[th].pc = "lost" /\ ~ ShouldRetry(th)
  /\ future' = SettleFutures(future, {thread[th].lost}, "crashed")
  /\ thread' = [thread EXCEPT ![th] = Proceed(th)]
  /\ UNCHANGED <<work, overdue, queueVars, poolVars, procVars, profile, planVars, timer, ctrlVars>>

\* The end of _stop_all_workers.
Close ==
  /\ thread["caller"].pc = "close"
  /\ retiring' = {w \in retiring : Alive(w)}
  /\ thread' = [thread EXCEPT !["caller"].pc = "closed"]
  /\ UNCHANGED <<taskVars, queueVars, pool, slot, spawned, procVars, profile, planVars, timer,
                 ctrlVars>>

-----------------------------------------------------------------------------
(* Timeouts.                                                                *)

\* Time passes: a task in flight exceeds task_timeout_seconds.
Overdue(t) ==
  /\ t \in inFlight \cap Slow /\ t \notin overdue
  /\ overdue' = overdue \cup {t}
  /\ UNCHANGED <<future, work, queueVars, poolVars, procVars, profile, planVars, thread, timer,
                 ctrlVars>>

\* _check_timeouts lists the overdue tasks under the lock ...
ScanTimeouts ==
  /\ timer.todo = {} /\ timer.task = None
  /\ ~ stopping /\ Unlocked
  /\ inFlight \cap overdue # {}
  /\ timer' = [timer EXCEPT !.todo = inFlight \cap overdue]
  /\ UNCHANGED <<taskVars, queueVars, poolVars, procVars, profile, planVars, thread, ctrlVars>>

KillsNobodyBug(t) == FALSE
Kills(t) == onTimeout = "kill_worker" /\ work[t].worker # None

\* ... and handles them one by one, each in a critical section of its own.
HandleTimeout(t) ==
  /\ t \in timer.todo /\ timer.task = None
  /\ Unlocked
  /\ LET w      == work[t].worker
         live   == t \in inFlight /\ ~ Done(t)
         kills  == live /\ Kills(t)
     IN
       /\ timer' = [todo |-> timer.todo \ {t}, task |-> IF live THEN t ELSE None,
                    victim |-> IF kills /\ w \in pool THEN w ELSE None]
       /\ inFlight' = IF live THEN Popped(t) ELSE inFlight
       /\ work' = IF live /\ ~ kills THEN [work EXCEPT ![t].ignored = TRUE] ELSE work
       /\ IF kills /\ w \in pool
            THEN /\ slot' = [slot EXCEPT ![w].stopped = TRUE, ![w].poisoned = TRUE,
                                         ![w].current = None]
                 /\ pool' = pool \ {w}
                 /\ retiring' = retiring \cup {w}
            ELSE /\ slot' = IF live /\ w \in pool /\ slot[w].current = t
                              THEN [slot EXCEPT ![w].current = None] ELSE slot
                 /\ UNCHANGED <<pool, retiring>>
  /\ UNCHANGED <<future, overdue, pending, spawned, procVars, profile, planVars, thread, ctrlVars>>

\* _escalate_kill, after the lock: SIGTERM, then SIGKILL if need be.
EscalateKill ==
  /\ timer.victim # None
  /\ timer' = [timer EXCEPT !.victim = None]
  /\ IF Alive(timer.victim) THEN Dies(timer.victim, "killed")
                            ELSE UNCHANGED <<proc, resultQueue>>
  /\ UNCHANGED <<taskVars, queueVars, poolVars, workQueue, crashes, ran, profile, planVars, thread,
                 ctrlVars>>

SettleTimeout ==
  /\ timer.task # None /\ timer.victim = None
  /\ future' = SettleFutures(future, {timer.task}, "timeout")
  /\ timer' = [timer EXCEPT !.task = None]
  /\ UNCHANGED <<work, overdue, queueVars, poolVars, procVars, profile, planVars, thread, ctrlVars>>

-----------------------------------------------------------------------------
(* _maybe_dispatch.  The lock is held while pc is "ship".                    *)

PendingOf(t, w) ==
  [task |-> t, mem |-> w.est.mem, vram |-> w.est.vram, cpu |-> w.est.cpu, dur |-> w.est.dur,
   excl |-> w.excl, ident |-> Fn[t], cold |-> profile[Fn[t]].samples = 0 /\ t \notin Hinted]

RunningOfShareBug(t, left) ==
  [mem |-> work[t].est.mem, vram |-> work[t].est.vram, gpu |-> work[t].gpu, left |-> left,
   excl |-> FALSE, ident |-> Fn[t]]

RunningOfAnonymousBug(t, left) ==
  [mem |-> work[t].est.mem, vram |-> work[t].est.vram, gpu |-> work[t].gpu, left |-> left,
   excl |-> work[t].excl, ident |-> None]

RunningOf(t, left) ==
  [mem |-> work[t].est.mem, vram |-> work[t].est.vram, gpu |-> work[t].gpu, left |-> left,
   excl |-> work[t].excl, ident |-> Fn[t]]

\* _running_remaining_seconds: unknown, overrun, or some part of the estimate.
Remaining(t) ==
  {None} \cup IF work[t].est.dur = None THEN {} ELSE 1 .. work[t].est.dur

CapacityTotalBug ==
  [gated |-> TRUE, mem |-> Memory, gpu |-> Vram, slots |-> Cardinality(inFlight), rr |-> rr]

Capacity ==
  [gated |-> TRUE, mem |-> Memory - Committed(inFlight),
   gpu |-> [g \in DOMAIN Vram |-> Vram[g] - CommittedVram(inFlight, g)],
   slots |-> Cardinality(inFlight), rr |-> rr]

StaleRetriesBug(t) ==
  work[t].samples # profile[Fn[t]].samples \/ work[t].floor # profile[Fn[t]].floor

Stale(t) ==
  /\ work[t].retries = 0
  /\ work[t].samples # profile[Fn[t]].samples \/ work[t].floor # profile[Fn[t]].floor

\* _reestimate_pending for the tasks of S; the throttle decides which.
Reestimated(S) ==
  [t \in Tasks |->
     IF t \in S
       THEN [work[t] EXCEPT !.est = Estimate(t), !.samples = profile[Fn[t]].samples,
                            !.floor = profile[Fn[t]].floor]
       ELSE work[t]]

\* The tasks that are planned remember whether they were planned cold.
Planned(fresh, queue) ==
  [t \in Tasks |-> IF t \in Range(queue)
                     THEN [fresh[t] EXCEPT !.cold = PendingOf(t, fresh[t]).cold] ELSE fresh[t]]

\* Re-estimate, fail the infeasible, plan the rest.
MaybeDispatch ==
  /\ thread["dispatch"].pc = "plan"
  /\ \E S \in SUBSET {t \in Range(pending) : Stale(t)},
       left \in [inFlight -> UNION {Remaining(t) : t \in inFlight}] :
       /\ \A t \in inFlight : left[t] \in Remaining(t)
       /\ LET fresh      == Reestimated(S)
              infeasible == {t \in Range(pending) : Infeasible(fresh[t].est)}
              feasible   == Without(pending, infeasible)
              entries    == [i \in DOMAIN feasible |-> PendingOf(feasible[i], fresh[feasible[i]])]
              running    == SetToSeq(inFlight)
              occupants  == [i \in DOMAIN running |-> RunningOf(running[i], left[running[i]])]
              planned    == PlanDispatch(entries, occupants, Capacity)
          IN
            /\ future' = SettleFutures(future, infeasible, "infeasible")
            /\ pending' = feasible
            /\ work' = Planned(fresh, feasible)
            /\ plan' = [i \in DOMAIN planned.decisions |->
                 [task |-> planned.decisions[i].task.task, gpu |-> planned.decisions[i].gpu]]
            /\ rr' = planned.rr
            /\ thread' = [thread EXCEPT !["dispatch"].pc =
                 IF planned.decisions = <<>> THEN "top" ELSE "ship"]
  /\ UNCHANGED <<overdue, inFlight, poolVars, procVars, profile, timer, ctrlVars>>

Decision == plan[1]
Securing == thread["dispatch"].pc = "ship" /\ thread["dispatch"].slot = None
Secured == thread["dispatch"].pc = "ship" /\ thread["dispatch"].slot # None

IdleBusyBug == {w \in pool : ~ slot[w].stopped /\ Alive(w)}
Idle == {w \in pool : slot[w].current = None /\ ~ slot[w].stopped /\ Alive(w)}
Matching == {w \in Idle : slot[w].pin = Decision.gpu}
EvictableMatchingBug == Matching
Evictable == Idle
AtCapOffByOneBug == Cardinality(pool) > MaxWorkers
AtCap == Cardinality(pool) >= MaxWorkers

Secure(w) == thread' = [thread EXCEPT !["dispatch"].slot = w]

\* _get_or_spawn_idle_worker: an idle worker with the right pin,
ReuseWorker ==
  /\ Securing
  /\ Matching # {}
  /\ Secure(First(Matching))
  /\ UNCHANGED <<taskVars, queueVars, poolVars, procVars, profile, planVars, timer, ctrlVars>>

Spawn(w) ==
  /\ spawned < MaxSpawns
  /\ spawned' = w
  /\ proc' = [proc EXCEPT ![w].alive = TRUE]
  /\ Secure(w)

\* or a new one,
SpawnWorker ==
  /\ Securing
  /\ Matching = {} /\ ~ AtCap
  /\ Spawn(spawned + 1)
  /\ slot' = [slot EXCEPT ![spawned + 1] = NewSlot(Decision.gpu)]
  /\ pool' = pool \cup {spawned + 1}
  /\ UNCHANGED <<taskVars, queueVars, retiring, workQueue, resultQueue, crashes, ran, profile,
                 planVars, timer, ctrlVars>>

\* or a new one in place of an idle worker with another pin,
ReplaceWorker ==
  /\ Securing
  /\ Matching = {} /\ AtCap /\ Evictable # {}
  /\ Spawn(spawned + 1)
  /\ LET victim == First(Evictable) IN
       /\ slot' = [slot EXCEPT ![victim].stopped = TRUE, ![spawned + 1] = NewSlot(Decision.gpu)]
       /\ workQueue' = [workQueue EXCEPT ![victim] = Append(@, Stop)]
       /\ pool' = (pool \ {victim}) \cup {spawned + 1}
       /\ retiring' = retiring \cup {victim}
  /\ UNCHANGED <<taskVars, queueVars, resultQueue, crashes, ran, profile, planVars, timer, ctrlVars>>

NextDecisionKeepsLockBug ==
  /\ plan' = Tail(plan)
  /\ thread' = [thread EXCEPT !["dispatch"] = AtRest("ship")]

NextDecision ==
  /\ plan' = Tail(plan)
  /\ thread' = [thread EXCEPT !["dispatch"] = AtRest(IF Len(plan) = 1 THEN "top" ELSE "ship")]

\* or none: the task stays queued.
LeaveQueued ==
  /\ Securing
  /\ Matching = {} /\ AtCap /\ Evictable = {}
  /\ NextDecision
  /\ UNCHANGED <<taskVars, queueVars, poolVars, procVars, profile, rr, timer, ctrlVars>>

UnqueueNothingBug(t) == pending' = pending
Unqueue(t) == pending' = Without(pending, {t})

\* set_running_or_notify_cancel makes a pending future run, and tells that a
\* cancelled one must not; an earlier attempt may have been notified already.
StartsCancelledBug(t) == TRUE
Starts(t) == work[t].notified \/ future[t] = "pending"

\* The running handshake fails: the task is dropped, the worker left alone.
DropCancelled ==
  /\ Secured
  /\ ~ Starts(Decision.task)
  /\ Unqueue(Decision.task)
  /\ NextDecision
  /\ UNCHANGED <<taskVars, inFlight, poolVars, procVars, profile, rr, timer, ctrlVars>>

\* The handshake succeeds, or was made by an earlier attempt.
ShipTask(t) ==
  /\ Secured /\ t = Decision.task
  /\ Starts(t)
  /\ LET w == thread["dispatch"].slot IN
       /\ future' = [future EXCEPT ![t] = IF @ = "pending" THEN "running" ELSE @]
       /\ work' = [work EXCEPT ![t].notified = TRUE, ![t].gpu = Decision.gpu, ![t].worker = w]
       /\ overdue' = overdue \ {t}
       /\ inFlight' = inFlight \cup {t}
       /\ slot' = [slot EXCEPT ![w].current = t]
       /\ workQueue' = [workQueue EXCEPT ![w] = Append(@, t)]
       /\ Unqueue(t)
  /\ NextDecision
  /\ UNCHANGED <<pool, retiring, spawned, proc, resultQueue, crashes, ran, profile, rr, timer,
                 ctrlVars>>

-----------------------------------------------------------------------------
Reap(th) ==
  \/ CheckWorkers(th)
  \/ \E w \in Workers : DrainQueue(th, w)
  \/ ProcessResult(th) \/ SettleResult(th) \/ DiscardQueue(th)
  \/ RetryLost(th) \/ FailLost(th)

CollectResults ==
  \/ Sweep \/ (\E w \in Workers : CheckQueue(w)) \/ ReadQueue \/ NextQueue
  \/ ProcessResult("collector") \/ SettleResult("collector")

DispatchLoop ==
  \/ Reap("dispatch")
  \/ MaybeDispatch
  \/ ReuseWorker \/ SpawnWorker \/ ReplaceWorker \/ LeaveQueued
  \/ DropCancelled \/ (\E t \in Tasks : ShipTask(t))

CheckTimeouts ==
  ScanTimeouts \/ (\E t \in Tasks : HandleTimeout(t)) \/ EscalateKill \/ SettleTimeout

ShutDown ==
  \/ FailPendingFutures \/ Reap("caller") \/ WaitForInFlight
  \/ StopThreads \/ StopAllWorkers \/ JoinWorkers \/ Close

Submit(t) == SubmitEnter(t) \/ SubmitAppend(t)

RunWorker(w) == TakeWork(w) \/ TakeStop(w) \/ Finish(w)

Next ==
  \/ \E t \in Tasks : Submit(t) \/ Cancel(t) \/ Overdue(t)
  \/ Shutdown \/ ShutDown
  \/ CollectResults \/ DispatchLoop \/ CheckTimeouts
  \/ \E w \in Workers : RunWorker(w) \/ Crash(w)

Spec == Init /\ [][Next]_vars

\* Each thread keeps running, worker processes make progress, and so does the
\* clock.  The steps that take the lock get it although the dispatch thread takes
\* it again and again (strong fairness): between two cycles that thread sleeps
\* 10 ms without it.
Fairness ==
  /\ \A t \in Tasks : SF_vars(SubmitAppend(t)) /\ WF_vars(Overdue(t))
  /\ SF_vars(CollectResults) /\ SF_vars(CheckTimeouts) /\ WF_vars(DispatchLoop)
  /\ \A w \in Workers : WF_vars(RunWorker(w))

FairSpec == Spec /\ Fairness

-----------------------------------------------------------------------------
PendingWorkType ==
  [est : EstimateType,
   samples : 0 .. 1, floor : Nat \cup {None}, retries : 0 .. MaxRetries,
   excl : BOOLEAN, ignored : BOOLEAN, notified : BOOLEAN,
   gpu : Gpus \cup {None}, worker : Workers \cup {None}, cold : BOOLEAN, late : BOOLEAN]

SlotType ==
  [pin : Gpus \cup {None}, current : Tasks \cup {None}, stopped : BOOLEAN,
   poisoned : BOOLEAN, discarded : BOOLEAN, completed : Nat]

ProcType ==
  [alive : BOOLEAN, exit : {"oom", "error", "stop", "killed", None}, task : Tasks \cup {None}]

ThreadType ==
  [pc : {"idle", "sweep", "read", "drain", "top", "reap", "lost", "plan", "ship", "up", "failing",
         "check", "stop", "stopAll", "join", "close", "closed"},
   todo : SUBSET Workers, dead : SUBSET Workers, slot : Workers \cup {None},
   buf : Seq(ResultType), hand : ResultType \cup {None}, lost : Tasks \cup {None}]

(* Every variable keeps its type; a plan exists only while it is shipped.   *)
TypeOK ==
  /\ future \in [Tasks -> Outcomes]
  /\ work \in [Tasks -> PendingWorkType]
  /\ pending \in Seq(Tasks) /\ inFlight \subseteq Tasks
  /\ pool \subseteq Workers /\ retiring \subseteq Workers /\ spawned \in 0 .. MaxSpawns
  /\ slot \in [Workers -> SlotType] /\ proc \in [Workers -> ProcType]
  /\ workQueue \in [Workers -> Seq(Tasks \cup {Stop})]
  /\ resultQueue \in [Workers -> Seq(ResultType)]
  /\ profile \in [Fns -> [samples : 0 .. 1, floor : Nat \cup {None}]]
  /\ plan \in Seq([task : Tasks, gpu : Gpus \cup {None}])
  /\ plan # <<>> <=> thread["dispatch"].pc = "ship"
  /\ rr \in 0 .. Len(GpuOrder)
  /\ thread \in [Threads -> ThreadType]
  /\ timer \in [todo : SUBSET Tasks, task : Tasks \cup {None}, victim : Workers \cup {None}]
  /\ overdue \subseteq Tasks /\ ran \subseteq Tasks
  /\ accepting \in BOOLEAN /\ stopping \in BOOLEAN /\ wait \in BOOLEAN
  /\ onTimeout \in {"fail_future", "kill_worker"}
  /\ crashes \in 0 .. MaxCrashes

\* The places that will settle a task's future or pass it on.
Homes(t) ==
  {<<"result", th>> : th \in {x \in Threads : thread[x].hand # None /\ thread[x].hand.task = t}}
    \cup {<<"lost", th>> : th \in {x \in Threads : thread[x].lost = t}}
    \cup {<<"pending", i>> : i \in {j \in DOMAIN pending : pending[j] = t}}
    \cup {<<"inFlight", u>> : u \in inFlight \cap {t}}
    \cup {<<"timer", u>> : u \in {timer.task} \cap {t}}

(* No task is lost and none is duplicated: as long as its future is open,   *)
(* exactly one place is responsible for it - the queue (once), the running  *)
(* set, a result about to be settled, the crash handler or the timeout      *)
(* handler - whatever crashes, timeouts and late results come together      *)
(* (949-988, 1006-1045, 1120-1165).                                         *)
EveryTaskHasOneHome ==
  \A t \in Tasks : future[t] \in Waiting => Cardinality(Homes(t)) = 1

\* Workers whose loss th has still to look into.
Examined(th) ==
  thread[th].dead \cap
    (thread[th].todo \cup IF thread[th].pc = "drain" THEN {thread[th].slot} ELSE {})

(* A task in flight is watched: the worker it was shipped to carries it as  *)
(* current_work_id and is in the pool, where its death will be noticed, or  *)
(* is being examined as dead (784-810, 1082-1136).                          *)
InFlightIsWatched ==
  \A t \in inFlight :
    LET w == work[t].worker IN
      /\ slot[w].current = t
      /\ w \in pool \cup UNION {Examined(th) : th \in Threads \ {"collector"}}

(* An exclusive (crash-retried) task is alone in flight, from its dispatch  *)
(* to its end, even though plans are shipped step by step (498-568).        *)
ExclusiveAloneInFlight ==
  \A t \in inFlight : work[t].excl => inFlight = {t}

(* One canary: two tasks dispatched cold on one profile are never in flight *)
(* together (570-598 with scheduling.py:261-269).                           *)
OneCanaryPerProfile ==
  \A t, u \in inFlight : t # u /\ Fn[t] = Fn[u] => ~ (work[t].cold /\ work[u].cold)

(* The estimates in flight fit the machine and its GPUs, whatever mixture   *)
(* of learned, floored and penalized estimates they are (616-645).          *)
InFlightFitsMachine ==
  \A t \in inFlight :
    /\ Committed(inFlight) < Memory
    /\ work[t].gpu # None => CommittedVram(inFlight, work[t].gpu) < Vram[work[t].gpu]

(* The pool respects its cap while workers are replaced and recycled, and   *)
(* so do the tasks in flight (751-771).                                     *)
PoolWithinCap == Cardinality(pool) <= MaxWorkers /\ Cardinality(inFlight) <= MaxWorkers

(* "exactly one of cancelled or dispatched wins": a cancelled task is never *)
(* begun by any worker (370-386).                                           *)
CancelledNeverRuns == \A t \in Tasks : future[t] = "cancelled" => t \notin ran

(* A future is settled once: no thread ever changes a settled outcome,      *)
(* whichever of result, timeout, crash, shutdown and cancel comes second    *)
(* (1220-1267).                                                             *)
SettledOnce == [][\A t \in Tasks : Done(t) => future'[t] = future[t]]_vars

(* With kill_worker an idle worker is really idle: nothing runs in it and   *)
(* nothing waits in its queue, so a task shipped to it starts at once.      *)
IdleWorkersAreFree ==
  onTimeout = "kill_worker" /\ ~ stopping =>
    \A w \in pool : slot[w].current = None =>
      proc[w].task = None /\ (Alive(w) => workQueue[w] = <<>>)

(* "A worker leaving the pool never strands a delivered result": the queue  *)
(* of a worker that was not killed is empty when it is discarded, unless a  *)
(* shutdown gave up waiting for it (841-849, 1098-1111).                    *)
NothingStranded ==
  ~ stopping => \A w \in Workers :
    slot[w].discarded /\ ~ slot[w].poisoned => resultQueue[w] = <<>>

(* A crash penalty is never weakened while the task waits or runs again,    *)
(* whatever its siblings teach the profile (408-456, "guarantees").         *)
PenaltyIsKept ==
  [][\A t \in Tasks : work[t].retries > 0 =>
       /\ work'[t].retries > 0 /\ work'[t].excl
       /\ work'[t].est.mem >= work[t].est.mem]_vars

\* Some thread is about to settle or to re-queue t.
Carried(t) ==
  \/ timer.task = t
  \/ \E th \in Threads :
       \/ thread[th].lost = t
       \/ thread[th].hand # None /\ thread[th].hand.task = t

(* A waiting shutdown abandons nobody it knew of: when it is over, an open  *)
(* future belongs to a submit that slipped in after the refusal, to a crash *)
(* retry, or to a thread that is dealing with it (201-222, 1269-1275).      *)
ShutdownWaitsForWork ==
  thread["caller"].pc = "closed" /\ wait =>
    \A t \in Tasks : future[t] \in Waiting => work[t].late \/ work[t].retries > 0 \/ Carried(t)

(* Every submitted task is settled in the end, if nobody shuts down.        *)
EveryTaskSettles == \A t \in Tasks : future[t] = "entering" ~> Done(t)

-----------------------------------------------------------------------------
(* What comments and docs say, and the code does not do.                     *)

(* adaptive_executor.py:1123-1125 "drain-then-discard so that result is not *)
(* lost": no task is declared crashed while its result is already read.     *)
DeliveredResultsCount ==
  \A t \in Tasks, th \in Threads : future[t] = "crashed" =>
    \A i \in DOMAIN thread[th].buf : thread[th].buf[i].task # t

(* adaptive_executor.py:202 "fail queued tasks, and tear down": a waiting   *)
(* shutdown that is over leaves no future open, a crash-retried one either, *)
(* unless its submit came too late or a thread is dealing with it.          *)
ShutdownSettlesAll ==
  thread["caller"].pc = "closed" /\ wait =>
    \A t \in Tasks : future[t] \in Waiting => work[t].late \/ Carried(t)
=============================================================================
