---------------------------- MODULE SafetyProofs -----------------------------
(***************************************************************************)
(* The inductive invariant of Executor, and the safety properties that     *)
(* follow from it, for every number of tasks, workers, crashes and         *)
(* retries, every capacity and whatever the tasks need.                    *)
(***************************************************************************)
EXTENDS TypeProofs

-----------------------------------------------------------------------------
(* Homes.  The places that hold a task, and what a future and its record    *)
(* say of them.                                                             *)

At(t) ==
  {p \in {"queue"} : t \in Range(pending)} \cup {p \in {"flight"} : t \in inFlight}
    \cup {p \in {"timer"} : timer.task = t} \cup {th \in Threads : Carries(thread[th], t)}

\* A task with the future f and the record w may be at the places H.
Homed(f, w, H) ==
  /\ \A p, q \in H : p = q
  /\ "queue" \in H => f \in {"pending", "running", "cancelled"}
  /\ H \ {"queue"} # {} => f = "running"
  /\ f \in Waiting => H # {}
  /\ f = "pending" => "queue" \in H
  /\ f = "running" => w.notified = TRUE
  /\ f \in {"entering", "pending", "cancelled"} => w.notified = FALSE
  /\ H \ {"timer"} # {} \/ f = "entering" => w.ignored = FALSE

HomeInv == NoDup(pending) /\ \A t \in Tasks : Homed(future[t], work[t], At(t))

\* A task that stays where it is.
Stays(t) ==
  /\ At(t)' = At(t) /\ future'[t] = future[t]
  /\ work'[t].notified = work[t].notified /\ work'[t].ignored = work[t].ignored

(* A task that stays keeps its home.                                      *)
LEMMA StaysHome ==
  ASSUME NEW t \in Tasks, Homed(future[t], work[t], At(t)), Stays(t)
  PROVE  Homed(future'[t], work'[t], At(t)')
BY DEF Stays, Homed

-----------------------------------------------------------------------------
\* No thread takes a task in hand or lets it go.
Calm == \A th \in Threads, t \in Tasks : Carries(thread'[th], t) <=> Carries(thread[th], t)

(* A thread that walks hands nothing over.                                *)
LEMMA WalkIsCalm ==
  ASSUME ThreadInv, NEW th \in Threads, NEW r, Walks(th, r)
  PROVE  Calm
BY DEF ThreadInv, Walks, Turn, Calm

\* One thread lets go of what it carries.
LEMMA UnloadEmpties ==
  ASSUME ThreadInv, NEW th \in Threads, NEW r, Unloads(th, r)
  PROVE  \A x \in Threads, t \in Tasks :
           Carries(thread'[x], t) <=> x # th /\ Carries(thread[x], t)
BY DEF ThreadInv, Unloads, Turn

Handovers ==
  \/ \E th \in Threads : ProcessResult(th) \/ SettleResult(th)
  \/ \E th \in Reapers : DiscardQueue(th) \/ RetryLost(th) \/ FailLost(th)

(* Every step is calm or one of the handovers.                            *)
LEMMA CalmCases ==
  ASSUME TypeInv, [Next]_vars, NoDup(pending), IsFiniteSet(inFlight)
  PROVE  /\ FailPendingFutures \/ LeaveQueued \/ DropCancelled \/ (\E t \in Tasks : ShipTask(t))
              \/ MaybeDispatch => Calm
         /\ Calm \/ Handovers
<1>0. ThreadInv
  BY DEF TypeInv
<1>1. "caller" \in Threads /\ "collector" \in Threads /\ "dispatch" \in Threads
      /\ \A th \in Reapers : th \in Threads
  BY DEF Threads, Reapers
<1>2. UNCHANGED thread \/ ThreadChanges
  BY StepIsFramed DEF Framed
<1>3. ASSUME \/ Shutdown \/ FailPendingFutures \/ WaitForInFlight \/ StopThreads \/ StopAllWorkers
             \/ Close \/ JoinWorkers
      PROVE  Calm
  BY <1>0, <1>1, <1>3, CallerTurns, JoinTurns, WalkIsCalm
<1>4. ASSUME Sweep \/ (\E w \in Workers : CheckQueue(w)) \/ ReadQueue \/ NextQueue
      PROVE  Calm
  BY <1>0, <1>1, <1>4, SweepTurns, CheckQueueTurns, ReadTurns, NextQueueTurns, WalkIsCalm
<1>5. ASSUME NEW th \in Reapers, CheckWorkers(th) PROVE Calm
  BY <1>0, <1>1, <1>5, CheckTurns, WalkIsCalm
<1>6. ASSUME NEW th \in Reapers, NEW w \in Workers, DrainQueue(th, w) PROVE Calm
  BY <1>0, <1>1, <1>6, DrainTurns, WalkIsCalm
<1>7. ASSUME ReuseWorker \/ SpawnWorker \/ ReplaceWorker PROVE Calm
  BY <1>0, <1>1, <1>7, SecuringTurns, WalkIsCalm
<1>8. ASSUME LeaveQueued \/ DropCancelled \/ (\E t \in Tasks : ShipTask(t)) PROVE Calm
  <2>1. thread["dispatch"].pc = "ship" /\ NextDecision /\ spawned' = spawned
    BY <1>8 DEF LeaveQueued, DropCancelled, ShipTask, Securing, Secured, poolVars
  <2> QED
    BY <1>0, <1>1, <2>1, NextDecisionTurns, WalkIsCalm
<1>9. ASSUME MaybeDispatch PROVE Calm
  <2>1. PICK S, left : S \subseteq {t \in Range(pending) : Stale(t)} /\ Dispatches(S, left)
    BY <1>9, DispatchUnfolds
  <2> QED
    BY <1>0, <1>1, <1>9, <2>1, DispatchTurns, WalkIsCalm
<1>10. CASE UNCHANGED thread
  BY <1>10 DEF Calm
<1> QED
  BY <1>2, <1>3, <1>4, <1>5, <1>6, <1>7, <1>8, <1>9, <1>10 DEF ThreadChanges, Handovers

-----------------------------------------------------------------------------
Movers ==
  \/ \E t \in Tasks : SubmitEnter(t) \/ SubmitAppend(t) \/ Cancel(t) \/ ShipTask(t)
  \/ \E t \in Tasks : HandleTimeout(t)
  \/ FailPendingFutures \/ DropCancelled \/ MaybeDispatch \/ SettleTimeout
  \/ Handovers

\* A step that moves no task.
LEMMA OthersStay ==
  ASSUME TypeInv, [Next]_vars, NoDup(pending), IsFiniteSet(inFlight), ~ Movers, NEW t \in Tasks
  PROVE  Stays(t) /\ pending' = pending
<1>1. UNCHANGED <<future, work, pending, inFlight>>
  BY StepIsFramed DEF Framed, FutureChanges, WorkChanges, PendingChanges, InFlightChanges, Movers,
                      Handovers
<1>2. timer'.task = timer.task
  <2>1. UNCHANGED timer \/ ScanTimeouts \/ EscalateKill
    BY StepIsFramed DEF Framed, TimerChanges, Movers
  <2>2. timer \in [todo : SUBSET Tasks, task : Tasks \cup {None}, victim : Seen \cup {None}]
    BY DEF TypeInv, TimerType
  <2> QED
    BY <2>1, <2>2 DEF ScanTimeouts, EscalateKill
<1>3. Calm
  BY CalmCases DEF Movers
<1> QED
  BY <1>1, <1>2, <1>3 DEF Stays, At, Calm

(* A submitted task enters the queue.                                     *)
LEMMA SubmitMoves ==
  ASSUME TypeInv, HomeInv, NEW u \in Tasks, SubmitEnter(u) \/ SubmitAppend(u)
  PROVE  HomeInv'
<1>0. /\ work \in [Tasks -> PendingWorkType] /\ future \in [Tasks -> Outcomes]
      /\ UNCHANGED <<inFlight, timer, thread>>
  BY DEF TypeInv, WorkType, FuturesType, SubmitEnter, SubmitAppend, queueVars
<1>1. Homed(future[u], work[u], At(u))
  BY DEF HomeInv
<1>2. CASE SubmitEnter(u)
  <2>1. future[u] = "new" /\ future'[u] \in {"rejected", "entering"}
        /\ \A t \in Tasks \ {u} : future'[t] = future[t] /\ work'[t] = work[t]
    BY <1>0, <1>2 DEF SubmitEnter
  <2>2. work'[u].notified = FALSE /\ work'[u].ignored = FALSE
    BY <1>0, <1>2 DEF SubmitEnter, NewWork
  <2>3. At(u) = {}
    BY <1>1, <2>1 DEF Homed
  <2>4. pending' = pending /\ \A t \in Tasks : At(t)' = At(t)
    BY <1>0, <1>2 DEF SubmitEnter, queueVars, At
  <2>5. Homed(future'[u], work'[u], At(u)')
    BY <2>1, <2>2, <2>3, <2>4 DEF Homed, Waiting
  <2>6. \A t \in Tasks \ {u} : Stays(t)
    BY <2>1, <2>4 DEF Stays
  <2> QED
    BY <2>4, <2>5, <2>6, StaysHome DEF HomeInv
<1>3. CASE SubmitAppend(u)
  <2>1. /\ future[u] = "entering" /\ future'[u] = "pending"
        /\ work'[u].notified = work[u].notified /\ work'[u].ignored = work[u].ignored
        /\ \A t \in Tasks \ {u} : future'[t] = future[t] /\ work'[t] = work[t]
    BY <1>0, <1>3 DEF SubmitAppend, PendingWorkType
  <2>2. At(u) = {}
    BY <1>1, <2>1 DEF Homed
  <2>3. u \notin Range(pending)
    BY <2>2 DEF At
  <2>4. pending' = Append(pending, u) /\ Queue(pending)
    BY <1>3 DEF SubmitAppend, TypeInv, QueueType
  <2>5. Range(pending') = Range(pending) \cup {u} /\ NoDup(pending')
    BY <2>3, <2>4, AppendQueue, AppendNoDup DEF HomeInv
  <2>6. \A t \in Tasks \ {u} : At(t)' = At(t)
    BY <1>0, <2>5 DEF At
  <2>7. At(u)' = At(u) \cup {"queue"}
    BY <1>0, <2>5 DEF At
  <2>8. Homed(future'[u], work'[u], At(u)')
    BY <1>1, <2>1, <2>2, <2>7 DEF Homed, Waiting
  <2>9. \A t \in Tasks \ {u} : Stays(t)
    BY <2>1, <2>6 DEF Stays
  <2> QED
    BY <2>5, <2>8, <2>9, StaysHome DEF HomeInv
<1> QED
  BY <1>2, <1>3

(* A cancelled task stays in the queue.                                   *)
LEMMA CancelMoves ==
  ASSUME TypeInv, HomeInv, NEW u \in Tasks, Cancel(u)
  PROVE  HomeInv'
<1>0. future \in [Tasks -> Outcomes] /\ UNCHANGED <<work, pending, inFlight, timer, thread>>
  BY DEF TypeInv, FuturesType, Cancel, queueVars
<1>1. Homed(future[u], work[u], At(u))
  BY DEF HomeInv
<1>2. future[u] = "pending" /\ future'[u] = "cancelled"
      /\ \A t \in Tasks \ {u} : future'[t] = future[t]
  BY <1>0 DEF Cancel
<1>3. \A t \in Tasks : At(t)' = At(t)
  BY <1>0 DEF At
<1>4. Homed(future'[u], work'[u], At(u)')
  BY <1>0, <1>1, <1>2, <1>3 DEF Homed, Waiting
<1>5. \A t \in Tasks \ {u} : Stays(t)
  BY <1>0, <1>2, <1>3 DEF Stays
<1> QED
  BY <1>0, <1>4, <1>5, StaysHome DEF HomeInv

\* The queue is refused: what waits there is settled.
LEMMA RefuseMoves ==
  ASSUME TypeInv, HomeInv, [Next]_vars, IsFiniteSet(inFlight), FailPendingFutures
  PROVE  HomeInv'
<1>0. /\ future' = SettleFutures(future, Range(pending), "refused") /\ pending' = <<>>
      /\ UNCHANGED <<work, inFlight, timer>> /\ Calm /\ future \in [Tasks -> Outcomes]
  BY CalmCases DEF HomeInv, FailPendingFutures, TypeInv, FuturesType
<1>1. Range(pending') = {} /\ NoDup(pending')
  BY <1>0, EmptyQueue DEF NoDup
<1>2. ASSUME NEW t \in Tasks PROVE Homed(future'[t], work'[t], At(t)')
  <2>1. Homed(future[t], work[t], At(t))
    BY DEF HomeInv
  <2>2. At(t)' = At(t) \ {"queue"}
    BY <1>0, <1>1 DEF At, Calm, Threads
  <2>3. CASE t \notin Range(pending)
    <3>1. At(t)' = At(t)
      BY <2>2, <2>3 DEF At, Threads
    <3>2. future'[t] = future[t]
      BY <1>0, <2>3 DEF SettleFutures
    <3> QED
      BY <1>0, <2>1, <3>1, <3>2, StaysHome DEF Stays
  <2>4. CASE t \in Range(pending)
    <3>1. "queue" \in At(t)
      BY <2>4 DEF At
    <3>2. At(t)' = {} /\ future[t] \in {"pending", "running", "cancelled"}
      BY <2>1, <2>2, <3>1 DEF Homed
    <3>3. future'[t] = IF future[t] = "cancelled" THEN "cancelled" ELSE "refused"
      BY <1>0, <2>4, <3>2 DEF SettleFutures, Settled
    <3> QED
      BY <1>0, <2>1, <3>2, <3>3 DEF Homed, Waiting
  <2> QED
    BY <2>3, <2>4
<1> QED
  BY <1>1, <1>2 DEF HomeInv

\* The task of the decision leaves the queue: dropped, or for a worker.
LEMMA ShipMoves ==
  ASSUME TypeInv, HomeInv, PlanTasks \subseteq Range(pending), [Next]_vars, IsFiniteSet(inFlight),
         NEW u \in Tasks, ShipTask(u)
  PROVE  HomeInv' /\ Range(pending') = Range(pending) \ {u} /\ At(u) = {"queue"}
         /\ At(u)' = {"flight"}
<1>0. /\ Calm /\ future \in [Tasks -> Outcomes] /\ work \in [Tasks -> PendingWorkType]
      /\ UNCHANGED timer /\ Queue(pending)
  BY CalmCases DEF HomeInv, TypeInv, FuturesType, WorkType, QueueType, ShipTask
<1>1. u = Decision.task /\ u \in Range(pending) /\ Starts(u)
  <2>1. thread["dispatch"].pc = "ship" /\ u = Decision.task
    BY DEF ShipTask, Secured
  <2>2. Decision.task \in PlanTasks
    BY <2>1, DecisionFits
  <2> QED
    BY <2>1, <2>2 DEF ShipTask
<1>2. pending' = Without(pending, {u}) /\ inFlight' = inFlight \cup {u}
  BY DEF ShipTask, Unqueue
<1>3. Range(pending') = Range(pending) \ {u} /\ NoDup(pending')
  BY <1>0, <1>2, WithoutLeaves DEF HomeInv
<1>4. Homed(future[u], work[u], At(u)) /\ "queue" \in At(u)
  BY <1>1 DEF HomeInv, At
<1>5. At(u) = {"queue"}
  BY <1>4 DEF Homed
<1>6. /\ work'[u].notified = TRUE /\ work'[u].ignored = work[u].ignored
      /\ future'[u] = IF future[u] = "pending" THEN "running" ELSE future[u]
      /\ \A t \in Tasks \ {u} : future'[t] = future[t] /\ work'[t] = work[t]
  BY <1>0 DEF ShipTask, PendingWorkType
<1>7. \A t \in Tasks \ {u} : At(t)' = At(t)
  BY <1>0, <1>2, <1>3 DEF At, Calm
<1>8. At(u)' = (At(u) \ {"queue"}) \cup {"flight"}
  BY <1>0, <1>2, <1>3 DEF At, Calm, Threads
<1>9. future'[u] = "running"
  <2>1. future[u] \in {"pending", "running", "cancelled"}
    BY <1>4 DEF Homed
  <2>2. work[u].notified \in BOOLEAN
    BY <1>0 DEF PendingWorkType
  <2>3. work[u].notified = TRUE \/ future[u] = "pending"
    BY <1>1, <2>2 DEF Starts
  <2>4. future[u] = "cancelled" => work[u].notified = FALSE
    BY <1>4 DEF Homed
  <2> QED
    BY <1>6, <2>1, <2>3, <2>4
<1>10. work[u].ignored = FALSE
  BY <1>4 DEF Homed
<1>11. Homed(future'[u], work'[u], At(u)')
  BY <1>5, <1>6, <1>8, <1>9, <1>10 DEF Homed, Waiting
<1>12. \A t \in Tasks \ {u} : Stays(t)
  BY <1>6, <1>7 DEF Stays
<1> QED
  BY <1>3, <1>5, <1>8, <1>11, <1>12, StaysHome DEF HomeInv

(* A cancelled task is dropped from the queue.                            *)
LEMMA DropMoves ==
  ASSUME TypeInv, HomeInv, PlanTasks \subseteq Range(pending), [Next]_vars, IsFiniteSet(inFlight),
         DropCancelled
  PROVE  HomeInv' /\ Range(pending') = Range(pending) \ {Decision.task}
<1>0. /\ Calm /\ UNCHANGED <<future, work, inFlight, timer>> /\ Queue(pending)
      /\ future \in [Tasks -> Outcomes] /\ work \in [Tasks -> PendingWorkType]
  BY CalmCases DEF HomeInv, TypeInv, FuturesType, WorkType, QueueType, DropCancelled, taskVars
<1>1. PICK u \in Tasks : u = Decision.task /\ u \in Range(pending) /\ ~ Starts(u)
  <2>1. thread["dispatch"].pc = "ship"
    BY DEF DropCancelled, Secured
  <2>2. Decision.task \in PlanTasks
    BY <2>1, DecisionFits
  <2> QED
    BY <2>2 DEF DropCancelled, TypeInv, QueueType
<1>2. pending' = Without(pending, {u})
  BY <1>1 DEF DropCancelled, Unqueue
<1>3. Range(pending') = Range(pending) \ {u} /\ NoDup(pending')
  BY <1>0, <1>2, WithoutLeaves DEF HomeInv
<1>4. Homed(future[u], work[u], At(u)) /\ "queue" \in At(u)
  BY <1>1 DEF HomeInv, At
<1>5. At(u) = {"queue"} /\ future[u] \in {"pending", "running", "cancelled"}
  BY <1>4 DEF Homed
<1>6. \A t \in Tasks \ {u} : At(t)' = At(t)
  BY <1>0, <1>3 DEF At, Calm
<1>7. At(u)' = At(u) \ {"queue"}
  BY <1>0, <1>3 DEF At, Calm, Threads
<1>8. future[u] = "cancelled"
  <2>1. future[u] # "pending" /\ work[u].notified # TRUE
    BY <1>1 DEF Starts
  <2> QED
    BY <1>4, <1>5, <2>1 DEF Homed
<1>9. Homed(future'[u], work'[u], At(u)')
  BY <1>0, <1>4, <1>5, <1>7, <1>8 DEF Homed, Waiting
<1>10. \A t \in Tasks \ {u} : Stays(t)
  BY <1>0, <1>6 DEF Stays
<1> QED
  BY <1>1, <1>3, <1>9, <1>10, StaysHome DEF HomeInv

\* The infeasible tasks leave the queue and are settled.
LEMMA DispatchMoves ==
  ASSUME TypeInv, HomeInv, [Next]_vars, IsFiniteSet(inFlight), MaybeDispatch
  PROVE  HomeInv'
<1>0. /\ Calm /\ UNCHANGED <<inFlight, timer>> /\ Queue(pending) /\ Range(pending) \subseteq Tasks
      /\ future \in [Tasks -> Outcomes] /\ WorkType /\ ProfileType
  BY CalmCases DEF HomeInv, TypeInv, FuturesType, QueueType, MaybeDispatch
<1>1. PICK S, left : S \subseteq {t \in Range(pending) : Stale(t)} /\ Dispatches(S, left)
  BY DispatchUnfolds
<1>2. /\ future' = SettleFutures(future, Dropped(S), "infeasible")
      /\ pending' = Without(pending, Dropped(S))
      /\ work' = Planned(Reestimated(S), Feasible(S))
  BY <1>1 DEF Dispatches, Feasible
<1>3. Range(pending') = Range(pending) \ Dropped(S) /\ NoDup(pending')
  BY <1>0, <1>2, WithoutLeaves DEF HomeInv
<1>4. Range(Feasible(S)) \subseteq Range(pending)
  BY <1>2, <1>3 DEF Feasible
<1>5. \A t \in Tasks : Carried4(work'[t], work[t])
  BY <1>0, <1>1, <1>2, <1>4, PlannedWork
<1>6. \A t \in Tasks : work'[t].notified = work[t].notified /\ work'[t].ignored = work[t].ignored
  BY <1>5 DEF Carried4
<1>7. ASSUME NEW t \in Tasks PROVE Homed(future'[t], work'[t], At(t)')
  <2>1. Homed(future[t], work[t], At(t))
    BY DEF HomeInv
  <2>2. CASE t \notin Dropped(S)
    <3>1. At(t)' = At(t)
      BY <1>0, <1>3, <2>2 DEF At, Calm
    <3>2. future'[t] = future[t]
      BY <1>2, <2>2 DEF SettleFutures
    <3> QED
      BY <1>6, <2>1, <3>1, <3>2, StaysHome DEF Stays
  <2>3. CASE t \in Dropped(S)
    <3>1. t \in Range(pending)
      BY <2>3 DEF Dropped
    <3>2. "queue" \in At(t) /\ At(t)' = At(t) \ {"queue"}
      BY <1>0, <1>3, <2>3, <3>1 DEF At, Calm, Threads
    <3>3. At(t)' = {} /\ future[t] \in {"pending", "running", "cancelled"}
      BY <2>1, <3>2 DEF Homed
    <3>4. future'[t] = IF future[t] = "cancelled" THEN "cancelled" ELSE "infeasible"
      BY <1>2, <2>3, <3>3 DEF SettleFutures, Settled
    <3> QED
      BY <1>6, <2>1, <3>3, <3>4 DEF Homed, Waiting
  <2> QED
    BY <2>2, <2>3
<1> QED
  BY <1>3, <1>7 DEF HomeInv

\* A task in flight times out.
LEMMA TimeoutMoves ==
  ASSUME TypeInv, HomeInv, NEW u \in Tasks, HandleTimeout(u)
  PROVE  /\ HomeInv'
         /\ u \in inFlight <=> u \in inFlight /\ ~ Done(u)
         /\ inFlight' = inFlight \ {u}
<1>0. /\ UNCHANGED <<future, pending, thread>> /\ work \in [Tasks -> PendingWorkType]
      /\ timer.task = None
  BY DEF HandleTimeout, TypeInv, WorkType
<1>1. Homed(future[u], work[u], At(u))
  BY DEF HomeInv
<1>2. CASE u \notin inFlight
  <2>1. inFlight' = inFlight /\ work' = work /\ timer'.task = None
    BY <1>2 DEF HandleTimeout
  <2>2. \A t \in Tasks : Stays(t)
    BY <1>0, <2>1 DEF Stays, At
  <2> QED
    BY <1>0, <1>2, <2>1, <2>2, StaysHome DEF HomeInv
<1>3. CASE u \in inFlight
  <2>1. "flight" \in At(u)
    BY <1>3 DEF At
  <2>2. future[u] = "running" /\ At(u) = {"flight"} /\ work[u].notified = TRUE
    BY <1>1, <2>1 DEF Homed
  <2>3. ~ Done(u)
    BY <2>2 DEF Done, Settled
  <2>4. /\ inFlight' = inFlight \ {u} /\ timer'.task = u
        /\ work' = work \/ work' = [work EXCEPT ![u].ignored = TRUE]
    BY <1>3, <2>3 DEF HandleTimeout, Popped
  <2>5. /\ work'[u].notified = work[u].notified
        /\ \A t \in Tasks \ {u} : work'[t] = work[t]
    BY <1>0, <2>4 DEF PendingWorkType
  <2>6. At(u)' = (At(u) \ {"flight"}) \cup {"timer"}
    BY <1>0, <2>4 DEF At, Threads
  <2>7. \A t \in Tasks \ {u} : At(t)' = At(t)
    BY <1>0, <2>4, TasksAssumption DEF At
  <2>8. Homed(future'[u], work'[u], At(u)')
    BY <1>0, <2>2, <2>5, <2>6 DEF Homed, Waiting
  <2>9. \A t \in Tasks \ {u} : Stays(t)
    BY <1>0, <2>5, <2>7 DEF Stays
  <2> QED
    BY <1>0, <1>3, <2>3, <2>4, <2>8, <2>9, StaysHome DEF HomeInv
<1> QED
  BY <1>2, <1>3

(* The timeout thread settles its task.                                   *)
LEMMA SettleTimeoutMoves ==
  ASSUME TypeInv, HomeInv, SettleTimeout
  PROVE  HomeInv'
<1>1. PICK u \in Tasks : timer.task = u
  BY DEF SettleTimeout, TypeInv, TimerType
<1>0. /\ UNCHANGED <<work, pending, inFlight, thread>> /\ future \in [Tasks -> Outcomes]
      /\ timer'.task = None /\ future' = SettleFutures(future, {u}, "timeout")
  BY <1>1 DEF SettleTimeout, TypeInv, FuturesType, TimerType, queueVars
<1>2. Homed(future[u], work[u], At(u)) /\ "timer" \in At(u)
  BY <1>1 DEF HomeInv, At
<1>3. future[u] = "running" /\ At(u) = {"timer"}
  BY <1>2 DEF Homed
<1>4. At(u)' = At(u) \ {"timer"}
  BY <1>0, <1>1, TasksAssumption DEF At, Threads
<1>5. \A t \in Tasks \ {u} : At(t)' = At(t)
  BY <1>0, <1>1, TasksAssumption DEF At
<1>6. future'[u] = "timeout" /\ \A t \in Tasks \ {u} : future'[t] = future[t]
  BY <1>0, <1>3 DEF SettleFutures, Settled
<1>7. Homed(future'[u], work'[u], At(u)')
  BY <1>3, <1>4, <1>6 DEF Homed, Waiting
<1>8. \A t \in Tasks \ {u} : Stays(t)
  BY <1>0, <1>5, <1>6 DEF Stays
<1> QED
  BY <1>0, <1>7, <1>8, StaysHome DEF HomeInv

\* A result leaves the running set, into the hand of its thread if it is live.
LEMMA ProcessMoves ==
  ASSUME TypeInv, HomeInv, NEW th \in Threads, ProcessResult(th)
  PROVE  HomeInv' /\ inFlight' = inFlight \ {Head(thread[th].buf).task}
<1>0. /\ UNCHANGED <<future, work, pending, timer>> /\ work \in [Tasks -> PendingWorkType]
      /\ ThreadInv /\ thread \in [Threads -> ThreadType]
  BY DEF ProcessResult, TypeInv, WorkType, taskVars, ThreadInv
<1>1. PICK r : /\ Turn(th, r) /\ r.lost = None
               /\ r.hand = (IF Head(thread[th].buf).task \in inFlight
                               /\ ~ work[Head(thread[th].buf).task].ignored
                            THEN Head(thread[th].buf) ELSE None)
  BY ProcessTurns
<1>2. PICK result \in ResultType, u \in Tasks :
        result = Head(thread[th].buf) /\ u = result.task /\ result # None
  BY ProcessTurns, ApartAssumption DEF ResultType
<1>3. inFlight' = inFlight \ {u}
  BY <1>2 DEF ProcessResult, Popped
<1>4. r.hand = (IF u \in inFlight /\ ~ work[u].ignored THEN result ELSE None)
  BY <1>1, <1>2
<1>5. thread[th].hand = None /\ thread[th].lost = None
  BY <1>0, ThreadFacts DEF ProcessResult, Processing
<1>6. thread' = [thread EXCEPT ![th] = r]
  BY <1>1 DEF Turn
<1>7. Homed(future[u], work[u], At(u))
  BY DEF HomeInv
<1>8. \A t \in Tasks \ {u} : Stays(t)
  <2> SUFFICES ASSUME NEW t \in Tasks \ {u} PROVE Stays(t)
    OBVIOUS
  <2>1. ~ Carries(r, t) /\ ~ Carries(thread[th], t)
    BY <1>1, <1>2, <1>4, <1>5, TasksAssumption DEF Carries
  <2>2. \A x \in Threads : Carries(thread'[x], t) <=> Carries(thread[x], t)
    BY <1>0, <1>6, <2>1
  <2>3. At(t)' = At(t)
    BY <1>0, <1>3, <2>2 DEF At
  <2> QED
    BY <1>0, <2>3 DEF Stays
<1>9. CASE u \notin inFlight
  <2>1. ~ Carries(r, u) /\ ~ Carries(thread[th], u)
    BY <1>1, <1>4, <1>5, <1>9, TasksAssumption DEF Carries
  <2>2. \A x \in Threads : Carries(thread'[x], u) <=> Carries(thread[x], u)
    BY <1>0, <1>6, <2>1
  <2>3. At(u)' = At(u)
    BY <1>0, <1>3, <1>9, <2>2 DEF At
  <2>4. Stays(u)
    BY <1>0, <2>3 DEF Stays
  <2> QED
    BY <1>0, <1>2, <1>3, <1>8, <2>4, StaysHome DEF HomeInv
<1>10. CASE u \in inFlight
  <2>1. "flight" \in At(u)
    BY <1>10 DEF At
  <2>2. future[u] = "running" /\ At(u) = {"flight"} /\ work[u].ignored = FALSE
    BY <1>7, <2>1 DEF Homed
  <2>3. Carries(r, u)
    BY <1>2, <1>4, <1>10, <2>2 DEF Carries
  <2>4. ~ Carries(thread[th], u)
    BY <1>5, TasksAssumption DEF Carries
  <2>5. \A x \in Threads : Carries(thread'[x], u) <=> x = th \/ Carries(thread[x], u)
    BY <1>0, <1>6, <2>3
  <2>6. At(u)' = (At(u) \ {"flight"}) \cup {th}
    BY <1>0, <1>3, <2>5 DEF At, Threads
  <2>7. Homed(future'[u], work'[u], At(u)')
    BY <1>0, <1>7, <2>2, <2>6 DEF Homed, Waiting, Threads
  <2> QED
    BY <1>0, <1>2, <1>3, <1>8, <2>7, StaysHome DEF HomeInv
<1> QED
  BY <1>9, <1>10

\* A thread settles the task it carries and lets it go.
LEMMA LetGo ==
  ASSUME TypeInv, HomeInv, NEW th \in Threads, NEW u \in Tasks, Carries(thread[th], u),
         NEW r, Unloads(th, r), NEW outcome \in Settled \ {"cancelled"},
         future' = SettleFutures(future, {u}, outcome),
         UNCHANGED <<work, pending, inFlight, timer>>
  PROVE  HomeInv'
<1>0. ThreadInv /\ future \in [Tasks -> Outcomes]
  BY DEF TypeInv, FuturesType
<1>1. Homed(future[u], work[u], At(u)) /\ th \in At(u)
  BY DEF HomeInv, At
<1>2. future[u] = "running" /\ At(u) = {th}
  BY <1>1 DEF Homed, Threads
<1>3. \A x \in Threads, t \in Tasks : Carries(thread'[x], t) <=> x # th /\ Carries(thread[x], t)
  BY <1>0, UnloadEmpties
<1>4. At(u)' = At(u) \ {th}
  BY <1>3 DEF At, Threads
<1>5. future'[u] = outcome /\ \A t \in Tasks \ {u} : future'[t] = future[t]
  BY <1>0, <1>2 DEF SettleFutures, Settled
<1>6. Homed(future'[u], work'[u], At(u)')
  BY <1>2, <1>4, <1>5 DEF Homed, Waiting, Settled
<1>7. ASSUME NEW t \in Tasks \ {u} PROVE Stays(t)
  <2>1. ~ Carries(thread[th], t)
    <3>1. thread[th].hand = None \/ thread[th].lost = None
      BY <1>0, ThreadFacts
    <3> QED
      BY <3>1, TasksAssumption DEF Carries
  <2>2. At(t)' = At(t)
    BY <1>3, <2>1 DEF At
  <2> QED
    BY <1>5, <2>2 DEF Stays
<1> QED
  BY <1>6, <1>7, StaysHome DEF HomeInv

(* A result is settled.                                                   *)
LEMMA SettleMoves ==
  ASSUME TypeInv, HomeInv, NEW th \in Threads, SettleResult(th)
  PROVE  HomeInv'
<1>1. PICK u \in Tasks : u = thread[th].hand.task /\ thread[th].hand # None
  BY SettleTurns DEF ResultType, SettleResult, Settling
<1>2. PICK r : Unloads(th, r)
  BY SettleTurns
<1> DEFINE outcome == IF thread[th].hand.ok THEN "result" ELSE "raised"
<1>3. /\ future' = SettleFutures(future, {u}, outcome)
      /\ UNCHANGED <<work, pending, inFlight, timer>>
  BY <1>1 DEF SettleResult, queueVars
<1>4. outcome \in Settled \ {"cancelled"}
  BY DEF Settled
<1>5. Carries(thread[th], u)
  BY <1>1 DEF Carries
<1> HIDE DEF outcome
<1> QED
  BY <1>2, <1>3, <1>4, <1>5, LetGo

(* A lost task is settled as crashed.                                     *)
LEMMA FailMoves ==
  ASSUME TypeInv, HomeInv, NEW th \in Reapers, FailLost(th)
  PROVE  HomeInv'
<1>1. PICK u \in Tasks : u = thread[th].lost /\ Unloads(th, Proceed(th)) /\ th \in Threads
  BY LostTurns DEF Reapers
<1>2. /\ future' = SettleFutures(future, {u}, "crashed")
      /\ UNCHANGED <<work, pending, inFlight, timer>>
  BY <1>1 DEF FailLost, queueVars
<1>3. "crashed" \in Settled \ {"cancelled"} /\ Carries(thread[th], u)
  BY <1>1 DEF Settled, Carries
<1> QED
  BY <1>1, <1>2, <1>3, LetGo

\* A crashed task is queued again, in front.
LEMMA RetryMoves ==
  ASSUME TypeInv, HomeInv, NEW th \in Reapers, RetryLost(th)
  PROVE  /\ HomeInv'
         /\ thread[th].lost \in Tasks /\ At(thread[th].lost) = {th}
         /\ Range(pending') = Range(pending) \cup {thread[th].lost}
         /\ thread[th].lost \notin Range(pending) \cup inFlight
<1>0. /\ ThreadInv /\ future \in [Tasks -> Outcomes] /\ work \in [Tasks -> PendingWorkType]
      /\ Queue(pending) /\ NoDup(pending)
      /\ UNCHANGED <<future, inFlight, timer>>
  BY DEF TypeInv, FuturesType, WorkType, QueueType, HomeInv, RetryLost
<1>1. PICK u \in Tasks : u = thread[th].lost /\ Unloads(th, Proceed(th)) /\ th \in Threads
  BY LostTurns DEF Reapers
<1>2. /\ pending' = <<u>> \o pending /\ work' = [work EXCEPT ![u] = Retried(work[u])]
  BY <1>1 DEF RetryLost
<1>3. Homed(future[u], work[u], At(u)) /\ th \in At(u)
  BY <1>1 DEF HomeInv, At, Carries
<1>4. future[u] = "running" /\ At(u) = {th} /\ work[u].ignored = FALSE /\ work[u].notified = TRUE
  BY <1>1, <1>3 DEF Homed, Threads
<1>5. u \notin Range(pending) /\ u \notin inFlight
  BY <1>1, <1>4 DEF At, Threads
<1>6. Range(pending') = Range(pending) \cup {u} /\ NoDup(pending')
  BY <1>0, <1>2, <1>5, PushQueue
<1>7. \A x \in Threads, t \in Tasks : Carries(thread'[x], t) <=> x # th /\ Carries(thread[x], t)
  BY <1>0, <1>1, UnloadEmpties
<1>8. At(u)' = (At(u) \ {th}) \cup {"queue"}
  BY <1>0, <1>1, <1>6, <1>7 DEF At, Threads
<1>9. work'[u].notified = TRUE /\ work'[u].ignored = FALSE
  <2>1. work[u] \in PendingWorkType
    BY <1>0
  <2>2. Retried(work[u]).notified = work[u].notified /\ Retried(work[u]).ignored = FALSE
    <3> DEFINE v == Penalized(work[u])
    <3>1. "notified" \in DOMAIN work[u] /\ "ignored" \in DOMAIN work[u]
      BY <2>1 DEF PendingWorkType
    <3>2. v.notified = work[u].notified /\ "notified" \in DOMAIN v /\ "ignored" \in DOMAIN v
      BY <3>1 DEF Penalized
    <3>3. Retried(work[u])
            = [v EXCEPT !.retries = @ + 1, !.gpu = None, !.worker = None, !.ignored = FALSE]
      BY DEF Retried
    <3> HIDE DEF v
    <3> QED
      BY <3>2, <3>3
  <2> QED
    BY <1>0, <1>2, <1>4, <2>2
<1>10. Homed(future'[u], work'[u], At(u)')
  BY <1>0, <1>4, <1>8, <1>9 DEF Homed, Waiting
<1>11. ASSUME NEW t \in Tasks \ {u} PROVE Stays(t)
  <2>1. ~ Carries(thread[th], t)
    <3>1. thread[th].hand = None \/ thread[th].lost = None
      BY <1>0, <1>1, ThreadFacts
    <3> QED
      BY <1>1, <3>1, LostTurns, TasksAssumption DEF Carries
  <2>2. At(t)' = At(t)
    BY <1>0, <1>6, <1>7, <2>1 DEF At
  <2>3. work'[t] = work[t]
    BY <1>0, <1>2
  <2> QED
    BY <1>0, <2>2, <2>3 DEF Stays
<1> QED
  BY <1>1, <1>4, <1>5, <1>6, <1>10, <1>11, StaysHome DEF HomeInv

\* A worker that is looked into as dead was not stopped, and is not in the pool.
DeadInv ==
  \A th \in Reapers : \A w \in thread[th].dead : slot[w].stopped = FALSE /\ w \notin pool

(* A lost task passes from the running set to the thread that looks into  *)
(* it.                                                                    *)
LEMMA DiscardMoves ==
  ASSUME TypeInv, HomeInv, DeadInv, NEW th \in Reapers, DiscardQueue(th)
  PROVE  HomeInv'
<1>0. /\ ThreadInv /\ thread \in [Threads -> ThreadType] /\ th \in Threads
      /\ thread[th].hand = None /\ thread[th].lost = None
      /\ UNCHANGED <<future, work, pending, timer>>
  BY DiscardTurns DEF TypeInv, ThreadInv, Reapers, DiscardQueue, taskVars
<1>1. ASSUME NEW r, Turn(th, r), inFlight' = inFlight, \A t \in Tasks : ~ Carries(r, t)
      PROVE  HomeInv'
  <2>1. \A x \in Threads, t \in Tasks : Carries(thread'[x], t) <=> Carries(thread[x], t)
    <3>1. \A t \in Tasks : ~ Carries(thread[th], t)
      BY <1>0, TasksAssumption DEF Carries
    <3> QED
      BY <1>0, <1>1, <3>1 DEF Turn
  <2>2. \A t \in Tasks : Stays(t)
    BY <1>0, <1>1, <2>1 DEF Stays, At
  <2> QED
    BY <1>0, <2>2, StaysHome DEF HomeInv
<1>2. CASE Forgets(th)
  <2>1. inFlight' = inFlight
    <3>1. thread[th].slot \in thread[th].dead => slot[thread[th].slot].stopped = FALSE
      BY DEF DeadInv
    <3> QED
      BY <1>2, <3>1 DEF Forgets
  <2>2. \A t \in Tasks : ~ Carries(Proceed(th), t)
    BY ProceedFits DEF TypeInv
  <2> QED
    BY <1>1, <1>2, <2>1, <2>2 DEF Forgets
<1>3. CASE Seizes(th)
  <2>1. LostOf(th) \in inFlight /\ inFlight \subseteq Tasks
    BY <1>3 DEF Seizes, TypeInv, QueueType
  <2>2. PICK u \in Tasks : u = LostOf(th) /\ u \in inFlight
    BY <2>1
  <2>3. PICK r : Turn(th, r) /\ r.lost = u /\ r.hand = None
    BY <1>3, <2>2 DEF Seizes
  <2>4. inFlight' = inFlight \ {u}
    BY <1>3, <2>2 DEF Seizes
  <2>5. Homed(future[u], work[u], At(u)) /\ "flight" \in At(u)
    BY <2>2 DEF HomeInv, At
  <2>6. future[u] = "running" /\ At(u) = {"flight"}
    BY <2>5 DEF Homed
  <2>7. thread' = [thread EXCEPT ![th] = r]
    BY <2>3 DEF Turn
  <2>8. \A x \in Threads : Carries(thread'[x], u) <=> x = th \/ Carries(thread[x], u)
    BY <1>0, <2>3, <2>7 DEF Carries
  <2>9. At(u)' = (At(u) \ {"flight"}) \cup {th}
    BY <1>0, <2>4, <2>8 DEF At, Threads
  <2>10. Homed(future'[u], work'[u], At(u)')
    BY <1>0, <2>5, <2>6, <2>9 DEF Homed, Waiting, Threads
  <2>11. ASSUME NEW t \in Tasks \ {u} PROVE Stays(t)
    <3>1. ~ Carries(r, t) /\ ~ Carries(thread[th], t)
      BY <1>0, <2>3, TasksAssumption DEF Carries
    <3>2. \A x \in Threads : Carries(thread'[x], t) <=> Carries(thread[x], t)
      BY <1>0, <2>7, <3>1
    <3> QED
      BY <1>0, <2>4, <3>2 DEF Stays, At
  <2> QED
    BY <1>0, <2>10, <2>11, StaysHome DEF HomeInv
<1> QED
  BY <1>2, <1>3, DiscardTurns

\* Homes are kept.
LEMMA HomeStep ==
  ASSUME TypeInv, HomeInv, DeadInv, [Next]_vars, IsFiniteSet(inFlight),
         PlanTasks \subseteq Range(pending)
  PROVE  HomeInv'
<1>0. NoDup(pending)
  BY DEF HomeInv
<1>1. CASE ~ Movers
  <2>1. \A t \in Tasks : Stays(t) /\ pending' = pending
    BY <1>0, <1>1, OthersStay
  <2>2. UNCHANGED pending
    BY <1>0, <1>1, StepIsFramed DEF Framed, PendingChanges, Movers, Handovers
  <2> QED
    BY <1>0, <2>1, <2>2, StaysHome DEF HomeInv
<1>2. CASE Handovers
  BY <1>2, ProcessMoves, SettleMoves, DiscardMoves, RetryMoves, FailMoves DEF Handovers
<1> QED
  BY <1>1, <1>2, SubmitMoves, CancelMoves, RefuseMoves, ShipMoves, DropMoves, DispatchMoves,
     TimeoutMoves, SettleTimeoutMoves DEF Movers

-----------------------------------------------------------------------------
(* The plan while it is shipped.                                            *)

\* What the planner counted on stays.
SameNeedsButGpu(v, w) == w.est = v.est /\ w.excl = v.excl /\ w.cold = v.cold
SameNeeds(v, w) == w.est = v.est /\ w.gpu = v.gpu /\ w.excl = v.excl /\ w.cold = v.cold

\* The plan from its second decision on.
LEMMA TailOfPlan ==
  ASSUME TypeInv, thread["dispatch"].pc = "ship", NextDecision, spawned' = spawned
  PROVE  /\ Len(plan) \in Nat \ {0} /\ Len(plan') = Len(plan) - 1
         /\ \A i \in 1 .. Len(plan') : i + 1 \in 1 .. Len(plan) /\ plan'[i] = plan[i + 1]
         /\ \A i \in 1 .. Len(plan) : i = 1 \/ (i - 1 \in 1 .. Len(plan') /\ plan'[i - 1] = plan[i])
         /\ plan' = <<>> <=> Len(plan') = 0
<1>1. /\ plan \in Seq([task : Tasks, gpu : Gpus \cup {None}]) /\ Len(plan) \in Nat \ {0}
      /\ plan' = Tail(plan) /\ Len(plan') = Len(plan) - 1
      /\ \A i \in 1 .. Len(plan') : plan'[i] = plan[i + 1]
      /\ plan' \in Seq([task : Tasks, gpu : Gpus \cup {None}])
  BY NextDecisionTurns
<1>2. \A i \in 1 .. Len(plan') : i + 1 \in 1 .. Len(plan)
  BY <1>1
<1>3. ASSUME NEW i \in 1 .. Len(plan), i # 1
      PROVE  i - 1 \in 1 .. Len(plan') /\ plan'[i - 1] = plan[i]
  <2>1. i - 1 \in 1 .. Len(plan') /\ (i - 1) + 1 = i
    BY <1>1, <1>3
  <2> QED
    BY <1>1, <2>1
<1>4. plan' = <<>> <=> Len(plan') = 0
  BY <1>1
<1> QED
  BY <1>1, <1>2, <1>3, <1>4

\* A plan of which less is left, for a machine on which no more runs.
LEMMA PlanShrinks ==
  ASSUME TypeInv, TypeInv', PlanInv, inFlight' \subseteq inFlight, PlanQueued', IsFiniteSet(inFlight'),
         Len(plan') \in Nat, Len(plan') <= Len(plan), plan' = <<>> <=> Len(plan') = 0,
         NEW n \in {0, 1}, \A i \in 1 .. Len(plan') : i + n \in 1 .. Len(plan) /\ plan'[i] = plan[i + n],
         \A t \in inFlight' \cup PlanTasks' : SameNeeds(work[t], work'[t])
  PROVE  PlanInv'
<1>0. /\ inFlight \subseteq Tasks /\ PlanTasks \subseteq Tasks /\ Len(plan) \in Nat
      /\ IsFiniteSet(inFlight) /\ IsFiniteSet(PlanTasks) /\ \A g : Ahead(g) \subseteq PlanTasks
      /\ plan \in Seq([task : Tasks, gpu : Gpus \cup {None}])
  BY PlanIsFinite DEF TypeInv, QueueType, PlanInv, PlanQueued, PlanSlots, PlanType
<1>1. PlanTasks' \subseteq PlanTasks /\ \A g : Ahead(g)' \subseteq Ahead(g)
  <2>1. ASSUME NEW t \in PlanTasks' PROVE t \in PlanTasks
    <3>1. PICK i \in 1 .. Len(plan') : t = plan'[i].task
      BY <2>1 DEF PlanTasks
    <3>2. i + n \in 1 .. Len(plan) /\ t = plan[i + n].task
      BY <3>1
    <3> QED
      BY <3>2 DEF PlanTasks
  <2>2. ASSUME NEW g, NEW t \in Ahead(g)' PROVE t \in Ahead(g)
    <3>1. PICK i \in 1 .. Len(plan') : t = plan'[i].task /\ plan'[i].gpu = g
      BY <2>2 DEF Ahead
    <3>2. i + n \in 1 .. Len(plan) /\ t = plan[i + n].task /\ plan[i + n].gpu = g
      BY <3>1
    <3> QED
      BY <3>2 DEF Ahead
  <2> QED
    BY <2>1, <2>2
<1>2. PlanSlots'
  <2>1. Cardinality(inFlight') <= Cardinality(inFlight) /\ Cardinality(inFlight') \in Nat
        /\ Cardinality(inFlight) \in Nat
    BY <1>0, FS_Subset, FS_CardinalityType
  <2>2. Cardinality(inFlight) + Len(plan) <= MaxWorkers
    BY DEF PlanInv, PlanSlots
  <2>3. Cardinality(inFlight') + Len(plan') <= Cardinality(inFlight) + Len(plan)
    BY <1>0, <2>1
  <2>4. Cardinality(inFlight') + Len(plan') <= MaxWorkers
    BY <1>0, <2>1, <2>2, <2>3, MaxWorkersAssumption
  <2> QED
    BY <2>4 DEF PlanSlots
<1>3. \A i \in 1 .. Len(plan') : plan'[i].task \in PlanTasks' /\ plan'[i].task = plan[i + n].task
  BY DEF PlanTasks
<1>4. PlanAlone'
  <2>1. ASSUME NEW i \in 1 .. Len(plan'), work'[plan'[i].task].excl = TRUE
        PROVE  Len(plan') = 1 /\ inFlight' = {}
    <3>1. work[plan[i + n].task].excl = TRUE /\ i + n \in 1 .. Len(plan)
      BY <1>3, <2>1 DEF SameNeeds
    <3>2. Len(plan) = 1 /\ inFlight = {}
      BY <3>1 DEF PlanInv, PlanAlone
    <3>3. Len(plan') = 1
      <4>1. PICK m \in Nat : m = Len(plan')
        OBVIOUS
      <4>2. m <= 1 /\ i \in 1 .. m
        BY <3>2, <4>1
      <4>3. m = 1
        BY <4>2
      <4> QED
        BY <4>1, <4>3
    <3> QED
      BY <3>2, <3>3
  <2>2. ASSUME NEW t \in inFlight', work'[t].excl = TRUE PROVE plan' = <<>> /\ inFlight' = {t}
    <3>1. t \in inFlight /\ work[t].excl = TRUE
      BY <2>2 DEF SameNeeds
    <3>2. plan = <<>> /\ inFlight = {t}
      BY <3>1 DEF PlanInv, PlanAlone
    <3>3. Len(plan') = 0
      BY <1>0, <3>2
    <3> QED
      BY <2>2, <3>2, <3>3
  <2> QED
    BY <2>1, <2>2 DEF PlanAlone
<1>5. PlanCanary'
  <2>1. ASSUME NEW i \in 1 .. Len(plan'), work'[plan'[i].task].cold = TRUE
        PROVE  /\ \A u \in inFlight' : Fn[u] # Fn[plan'[i].task]
               /\ \A j \in 1 .. i - 1 : Fn[plan'[j].task] # Fn[plan'[i].task]
    <3>1. work[plan[i + n].task].cold = TRUE /\ i + n \in 1 .. Len(plan)
      BY <1>3, <2>1 DEF SameNeeds
    <3>2. /\ \A u \in inFlight : Fn[u] # Fn[plan[i + n].task]
          /\ \A j \in 1 .. (i + n) - 1 : Fn[plan[j].task] # Fn[plan[i + n].task]
      BY <3>1 DEF PlanInv, PlanCanary
    <3>3. \A j \in 1 .. i - 1 : j + n \in 1 .. (i + n) - 1 /\ j \in 1 .. Len(plan')
      BY <2>1
    <3>4. ASSUME NEW j \in 1 .. i - 1 PROVE Fn[plan'[j].task] # Fn[plan'[i].task]
      BY <1>3, <3>2, <3>3
    <3> QED
      BY <1>3, <3>2, <3>4
  <2>2. ASSUME NEW t \in inFlight', NEW u \in inFlight', t # u, Fn[t] = Fn[u]
        PROVE  ~ (work'[t].cold = TRUE /\ work'[u].cold = TRUE)
    BY <2>2 DEF PlanInv, PlanCanary, SameNeeds
  <2> QED
    BY <2>1, <2>2 DEF PlanCanary
<1>6. ASSUME NEW S \in SUBSET (inFlight \cup PlanTasks), NEW T \in SUBSET S,
             T \subseteq inFlight' \cup PlanTasks'
      PROVE  /\ Total(MemOf(work'), T) <= Total(MemOf(work), S)
             /\ Total(VramOf(work'), T) <= Total(VramOf(work), S)
             /\ Total(MemOf(work), S) \in Nat /\ Total(VramOf(work), S) \in Nat
             /\ Total(MemOf(work'), T) \in Nat /\ Total(VramOf(work'), T) \in Nat
  <2>1. S \subseteq Tasks /\ T \subseteq Tasks /\ IsFiniteSet(S) /\ IsFiniteSet(T)
    <3>1. IsFiniteSet(inFlight \cup PlanTasks)
      BY <1>0, FS_Union
    <3> QED
      BY <1>0, <3>1, FS_Subset
  <2>2. \A x \in S : MemOf(work)[x] \in Nat /\ VramOf(work)[x] \in Nat
    BY <2>1, CommitmentsAreNumbers DEF TypeInv
  <2>3. \A x \in T : MemOf(work')[x] = MemOf(work)[x] /\ VramOf(work')[x] = VramOf(work)[x]
    BY <1>6, <2>1 DEF MemOf, VramOf, SameNeeds
  <2>4. /\ Total(MemOf(work'), T) = Total(MemOf(work), T)
        /\ Total(VramOf(work'), T) = Total(VramOf(work), T)
    BY <2>1, <2>2, <2>3, TotalsAgree
  <2>5. /\ Total(MemOf(work), T) <= Total(MemOf(work), S)
        /\ Total(VramOf(work), T) <= Total(VramOf(work), S)
    BY <2>1, <2>2, TotalGrows
  <2>6. /\ Total(MemOf(work), S) \in Nat /\ Total(VramOf(work), S) \in Nat
        /\ Total(MemOf(work), T) \in Nat /\ Total(VramOf(work), T) \in Nat
    BY <2>1, <2>2, TotalRemoves
  <2> QED
    BY <2>4, <2>5, <2>6
<1>7. PlanMemory'
  <2> SUFFICES ASSUME inFlight' \cup PlanTasks' # {}
               PROVE  Total(MemOf(work'), inFlight' \cup PlanTasks') < Memory
    BY DEF PlanMemory
  <2> DEFINE S == inFlight \cup PlanTasks
             T == inFlight' \cup PlanTasks'
  <2>1. T \in SUBSET S
    BY <1>1
  <2>2. S # {} /\ Total(MemOf(work), S) < Memory
    BY <2>1 DEF PlanInv, PlanMemory
  <2>3. /\ Total(MemOf(work'), T) <= Total(MemOf(work), S)
        /\ Total(MemOf(work), S) \in Nat /\ Total(MemOf(work'), T) \in Nat
    BY <1>6, <2>1
  <2> QED
    BY <2>2, <2>3, MachineAssumption
<1>8. PlanVram'
  <2> SUFFICES ASSUME NEW g \in Gpus, RunningOn(g)' \cup Ahead(g)' # {}
               PROVE  g \in DOMAIN Vram
                      /\ Total(VramOf(work'), RunningOn(g)' \cup Ahead(g)') < Vram[g]
    BY DEF PlanVram
  <2>1. PICK S : S = RunningOn(g) \cup Ahead(g)
    OBVIOUS
  <2>2. PICK T : T = RunningOn(g)' \cup Ahead(g)'
    OBVIOUS
  <2>3. RunningOn(g)' \subseteq RunningOn(g)
    BY DEF RunningOn, SameNeeds
  <2>4. /\ RunningOn(g)' \subseteq inFlight' /\ RunningOn(g) \subseteq inFlight
        /\ Ahead(g)' \subseteq PlanTasks'
    BY DEF RunningOn, Ahead, PlanTasks
  <2>5. Ahead(g)' \subseteq Ahead(g) /\ Ahead(g) \subseteq PlanTasks
    BY <1>0, <1>1
  <2>6. /\ T \in SUBSET S /\ S \in SUBSET (inFlight \cup PlanTasks)
        /\ T \subseteq inFlight' \cup PlanTasks' /\ T # {}
    BY <2>1, <2>2, <2>3, <2>4, <2>5
  <2>7. g \in DOMAIN Vram /\ Total(VramOf(work), S) < Vram[g]
    BY <2>1, <2>6 DEF PlanInv, PlanVram
  <2>8. /\ Total(VramOf(work'), T) <= Total(VramOf(work), S)
        /\ Total(VramOf(work), S) \in Nat /\ Total(VramOf(work'), T) \in Nat
    BY <1>6, <2>6
  <2>9. Vram[g] \in Int
    BY <2>7, MachineAssumption
  <2>10. Total(VramOf(work'), T) < Vram[g]
    BY <2>7, <2>8, <2>9
  <2> QED
    BY <2>2, <2>7, <2>10
<1> QED
  BY <1>2, <1>4, <1>5, <1>7, <1>8 DEF PlanInv

\* A shipped decision: what was ahead now runs.
LEMMA ShipKeepsPlan ==
  ASSUME TypeInv, TypeInv', HomeInv, PlanInv, [Next]_vars, NEW u \in Tasks, ShipTask(u)
  PROVE  PlanInv'
<1>0. /\ thread["dispatch"].pc = "ship" /\ NextDecision /\ spawned' = spawned
      /\ u = plan[1].task /\ inFlight' = inFlight \cup {u}
  BY DEF ShipTask, Secured, Decision
<1>1. /\ Len(plan) \in Nat \ {0} /\ Len(plan') = Len(plan) - 1
      /\ \A i \in 1 .. Len(plan') : i + 1 \in 1 .. Len(plan) /\ plan'[i] = plan[i + 1]
      /\ \A i \in 1 .. Len(plan) : i = 1 \/ (i - 1 \in 1 .. Len(plan') /\ plan'[i - 1] = plan[i])
      /\ plan' = <<>> <=> Len(plan') = 0
  BY <1>0, TailOfPlan
<1>2. /\ inFlight \subseteq Tasks /\ PlanTasks \subseteq Tasks /\ IsFiniteSet(inFlight)
      /\ work \in [Tasks -> PendingWorkType] /\ 1 \in 1 .. Len(plan)
  BY <1>1 DEF TypeInv, QueueType, PlanInv, PlanQueued, PlanSlots, WorkType
<1>3. Range(pending') = Range(pending) \ {u} /\ u \notin inFlight
  <2>1. Range(pending') = Range(pending) \ {u} /\ At(u) = {"queue"}
    BY <1>2, ShipMoves DEF PlanInv, PlanQueued
  <2>2. "flight" \notin At(u)
    BY <2>1
  <2> QED
    BY <2>1, <2>2 DEF At
<1>4. /\ \A t \in Tasks : SameNeedsButGpu(work[t], work'[t])
      /\ \A t \in Tasks \ {u} : work'[t] = work[t]
      /\ work'[u].gpu = plan[1].gpu
  BY <1>2 DEF ShipTask, PendingWorkType, SameNeedsButGpu, Decision
<1>5. \A i, j \in 1 .. Len(plan) : plan[i].task = plan[j].task => i = j
  BY DEF PlanInv, PlanQueued
<1>6. \A i \in 1 .. Len(plan') : plan'[i].task # u /\ plan'[i].task \in PlanTasks
  <2> TAKE i \in 1 .. Len(plan')
  <2>1. i + 1 \in 1 .. Len(plan) /\ plan'[i] = plan[i + 1] /\ i + 1 # 1
    BY <1>1
  <2>2. plan[i + 1].task # plan[1].task
    BY <1>2, <1>5, <2>1
  <2>3. plan[i + 1].task \in PlanTasks
    BY <2>1 DEF PlanTasks
  <2> QED
    BY <1>0, <2>1, <2>2, <2>3
<1>7. PlanTasks' = PlanTasks \ {u} /\ u \in PlanTasks
  <2>1. PlanTasks' \subseteq PlanTasks \ {u}
    BY <1>6 DEF PlanTasks
  <2>2. ASSUME NEW t \in PlanTasks, t # u PROVE t \in PlanTasks'
    <3>1. PICK i \in 1 .. Len(plan) : t = plan[i].task
      BY <2>2 DEF PlanTasks
    <3>2. i - 1 \in 1 .. Len(plan') /\ plan'[i - 1] = plan[i]
      BY <1>0, <1>1, <2>2, <3>1
    <3> QED
      BY <3>1, <3>2 DEF PlanTasks
  <2>3. u \in PlanTasks
    BY <1>0, <1>2 DEF PlanTasks
  <2> QED
    BY <2>1, <2>2, <2>3
<1>8. PlanQueued'
  <2>1. ASSUME NEW i \in 1 .. Len(plan'), NEW j \in 1 .. Len(plan'), plan'[i].task = plan'[j].task
        PROVE  i = j
    <3>1. /\ i + 1 \in 1 .. Len(plan) /\ plan'[i] = plan[i + 1]
          /\ j + 1 \in 1 .. Len(plan) /\ plan'[j] = plan[j + 1]
      BY <1>1
    <3>2. i + 1 = j + 1
      BY <1>5, <2>1, <3>1
    <3> QED
      BY <3>2
  <2>2. PlanTasks' \subseteq Range(pending')
    BY <1>3, <1>7 DEF PlanInv, PlanQueued
  <2> QED
    BY <2>1, <2>2 DEF PlanQueued
<1>9. PlanSlots'
  <2>1. /\ IsFiniteSet(inFlight') /\ Cardinality(inFlight') = Cardinality(inFlight) + 1
        /\ Cardinality(inFlight) \in Nat
    BY <1>0, <1>2, <1>3, FS_AddElement, FS_CardinalityType
  <2>2. Cardinality(inFlight) + Len(plan) <= MaxWorkers
    BY DEF PlanInv, PlanSlots
  <2>3. Cardinality(inFlight') + Len(plan') <= MaxWorkers
    BY <1>1, <2>1, <2>2, MaxWorkersAssumption
  <2> QED
    BY <2>1, <2>3 DEF PlanSlots
<1>10. PlanAlone'
  <2>1. ASSUME NEW i \in 1 .. Len(plan'), work'[plan'[i].task].excl = TRUE
        PROVE  FALSE
    <3>1. i + 1 \in 1 .. Len(plan) /\ plan'[i] = plan[i + 1] /\ plan[i + 1].task \in Tasks
      BY <1>1, <1>2, <1>6
    <3>2. work[plan[i + 1].task].excl = TRUE
      BY <1>4, <2>1, <3>1 DEF SameNeedsButGpu
    <3>3. Len(plan) = 1
      BY <3>1, <3>2 DEF PlanInv, PlanAlone
    <3> QED
      BY <3>1, <3>3
  <2>2. ASSUME NEW t \in inFlight', work'[t].excl = TRUE
        PROVE  plan' = <<>> /\ inFlight' = {t}
    <3>1. t \in Tasks /\ work[t].excl = TRUE
      BY <1>0, <1>2, <1>4, <2>2 DEF SameNeedsButGpu
    <3>2. plan # <<>>
      BY <1>1
    <3>3. t \notin inFlight
      BY <3>1, <3>2 DEF PlanInv, PlanAlone
    <3>4. t = plan[1].task /\ t = u
      BY <1>0, <2>2, <3>3
    <3>5. Len(plan) = 1 /\ inFlight = {}
      BY <1>2, <3>1, <3>4 DEF PlanInv, PlanAlone
    <3>6. Len(plan') = 0
      BY <1>1, <3>5
    <3> QED
      BY <1>0, <1>1, <3>4, <3>5, <3>6
  <2> QED
    BY <2>1, <2>2 DEF PlanAlone
<1>11. PlanCanary'
  <2>1. ASSUME NEW i \in 1 .. Len(plan'), work'[plan'[i].task].cold = TRUE
        PROVE  /\ \A v \in inFlight' : Fn[v] # Fn[plan'[i].task]
               /\ \A j \in 1 .. i - 1 : Fn[plan'[j].task] # Fn[plan'[i].task]
    <3>1. i + 1 \in 1 .. Len(plan) /\ plan'[i] = plan[i + 1] /\ plan[i + 1].task \in Tasks
      BY <1>1, <1>2, <1>6
    <3>2. work[plan[i + 1].task].cold = TRUE
      BY <1>4, <2>1, <3>1 DEF SameNeedsButGpu
    <3>3. /\ \A v \in inFlight : Fn[v] # Fn[plan[i + 1].task]
          /\ \A j \in 1 .. (i + 1) - 1 : Fn[plan[j].task] # Fn[plan[i + 1].task]
      BY <3>1, <3>2 DEF PlanInv, PlanCanary
    <3>4. 1 \in 1 .. (i + 1) - 1
      BY <2>1
    <3>5. \A v \in inFlight' : Fn[v] # Fn[plan'[i].task]
      BY <1>0, <3>1, <3>3, <3>4
    <3>6. ASSUME NEW j \in 1 .. i - 1 PROVE Fn[plan'[j].task] # Fn[plan'[i].task]
      <4>1. j \in 1 .. Len(plan') /\ j + 1 \in 1 .. (i + 1) - 1
        BY <2>1, <3>6
      <4>2. plan'[j] = plan[j + 1]
        BY <1>1, <4>1
      <4> QED
        BY <3>1, <3>3, <4>1, <4>2
    <3> QED
      BY <3>5, <3>6
  <2>2. ASSUME NEW t \in inFlight', NEW v \in inFlight', t # v, Fn[t] = Fn[v]
        PROVE  ~ (work'[t].cold = TRUE /\ work'[v].cold = TRUE)
    <3>1. t \in Tasks /\ v \in Tasks
      BY <1>0, <1>2
    <3>2. work'[t].cold = work[t].cold /\ work'[v].cold = work[v].cold
      BY <1>4, <3>1 DEF SameNeedsButGpu
    <3>3. CASE t \in inFlight /\ v \in inFlight
      BY <2>2, <3>2, <3>3 DEF PlanInv, PlanCanary
    <3>4. work[u].cold = TRUE => \A x \in inFlight : Fn[x] # Fn[u]
      BY <1>0, <1>2 DEF PlanInv, PlanCanary
    <3>5. CASE t = u
      BY <1>0, <2>2, <3>2, <3>4, <3>5
    <3>6. CASE v = u
      BY <1>0, <2>2, <3>2, <3>4, <3>6
    <3> QED
      BY <1>0, <3>3, <3>5, <3>6
  <2> QED
    BY <2>1, <2>2 DEF PlanCanary
<1>12. MemOf(work') = MemOf(work) /\ VramOf(work') = VramOf(work)
  BY <1>4 DEF MemOf, VramOf, SameNeedsButGpu
<1>13. PlanMemory'
  <2>1. inFlight' \cup PlanTasks' = inFlight \cup PlanTasks
    BY <1>0, <1>7
  <2> QED
    BY <1>12, <2>1 DEF PlanInv, PlanMemory
<1>14. PlanVram'
  <2>1. ASSUME NEW g PROVE RunningOn(g)' \cup Ahead(g)' = RunningOn(g) \cup Ahead(g)
    <3>1. ASSUME NEW t \in RunningOn(g)' PROVE t \in RunningOn(g) \cup Ahead(g)
      <4>1. t \in inFlight \cup {u} /\ work'[t].gpu = g
        BY <1>0, <3>1 DEF RunningOn
      <4>2. CASE t = u
        BY <1>0, <1>2, <1>4, <4>1, <4>2 DEF Ahead
      <4>3. CASE t # u
        BY <1>2, <1>4, <4>1, <4>3 DEF RunningOn
      <4> QED
        BY <4>2, <4>3
    <3>2. ASSUME NEW t \in Ahead(g)' PROVE t \in Ahead(g)
      <4>1. PICK i \in 1 .. Len(plan') : t = plan'[i].task /\ plan'[i].gpu = g
        BY <3>2 DEF Ahead
      <4>2. i + 1 \in 1 .. Len(plan) /\ t = plan[i + 1].task /\ plan[i + 1].gpu = g
        BY <1>1, <4>1
      <4> QED
        BY <4>2 DEF Ahead
    <3>3. ASSUME NEW t \in RunningOn(g) PROVE t \in RunningOn(g)'
      <4>1. t \in inFlight /\ work[t].gpu = g /\ t # u /\ t \in Tasks
        BY <1>2, <1>3, <3>3 DEF RunningOn
      <4>2. work'[t].gpu = g /\ t \in inFlight'
        BY <1>0, <1>4, <4>1
      <4> QED
        BY <4>2 DEF RunningOn
    <3>4. ASSUME NEW t \in Ahead(g) PROVE t \in RunningOn(g)' \cup Ahead(g)'
      <4>1. PICK i \in 1 .. Len(plan) : t = plan[i].task /\ plan[i].gpu = g
        BY <3>4 DEF Ahead
      <4>2. CASE i = 1
        BY <1>0, <1>4, <4>1, <4>2 DEF RunningOn
      <4>3. CASE i # 1
        <5>1. i - 1 \in 1 .. Len(plan') /\ plan'[i - 1] = plan[i]
          BY <1>1, <4>3
        <5> QED
          BY <4>1, <5>1 DEF Ahead
      <4> QED
        BY <4>2, <4>3
    <3> QED
      BY <3>1, <3>2, <3>3, <3>4
  <2> QED
    BY <1>12, <2>1 DEF PlanInv, PlanVram
<1> QED
  BY <1>8, <1>9, <1>10, <1>11, <1>13, <1>14 DEF PlanInv

\* The next decision, of a task that stays queued or was cancelled.
LEMMA NextKeepsPlan ==
  ASSUME TypeInv, TypeInv', HomeInv, PlanInv, [Next]_vars, LeaveQueued \/ DropCancelled
  PROVE  PlanInv'
<1>0. /\ thread["dispatch"].pc = "ship" /\ NextDecision /\ spawned' = spawned
      /\ UNCHANGED <<inFlight, work>>
  BY DEF LeaveQueued, DropCancelled, Securing, Secured, poolVars, taskVars, queueVars
<1>1. /\ Len(plan) \in Nat \ {0} /\ Len(plan') = Len(plan) - 1
      /\ \A i \in 1 .. Len(plan') : i + 1 \in 1 .. Len(plan) /\ plan'[i] = plan[i + 1]
      /\ plan' = <<>> <=> Len(plan') = 0
  BY <1>0, TailOfPlan
<1>2. PlanTasks \subseteq Range(pending) /\ IsFiniteSet(inFlight')
      /\ \A i, j \in 1 .. Len(plan) : plan[i].task = plan[j].task => i = j
  BY <1>0 DEF PlanInv, PlanQueued, PlanSlots
<1>3. PlanTasks' \subseteq PlanTasks \ {plan[1].task}
  <2> SUFFICES ASSUME NEW i \in 1 .. Len(plan')
               PROVE  plan'[i].task \in PlanTasks \ {plan[1].task}
    BY DEF PlanTasks
  <2>1. i + 1 \in 1 .. Len(plan) /\ plan'[i] = plan[i + 1] /\ i + 1 # 1 /\ 1 \in 1 .. Len(plan)
    BY <1>1
  <2>2. plan[i + 1].task # plan[1].task
    BY <1>2, <2>1
  <2> QED
    BY <2>1, <2>2 DEF PlanTasks
<1>4. Range(pending) \ {plan[1].task} \subseteq Range(pending')
  <2>1. CASE LeaveQueued
    BY <2>1 DEF LeaveQueued, queueVars
  <2>2. CASE DropCancelled
    <3>1. Range(pending') = Range(pending) \ {Decision.task}
      BY <1>2, <2>2, DropMoves DEF PlanInv, PlanSlots
    <3> QED
      BY <3>1 DEF Decision
  <2> QED
    BY <2>1, <2>2
<1>5. PlanQueued'
  <2>1. ASSUME NEW i \in 1 .. Len(plan'), NEW j \in 1 .. Len(plan'), plan'[i].task = plan'[j].task
        PROVE  i = j
    <3>1. /\ i + 1 \in 1 .. Len(plan) /\ plan'[i] = plan[i + 1]
          /\ j + 1 \in 1 .. Len(plan) /\ plan'[j] = plan[j + 1]
      BY <1>1
    <3>2. i + 1 = j + 1
      BY <1>2, <2>1, <3>1
    <3> QED
      BY <3>2
  <2>2. PlanTasks' \subseteq Range(pending')
    BY <1>2, <1>3, <1>4
  <2> QED
    BY <2>1, <2>2 DEF PlanQueued
<1>6. \A t \in inFlight' \cup PlanTasks' : SameNeeds(work[t], work'[t])
  BY <1>0 DEF SameNeeds
<1>7. Len(plan') \in Nat /\ Len(plan') <= Len(plan) /\ inFlight' \subseteq inFlight /\ 1 \in {0, 1}
  BY <1>0, <1>1
<1> QED
  BY <1>1, <1>2, <1>5, <1>6, <1>7, PlanShrinks

\* The queue and the running set share no task.
LEMMA QueueOrFlight ==
  ASSUME TypeInv, HomeInv
  PROVE  Range(pending) \cap inFlight = {}
<1> SUFFICES ASSUME NEW t \in Range(pending), t \in inFlight PROVE FALSE
  OBVIOUS
<1>1. t \in Tasks
  BY DEF TypeInv, QueueType
<1>2. "queue" \in At(t) /\ "flight" \in At(t)
  BY DEF At
<1> QED
  BY <1>1, <1>2 DEF HomeInv, Homed

(* The running set only grows by a shipped task.                          *)
LEMMA InFlightShrinks ==
  ASSUME TypeInv, [Next]_vars
  PROVE  inFlight' \subseteq inFlight \/ \E t \in Tasks : ShipTask(t)
<1>1. ASSUME NEW t \in Tasks, HandleTimeout(t) PROVE inFlight' \subseteq inFlight
  BY <1>1 DEF HandleTimeout, Popped
<1>2. ASSUME NEW th \in Reapers, DiscardQueue(th) PROVE inFlight' \subseteq inFlight
  BY <1>2, DiscardTurns DEF Seizes, Forgets
<1>3. ASSUME NEW th \in Threads, ProcessResult(th) PROVE inFlight' \subseteq inFlight
  BY <1>3 DEF ProcessResult, Popped
<1> QED
  BY <1>1, <1>2, <1>3, StepIsFramed DEF Framed, InFlightChanges

\* What runs or waits keeps the needs it was planned for.
LEMMA NeedsStay ==
  ASSUME TypeInv, HomeInv, [Next]_vars, NEW t \in inFlight \cup Range(pending),
         ~ MaybeDispatch, ~ \E u \in Tasks : ShipTask(u)
  PROVE  SameNeeds(work[t], work'[t])
<1>0. /\ work \in [Tasks -> PendingWorkType] /\ t \in Tasks
      /\ Homed(future[t], work[t], At(t)) /\ At(t) \cap {"queue", "flight"} # {}
  BY DEF TypeInv, WorkType, QueueType, HomeInv, At
<1>1. CASE work' = work
  BY <1>1 DEF SameNeeds
<1>2. ASSUME NEW u \in Tasks, SubmitEnter(u) PROVE SameNeeds(work[t], work'[t])
  <2>1. u # t
    BY <1>0, <1>2 DEF SubmitEnter, Homed
  <2>2. work'[t] = work[t]
    BY <1>0, <1>2, <2>1 DEF SubmitEnter
  <2> QED
    BY <2>2 DEF SameNeeds
<1>3. ASSUME NEW u \in Tasks, SubmitAppend(u) PROVE SameNeeds(work[t], work'[t])
  BY <1>0, <1>3 DEF SubmitAppend, SameNeeds, PendingWorkType
<1>4. ASSUME NEW u \in Tasks, HandleTimeout(u) PROVE SameNeeds(work[t], work'[t])
  <2>1. work' = work \/ work' = [work EXCEPT ![u].ignored = TRUE]
    BY <1>4 DEF HandleTimeout
  <2> QED
    BY <1>0, <2>1 DEF SameNeeds, PendingWorkType
<1>5. ASSUME NEW th \in Reapers, RetryLost(th) PROVE SameNeeds(work[t], work'[t])
  <2>1. thread[th].lost \in Tasks /\ thread[th].lost # t
    BY <1>5, RetryMoves
  <2>2. work'[t] = work[t]
    BY <1>0, <1>5, <2>1 DEF RetryLost
  <2> QED
    BY <2>2 DEF SameNeeds
<1> QED
  BY <1>1, <1>2, <1>3, <1>4, <1>5, StepIsFramed DEF Framed, WorkChanges

\* The queue keeps what is planned, unless the plan is being shipped.
LEMMA PlannedStay ==
  ASSUME TypeInv, HomeInv, PlanInv, [Next]_vars, plan' = plan, ~ MaybeDispatch, ~ DropCancelled,
         ~ \E u \in Tasks : ShipTask(u)
  PROVE  PlanTasks \subseteq Range(pending')
<1>0. PlanTasks \subseteq Range(pending) /\ Queue(pending)
  BY DEF TypeInv, QueueType, PlanInv, PlanQueued
<1>1. CASE pending' = pending
  BY <1>0, <1>1
<1>2. ASSUME NEW u \in Tasks, SubmitAppend(u) PROVE PlanTasks \subseteq Range(pending')
  <2>1. pending' = Append(pending, u)
    BY <1>2 DEF SubmitAppend
  <2>2. Range(pending') = Range(pending) \cup {u}
    BY <1>0, <2>1, AppendQueue
  <2> QED
    BY <1>0, <2>2
<1>3. ASSUME NEW th \in Reapers, RetryLost(th) PROVE PlanTasks \subseteq Range(pending')
  BY <1>0, <1>3, RetryMoves
<1>4. CASE FailPendingFutures
  <2>1. plan = <<>>
    BY <1>4 DEF FailPendingFutures, Unlocked, TypeInv, ThreadInv
  <2> QED
    BY <2>1 DEF PlanTasks
<1> QED
  BY <1>1, <1>2, <1>3, <1>4, StepIsFramed DEF Framed, PendingChanges

\* The plan's invariants are kept.
LEMMA PlanIsKept ==
  ASSUME TypeInv, TypeInv', HomeInv, PlanInv, [Next]_vars
  PROVE  PlanInv'
<1>0. IsFiniteSet(inFlight) /\ PlanTasks \subseteq Range(pending) /\ Len(plan) \in Nat
      /\ (plan = <<>> <=> Len(plan) = 0)
      /\ \A i, j \in 1 .. Len(plan) : plan[i].task = plan[j].task => i = j
  BY DEF PlanInv, PlanSlots, PlanQueued, TypeInv, PlanType
<1>1. CASE MaybeDispatch
  <2>1. PICK S, left : S \subseteq {t \in Range(pending) : Stale(t)} /\ Dispatches(S, left)
    BY <1>1, DispatchUnfolds
  <2>2. PlansFrom
    BY QueueOrFlight DEF PlansFrom, TypeInv, HomeInv
  <2>3. inFlight' = inFlight /\ work' \in [Tasks -> PendingWorkType]
    BY <1>1 DEF MaybeDispatch, TypeInv, WorkType
  <2> QED
    BY <2>1, <2>2, <2>3, DispatchKeepsPlan
<1>2. CASE \E u \in Tasks : ShipTask(u)
  BY <1>2, ShipKeepsPlan
<1>3. CASE LeaveQueued \/ DropCancelled
  BY <1>3, NextKeepsPlan
<1>4. CASE ~ (MaybeDispatch \/ LeaveQueued \/ DropCancelled \/ \E u \in Tasks : ShipTask(u))
  <2>1. plan' = plan
    BY <1>4, StepIsFramed DEF Framed, PlanChanges
  <2>2. inFlight' \subseteq inFlight /\ IsFiniteSet(inFlight')
    BY <1>0, <1>4, InFlightShrinks, FS_Subset
  <2>3. PlanTasks' = PlanTasks
    BY <2>1 DEF PlanTasks
  <2>4. PlanQueued'
    BY <1>0, <1>4, <2>1, <2>3, PlannedStay DEF PlanQueued
  <2>5. \A t \in inFlight' \cup PlanTasks' : SameNeeds(work[t], work'[t])
    BY <1>0, <1>4, <2>2, <2>3, NeedsStay
  <2>6. /\ Len(plan') \in Nat /\ Len(plan') <= Len(plan) /\ (plan' = <<>> <=> Len(plan') = 0)
        /\ \A i \in 1 .. Len(plan') : i + 0 \in 1 .. Len(plan) /\ plan'[i] = plan[i + 0]
    BY <1>0, <2>1
  <2>7. 0 \in {0, 1}
    OBVIOUS
  <2> QED
    BY <2>2, <2>4, <2>5, <2>6, <2>7, PlanShrinks
<1> QED
  BY <1>1, <1>2, <1>3, <1>4

-----------------------------------------------------------------------------
(* The threads are told to stop exactly when a shutdown has come so far.    *)

Standing == {"up", "failing", "top", "check", "stop"}
Stopped == {"stopAll", "join", "close", "closed"}

CallerInv ==
  /\ thread["caller"].pc \in Standing => stopping = FALSE
  /\ thread["caller"].pc \in Stopped => stopping = TRUE

\* Where a thread goes on to when it has looked into its workers.
LEMMA ProceedsTo ==
  ASSUME NEW th \in Reapers
  PROVE  Proceed(th).pc \in {"reap", Onward(th)}
BY DEF Proceed, AtRest

Outset == {"up", "failing"}
Visiting == {"reap", "drain", "lost", "check", "close"}

\* The stages of a shutdown.
CallerMove(p, q) ==
  \/ q = p
  \/ p \notin Outset /\ q \in Visiting /\ (q = "check" => ~ stopping) /\ (q = "close" => stopping)
  \/ Shutdown /\ p = "up" /\ q = "failing"
  \/ FailPendingFutures /\ p = "failing" /\ q = IF wait THEN "top" ELSE "stop"
  \/ WaitForInFlight /\ p = "check" /\ q = IF Quiet THEN "stop" ELSE "top"
  \/ StopThreads /\ p = "stop" /\ q = "stopAll"
  \/ StopAllWorkers /\ p = "stopAll" /\ q = "join"
  \/ JoinWorkers /\ p = "join" /\ q \in {"close", "reap"}
  \/ Close /\ p = "close" /\ q = "closed"

(* Every step moves a shutdown by at most one stage.                        *)
LEMMA CallerMoves ==
  ASSUME TypeInv, [Next]_vars
  PROVE  CallerMove(thread["caller"].pc, thread'["caller"].pc)
<1> DEFINE p == thread["caller"].pc
           q == thread'["caller"].pc
           Visits2 == p \notin Outset /\ q \in Visiting /\ (q = "check" => ~ stopping)
                      /\ (q = "close" => stopping)
           Fine == q = p \/ Visits2
<1>0. /\ UNCHANGED thread \/ ThreadChanges
      /\ thread \in [Threads -> ThreadType] /\ "caller" \in Threads /\ stopping \in BOOLEAN
      /\ "caller" \in Reapers /\ "dispatch" \in Threads /\ "collector" \in Threads
      /\ \A th \in Reapers : th \in Threads
  BY StepIsFramed DEF Framed, TypeInv, ThreadInv, FlagsType, Threads, Reapers
<1>a. \A x \in {"reap", Onward("caller")} :
        x \in Visiting /\ (x = "check" => ~ stopping) /\ (x = "close" => stopping)
  <2>1. Onward("caller") = IF stopping THEN "close" ELSE "check"
    BY <1>0 DEF Onward
  <2> QED
    BY <1>0, <2>1 DEF Visiting
<1>1. ASSUME \/ Shutdown \/ FailPendingFutures \/ WaitForInFlight \/ StopThreads \/ StopAllWorkers
             \/ JoinWorkers \/ Close
      PROVE  CallerMove(p, q)
  <2>1. Shutdown => p = "up" /\ q = "failing"
    BY <1>0 DEF Shutdown, ThreadType
  <2>2. FailPendingFutures => p = "failing" /\ q = IF wait THEN "top" ELSE "stop"
    BY <1>0 DEF FailPendingFutures, ThreadType
  <2>3. WaitForInFlight => p = "check" /\ q = IF Quiet THEN "stop" ELSE "top"
    BY <1>0 DEF WaitForInFlight, ThreadType
  <2>4. StopThreads => p = "stop" /\ q = "stopAll"
    BY <1>0 DEF StopThreads, ThreadType
  <2>5. StopAllWorkers => p = "stopAll" /\ q = "join"
    BY <1>0 DEF StopAllWorkers, ThreadType
  <2>6. JoinWorkers => p = "join" /\ q \in {"close", "reap"}
    BY <1>0 DEF JoinWorkers, ThreadType
  <2>7. Close => p = "close" /\ q = "closed"
    BY <1>0 DEF Close, ThreadType
  <2> HIDE DEF p, q
  <2> QED
    BY <1>1, <2>1, <2>2, <2>3, <2>4, <2>5, <2>6, <2>7 DEF CallerMove
<1>2. ASSUME NEW th \in Threads, NEW r, thread' = [thread EXCEPT ![th] = r], th # "caller"
      PROVE  Fine
  BY <1>0, <1>2
<1>3. ASSUME NEW th \in Threads, NEW r, thread' = [thread EXCEPT ![th] = r],
             thread[th].pc \notin Outset,
             r.pc \in {"drain", "lost"} \/ r.pc \in {"reap", Onward(th)}
      PROVE  Fine
  <2>1. CASE th = "caller"
    <3>1. q = r.pc /\ p \notin Outset
      BY <1>0, <1>3, <2>1
    <3> HIDE DEF p, q
    <3> QED
      BY <1>3, <1>a, <2>1, <3>1 DEF Visiting
  <2> QED
    BY <1>2, <1>3, <2>1
<1>5. ASSUME NEW th \in Reapers, CheckWorkers(th) PROVE Fine
  <2>1. \/ thread' = [thread EXCEPT ![th] = AtRest(Onward(th))]
        \/ thread' = [thread EXCEPT ![th] = Reaping(Dead \cup Exited, Dead)]
    BY <1>5 DEF CheckWorkers, Reaping
  <2>2. AtRest(Onward(th)).pc = Onward(th) /\ Reaping(Dead \cup Exited, Dead).pc = "reap"
    BY DEF Reaping, AtRest
  <2>3. PICK r : thread' = [thread EXCEPT ![th] = r] /\ r.pc \in {"reap", Onward(th)}
    BY <2>1, <2>2
  <2>4. thread[th].pc \notin Outset
    BY <1>5 DEF CheckWorkers, Outset
  <2> QED
    BY <1>0, <1>3, <2>3, <2>4
<1>6. ASSUME NEW th \in Reapers, NEW w \in Workers, DrainQueue(th, w) PROVE Fine
  <2>1. PICK r : Turn(th, r) /\ r.pc = "drain"
    BY <1>6, DrainTurns DEF Walks
  <2>2. thread[th].pc \notin Outset
    BY <1>6 DEF DrainQueue, Outset
  <2> QED
    BY <1>0, <1>3, <2>1, <2>2 DEF Turn
<1>7. ASSUME NEW th \in Threads, ProcessResult(th) PROVE Fine
  <2>1. PICK r : Turn(th, r) /\ r.pc = "drain"
    BY <1>7, ProcessTurns
  <2>2. thread[th].pc \notin Outset
    BY <1>7 DEF ProcessResult, Processing, Outset
  <2> QED
    BY <1>0, <1>3, <2>1, <2>2 DEF Turn
<1>8. ASSUME NEW th \in Threads, SettleResult(th) PROVE Fine
  <2>1. PICK r : Turn(th, r) /\ r.pc = "drain"
    BY <1>8, SettleTurns DEF Unloads
  <2>2. thread[th].pc \notin Outset
    BY <1>8 DEF SettleResult, Settling, Outset
  <2> QED
    BY <1>0, <1>3, <2>1, <2>2 DEF Turn
<1>9. ASSUME NEW th \in Reapers, DiscardQueue(th) PROVE Fine
  <2>1. thread[th].pc \notin Outset
    BY <1>9 DEF DiscardQueue, Drained, Outset
  <2>2. CASE Seizes(th)
    <3>1. PICK r : Turn(th, r) /\ r.pc = "lost"
      BY <2>2 DEF Seizes
    <3> QED
      BY <1>0, <1>3, <2>1, <3>1 DEF Turn
  <2>3. CASE Forgets(th)
    BY <1>0, <1>3, <2>1, <2>3, ProceedsTo DEF Forgets, Turn
  <2> QED
    BY <1>9, <2>2, <2>3, DiscardTurns
<1>10. ASSUME NEW th \in Reapers, RetryLost(th) \/ FailLost(th) PROVE Fine
  <2>1. thread[th].pc \notin Outset
    BY <1>10 DEF RetryLost, FailLost, Outset
  <2> QED
    BY <1>0, <1>3, <1>10, <2>1, LostTurns, ProceedsTo DEF Unloads, Turn
<1>11. ASSUME \/ \E t \in Tasks : ShipTask(t)
              \/ \E w \in Workers : CheckQueue(w)
              \/ Sweep \/ ReadQueue \/ NextQueue
              \/ MaybeDispatch \/ ReuseWorker \/ SpawnWorker \/ ReplaceWorker \/ LeaveQueued
              \/ DropCancelled
       PROVE  Fine
  <2>1. thread'["caller"] = thread["caller"]
    BY <1>0, <1>11 DEF ShipTask, CheckQueue, Sweep, ReadQueue, NextQueue, MaybeDispatch,
                       ReuseWorker, SpawnWorker, ReplaceWorker, LeaveQueued, DropCancelled,
                       Spawn, Secure, NextDecision
  <2> QED
    BY <2>1
<1>12. ASSUME UNCHANGED thread PROVE Fine
  BY <1>12
<1>13. Fine => CallerMove(p, q)
  BY DEF CallerMove
<1> HIDE DEF Fine, p, q
<1>14. CallerMove(p, q)
  BY <1>0, <1>1, <1>5, <1>6, <1>7, <1>8, <1>9, <1>10, <1>11, <1>12, <1>13 DEF ThreadChanges
<1> QED
  BY <1>14 DEF p, q

(* The shutdown's stage and the stop flag agree.                            *)
LEMMA CallerStep ==
  ASSUME TypeInv, CallerInv, [Next]_vars
  PROVE  CallerInv'
<1> DEFINE p == thread["caller"].pc
           q == thread'["caller"].pc
<1>1. CallerMove(p, q)
  BY CallerMoves
<1>2. UNCHANGED stopping \/ StopThreads
  BY StepIsFramed DEF Framed
<1>3. StopThreads => p = "stop" /\ q = "stopAll" /\ stopping' = TRUE
  BY DEF StopThreads, TypeInv, ThreadInv, ThreadType, Threads
<1>4. stopping \in BOOLEAN
  BY DEF TypeInv, FlagsType
<1> HIDE DEF p, q
<1>5. /\ q \in Standing => stopping' = FALSE
      /\ q \in Stopped => stopping' = TRUE
  <2>0. (p \in Standing => stopping = FALSE) /\ (p \in Stopped => stopping = TRUE)
    BY DEF CallerInv, p
  <2>1. CASE StopThreads
    BY <1>3, <2>1 DEF Standing
  <2>2. CASE ~ StopThreads
    BY <1>1, <1>2, <1>4, <2>0, <2>2 DEF CallerMove, Standing, Stopped, Visiting, Outset
  <2> QED
    BY <2>1, <2>2
<1> QED
  BY <1>5 DEF CallerInv, q

-----------------------------------------------------------------------------
(* What a step may do to a worker's slot and to its place in the pool.      *)

SameCurrent(w) == slot'[w].current = slot[w].current
SameMarks(w) == slot'[w].poisoned = slot[w].poisoned /\ slot'[w].discarded = slot[w].discarded
SamePlace(w) == w \in pool' <=> w \in pool

\* Nothing happens to it.
Untouched(w) == slot'[w] = slot[w] /\ SamePlace(w)

\* It is spawned.
Born(w) ==
  /\ w = spawned + 1 /\ w \in pool' /\ (SpawnWorker \/ ReplaceWorker)
  /\ slot'[w].current = None /\ slot'[w].stopped = FALSE
  /\ slot'[w].poisoned = FALSE /\ slot'[w].discarded = FALSE

\* Its task is over, one way or the other.
Freed(w) ==
  /\ w \in pool /\ w \in pool' /\ slot[w].current \notin inFlight' /\ ~ Secured
  /\ slot'[w].current = None /\ slot'[w].stopped = slot[w].stopped /\ SameMarks(w)

\* It leaves the pool because it is killed, recycled or replaced.
Retired(w) ==
  /\ w \in pool /\ w \notin pool' /\ slot[w].current \notin inFlight' /\ ~ Secured
  /\ slot'[w].current = None /\ slot'[w].stopped = TRUE
  /\ slot'[w].discarded = slot[w].discarded
  /\ slot'[w].poisoned = TRUE \/ slot'[w].poisoned = slot[w].poisoned

\* It is sent a task.
Shipped(w) ==
  /\ Secured /\ w = thread["dispatch"].slot /\ SamePlace(w) /\ SameMarks(w)
  /\ slot'[w].stopped = slot[w].stopped
  /\ \E t \in Tasks : ShipTask(t) /\ slot'[w].current = t

\* Its result queue is discarded.
Discarded(w) ==
  /\ SamePlace(w) /\ SameCurrent(w) /\ slot'[w].stopped = slot[w].stopped
  /\ slot'[w].poisoned = slot[w].poisoned
  /\ \E th \in Reapers : DiscardQueue(th) /\ w = thread[th].slot

\* It is told to stop, by a shutdown.
Halted(w) ==
  /\ StopAllWorkers /\ SamePlace(w) /\ SameCurrent(w) /\ SameMarks(w)
  /\ slot'[w].stopped = slot[w].stopped \/ w \in pool

\* It is found dead.
Found(w) ==
  /\ slot'[w] = slot[w] /\ w \in Dead /\ w \notin pool' /\ ~ Secured
  /\ \E th \in Reapers : CheckWorkers(th)

Moved(w) ==
  \/ Untouched(w) \/ Born(w) \/ Freed(w) \/ Retired(w) \/ Shipped(w) \/ Discarded(w) \/ Halted(w)
  \/ Found(w)

\* The worker of a task in flight has it as its current task.
InHand == \A t \in inFlight : slot[work[t].worker].current = t

(* A timeout frees or retires the worker of its task.                     *)
LEMMA TimeoutSlots ==
  ASSUME TypeInv, InHand, NEW t \in Tasks, HandleTimeout(t), NEW w \in Workers
  PROVE  Moved(w)
<1>0. /\ slot \in [Workers -> SlotType] /\ pool \subseteq Workers /\ ~ Secured
      /\ thread["dispatch"] \in ThreadType
  BY BoundsAssumption DEF TypeInv, SlotFits, PoolType, Seen, Workers, HandleTimeout, Unlocked,
                          Secured, ThreadInv, Threads
<1> DEFINE v == work[t].worker
           kill == [slot[v] EXCEPT !.stopped = TRUE, !.poisoned = TRUE, !.current = None]
           free == [slot[v] EXCEPT !.current = None]
<1>1. \/ slot' = slot /\ pool' = pool
      \/ /\ t \in inFlight /\ inFlight' = inFlight \ {t} /\ v \in pool /\ pool' = pool \ {v}
         /\ slot' = [slot EXCEPT ![v] = kill]
      \/ /\ t \in inFlight /\ inFlight' = inFlight \ {t} /\ v \in pool /\ pool' = pool
         /\ slot' = [slot EXCEPT ![v] = free]
  BY <1>0 DEF HandleTimeout, Popped
<1>2. CASE slot' = slot /\ pool' = pool
  BY <1>2 DEF Moved, Untouched, SamePlace
<1>3. ASSUME t \in inFlight, inFlight' = inFlight \ {t}, v \in pool,
             pool' = pool \ {v} /\ slot' = [slot EXCEPT ![v] = kill]
      PROVE  Moved(w)
  <2>1. slot[v].current = t /\ v \in Workers
    BY <1>0, <1>3 DEF InHand
  <2>2. slot'[v] = kill /\ \A x \in Workers \ {v} : slot'[x] = slot[x]
    BY <1>0, <1>3, <2>1
  <2>3. /\ kill.current = None /\ kill.stopped = TRUE /\ kill.poisoned = TRUE
        /\ kill.discarded = slot[v].discarded
    BY <1>0, <2>1 DEF SlotType
  <2> HIDE DEF v, kill
  <2>4. CASE w = v
    BY <1>0, <1>3, <2>1, <2>2, <2>3, <2>4 DEF Moved, Retired
  <2>5. CASE w # v
    BY <1>3, <2>2, <2>5 DEF Moved, Untouched, SamePlace
  <2> QED
    BY <2>4, <2>5
<1>4. ASSUME t \in inFlight, inFlight' = inFlight \ {t}, v \in pool,
             pool' = pool /\ slot' = [slot EXCEPT ![v] = free]
      PROVE  Moved(w)
  <2>1. slot[v].current = t /\ v \in Workers
    BY <1>0, <1>4 DEF InHand
  <2>2. slot'[v] = free /\ \A x \in Workers \ {v} : slot'[x] = slot[x]
    BY <1>0, <1>4, <2>1
  <2>3. /\ free.current = None /\ free.stopped = slot[v].stopped
        /\ free.poisoned = slot[v].poisoned /\ free.discarded = slot[v].discarded
    BY <1>0, <2>1 DEF SlotType
  <2> HIDE DEF v, free
  <2>4. CASE w = v
    BY <1>0, <1>4, <2>1, <2>2, <2>3, <2>4 DEF Moved, Freed, SameMarks
  <2>5. CASE w # v
    BY <1>4, <2>2, <2>5 DEF Moved, Untouched, SamePlace
  <2> QED
    BY <2>4, <2>5
<1> QED
  BY <1>1, <1>2, <1>3, <1>4

(* A result frees or recycles the worker that owns it.                    *)
LEMMA ProcessSlots ==
  ASSUME TypeInv, NEW th \in Threads, ProcessResult(th), NEW w \in Workers
  PROVE  Moved(w)
<1>0. /\ slot \in [Workers -> SlotType] /\ pool \subseteq Workers /\ ~ Secured
  BY BoundsAssumption DEF TypeInv, SlotFits, PoolType, Seen, Workers, ProcessResult, Unlocked,
                          Secured
<1> DEFINE v == thread[th].slot
           t == Head(thread[th].buf).task
           b == slot[v].stopped \/ Recycles(v)
           idle == [slot[v] EXCEPT !.current = None, !.completed = slot[v].completed + 1,
                                   !.stopped = b]
<1>1. /\ inFlight' = inFlight \ {t}
      /\ \/ slot' = slot /\ pool' = pool
         \/ /\ v \in pool /\ slot[v].current = t /\ slot' = [slot EXCEPT ![v] = idle]
            /\ \/ Recycles(v) /\ pool' = pool \ {v}
               \/ ~ Recycles(v) /\ pool' = pool
  BY <1>0 DEF ProcessResult, Popped, RetireWorker
<1>2. CASE slot' = slot /\ pool' = pool
  BY <1>2 DEF Moved, Untouched, SamePlace
<1>3. ASSUME v \in pool, slot[v].current = t, slot' = [slot EXCEPT ![v] = idle],
             \/ Recycles(v) /\ pool' = pool \ {v}
             \/ ~ Recycles(v) /\ pool' = pool
      PROVE  Moved(w)
  <2>1. v \in Workers /\ slot[v] \in SlotType
    BY <1>0, <1>3
  <2>2. b \in BOOLEAN /\ slot[v].stopped \in BOOLEAN
    BY <2>1 DEF SlotType
  <2>3. Recycles(v) => b = TRUE
    OBVIOUS
  <2>4. ~ Recycles(v) => b = slot[v].stopped
    BY <2>2
  <2>5. slot'[v] = idle /\ \A x \in Workers \ {v} : slot'[x] = slot[x]
    BY <1>0, <1>3, <2>1
  <2> HIDE DEF b
  <2>6. /\ idle.current = None /\ idle.stopped = b
        /\ idle.poisoned = slot[v].poisoned /\ idle.discarded = slot[v].discarded
    BY <2>1 DEF SlotType
  <2> HIDE DEF v, idle, t
  <2>7. CASE w = v /\ Recycles(v)
    BY <1>0, <1>1, <1>3, <2>3, <2>5, <2>6, <2>7 DEF Moved, Retired
  <2>8. CASE w = v /\ ~ Recycles(v)
    BY <1>0, <1>1, <1>3, <2>4, <2>5, <2>6, <2>8 DEF Moved, Freed, SameMarks
  <2>9. CASE w # v
    BY <1>3, <2>5, <2>9 DEF Moved, Untouched, SamePlace
  <2> QED
    BY <2>7, <2>8, <2>9
<1> QED
  BY <1>1, <1>2, <1>3

(* A shipped task goes to the secured worker.                             *)
LEMMA ShipSlots ==
  ASSUME TypeInv, NEW t \in Tasks, ShipTask(t), NEW w \in Workers
  PROVE  Moved(w)
<1> DEFINE v == thread["dispatch"].slot
           busy == [slot[v] EXCEPT !.current = t]
<1>0. /\ slot \in [Workers -> SlotType] /\ pool' = pool /\ Secured /\ v \in Workers
  BY DecisionFits DEF TypeInv, SlotFits, ShipTask, Secured
<1>1. slot' = [slot EXCEPT ![v] = busy] /\ slot[v] \in SlotType
  BY <1>0 DEF ShipTask
<1>2. slot'[v] = busy /\ \A x \in Workers \ {v} : slot'[x] = slot[x]
  BY <1>0, <1>1
<1>3. /\ busy.current = t /\ busy.stopped = slot[v].stopped
      /\ busy.poisoned = slot[v].poisoned /\ busy.discarded = slot[v].discarded
  BY <1>1 DEF SlotType
<1> HIDE DEF busy
<1>4. CASE w = v
  <2>1. slot'[w].current = t /\ slot'[w].stopped = slot[w].stopped /\ SameMarks(w) /\ SamePlace(w)
    BY <1>0, <1>2, <1>3, <1>4 DEF SameMarks, SamePlace
  <2> QED
    BY <1>0, <1>4, <2>1 DEF Moved, Shipped
<1>5. CASE w # v
  BY <1>0, <1>2, <1>5 DEF Moved, Untouched, SamePlace
<1> QED
  BY <1>4, <1>5

(* A discarded queue is that of the worker being looked into.             *)
LEMMA DiscardSlots ==
  ASSUME TypeInv, NEW th \in Reapers, DiscardQueue(th), NEW w \in Workers
  PROVE  Moved(w)
<1> DEFINE v == thread[th].slot
           out == [slot[v] EXCEPT !.discarded = TRUE]
<1>0. slot \in [Workers -> SlotType] /\ pool' = pool /\ v \in Workers
  BY DiscardTurns DEF TypeInv, SlotFits, DiscardQueue
<1>1. slot' = [slot EXCEPT ![v] = out] /\ slot[v] \in SlotType
  BY <1>0 DEF DiscardQueue
<1>2. slot'[v] = out /\ \A x \in Workers \ {v} : slot'[x] = slot[x]
  BY <1>0, <1>1
<1>3. /\ out.current = slot[v].current /\ out.stopped = slot[v].stopped
      /\ out.poisoned = slot[v].poisoned
  BY <1>1 DEF SlotType
<1> HIDE DEF out
<1>4. CASE w = v
  <2>1. /\ slot'[w].stopped = slot[w].stopped /\ slot'[w].poisoned = slot[w].poisoned
        /\ SameCurrent(w) /\ SamePlace(w)
    BY <1>0, <1>2, <1>3, <1>4 DEF SameCurrent, SamePlace
  <2> QED
    BY <1>4, <2>1 DEF Moved, Discarded
<1>5. CASE w # v
  BY <1>0, <1>2, <1>5 DEF Moved, Untouched, SamePlace
<1> QED
  BY <1>4, <1>5

(* A shutdown stops the workers of the pool.                              *)
LEMMA StopSlots ==
  ASSUME TypeInv, StopAllWorkers, NEW w \in Workers
  PROVE  Moved(w)
<1> DEFINE b == slot[w].stopped \/ w \in pool
           halt == [slot[w] EXCEPT !.stopped = b]
<1>0. slot \in [Workers -> SlotType] /\ pool' = pool /\ slot[w] \in SlotType
  BY DEF TypeInv, SlotFits, StopAllWorkers
<1>1. slot'[w] = halt
  BY DEF StopAllWorkers
<1>2. slot[w].stopped \in BOOLEAN
  BY <1>0 DEF SlotType
<1>3. b = slot[w].stopped \/ w \in pool
  BY <1>2
<1> HIDE DEF b
<1>4. /\ halt.current = slot[w].current /\ halt.stopped = b
      /\ halt.poisoned = slot[w].poisoned /\ halt.discarded = slot[w].discarded
  BY <1>0 DEF SlotType
<1> HIDE DEF halt
<1>5. SameCurrent(w) /\ SameMarks(w) /\ SamePlace(w) /\ slot'[w].stopped = b
  BY <1>0, <1>1, <1>4 DEF SameCurrent, SameMarks, SamePlace
<1> QED
  BY <1>3, <1>5 DEF Moved, Halted

(* A new worker is born, and may retire another.                          *)
LEMMA SpawnSlots ==
  ASSUME TypeInv, SpawnWorker \/ ReplaceWorker, NEW w \in Workers
  PROVE  Moved(w) /\ spawned + 1 \notin pool
<1> DEFINE v == spawned + 1
           new == NewSlot(Decision.gpu)
<1>0. /\ slot \in [Workers -> SlotType] /\ pool \subseteq 1 .. spawned /\ spawned \in Nat
      /\ ~ Secured /\ None \notin inFlight' /\ v \in Workers
      /\ v \notin pool /\ v = spawned + 1 /\ pool \subseteq Workers
  <2>1. pool \subseteq 1 .. spawned /\ spawned \in Nat /\ spawned < MaxSpawns /\ MaxSpawns \in Nat
    BY BoundsAssumption DEF TypeInv, PoolType, Seen, SpawnWorker, ReplaceWorker, Spawn
  <2>2. v \in Workers /\ v \notin 1 .. spawned /\ 1 .. spawned \subseteq Workers
    BY <2>1 DEF Workers
  <2>3. None \notin inFlight'
    BY TasksAssumption DEF SpawnWorker, ReplaceWorker, queueVars, TypeInv, QueueType
  <2> QED
    BY <2>1, <2>2, <2>3 DEF TypeInv, SlotFits, SpawnWorker, ReplaceWorker, Securing, Secured
<1>1. /\ new.current = None /\ new.stopped = FALSE /\ new.poisoned = FALSE
      /\ new.discarded = FALSE
  BY DEF NewSlot
<1> HIDE DEF new, v
<1>2. CASE SpawnWorker
  <2>1. slot' = [slot EXCEPT ![v] = new] /\ pool' = pool \cup {v}
    BY <1>0, <1>2 DEF SpawnWorker, new, v
  <2>2. slot'[v] = new /\ \A x \in Workers \ {v} : slot'[x] = slot[x]
    BY <1>0, <2>1
  <2>3. CASE w = v
    BY <1>0, <1>1, <1>2, <2>1, <2>2, <2>3 DEF Moved, Born
  <2>4. CASE w # v
    BY <1>0, <2>1, <2>2, <2>4 DEF Moved, Untouched, SamePlace
  <2> QED
    BY <1>0, <2>3, <2>4
<1>3. CASE ReplaceWorker
  <2> DEFINE old == First(Evictable)
             stop == [slot[old] EXCEPT !.stopped = TRUE]
  <2>1. Evictable \subseteq pool /\ Evictable # {} /\ Evictable \subseteq 1 .. spawned
    BY <1>0, <1>3 DEF ReplaceWorker, Evictable, Idle
  <2>2. old \in Evictable
    BY <1>0, <2>1, FirstOfWorkers
  <2>3. old \in pool /\ slot[old].current = None /\ old \in Workers /\ old # v
        /\ slot[old] \in SlotType
    <3>1. old \in pool /\ slot[old].current = None
      BY <2>2 DEF Evictable, Idle
    <3>2. old \in Workers
      BY <1>0, <3>1
    <3> QED
      BY <1>0, <3>1, <3>2
  <2>4. pool' = (pool \ {old}) \cup {v} /\ slot' = [slot EXCEPT ![old].stopped = TRUE, ![v] = new]
    BY <1>3 DEF ReplaceWorker, new, v
  <2> HIDE DEF old
  <2>5. /\ slot'[v] = new /\ slot'[old] = stop
        /\ \A x \in Workers \ {v, old} : slot'[x] = slot[x]
    BY <1>0, <2>3, <2>4
  <2>6. /\ stop.current = None /\ stop.stopped = TRUE
        /\ stop.poisoned = slot[old].poisoned /\ stop.discarded = slot[old].discarded
    BY <2>3 DEF SlotType
  <2> HIDE DEF stop
  <2>7. CASE w = v
    BY <1>0, <1>1, <1>3, <2>4, <2>5, <2>7 DEF Moved, Born
  <2>8. CASE w = old
    <3>1. w \in pool /\ w \notin pool' /\ slot[w].current \notin inFlight'
      BY <1>0, <2>3, <2>4, <2>8
    <3>2. /\ slot'[w].current = None /\ slot'[w].stopped = TRUE
          /\ slot'[w].discarded = slot[w].discarded /\ slot'[w].poisoned = slot[w].poisoned
      BY <2>5, <2>6, <2>8
    <3> QED
      BY <1>0, <3>1, <3>2 DEF Moved, Retired
  <2>9. CASE w # v /\ w # old
    BY <1>0, <2>4, <2>5, <2>9 DEF Moved, Untouched, SamePlace
  <2> QED
    BY <1>0, <2>7, <2>8, <2>9
<1> QED
  BY <1>0, <1>2, <1>3

(* The dead are found.                                                    *)
LEMMA CheckSlots ==
  ASSUME TypeInv, NEW th \in Reapers, CheckWorkers(th), NEW w \in Workers
  PROVE  Moved(w)
<1>1. slot' = slot /\ pool' = pool \ Dead /\ ~ Secured
  BY DEF CheckWorkers, Unlocked, Secured
<1>2. CASE w \in Dead
  BY <1>1, <1>2 DEF Moved, Found
<1>3. CASE w \notin Dead
  BY <1>1, <1>3 DEF Moved, Untouched, SamePlace
<1> QED
  BY <1>2, <1>3

(* So every worker moves in one of these ways.                            *)
LEMMA WorkerMoves ==
  ASSUME TypeInv, InHand, [Next]_vars, NEW w \in Workers
  PROVE  Moved(w)
<1>1. CASE UNCHANGED <<slot, pool>>
  BY <1>1 DEF Moved, Untouched, SamePlace
<1> QED
  BY <1>1, TimeoutSlots, ProcessSlots, ShipSlots, DiscardSlots, StopSlots, SpawnSlots, CheckSlots,
     StepIsFramed DEF Framed, PoolChanges, SlotChanges

-----------------------------------------------------------------------------
(* What a step does to the workers a thread looks into.                     *)

SameWorkers(th) ==
  thread'[th].todo = thread[th].todo /\ thread'[th].dead = thread[th].dead

\* Nothing, while it settles what it has read.
Lingers(th) ==
  SameWorkers(th) /\ thread'[th].slot = thread[th].slot /\ thread'[th].pc = thread[th].pc

\* It drains the next worker.
DrainsNext(th) ==
  /\ thread[th].pc = "reap" /\ thread'[th].pc = "drain"
  /\ \E w \in thread[th].todo :
       /\ DrainQueue(th, w) /\ thread'[th].slot = w
       /\ thread'[th].todo = thread[th].todo \ {w} /\ thread'[th].dead = thread[th].dead

\* It has a lost task to look into.
LooksInto(th) ==
  /\ SameWorkers(th) /\ thread'[th].slot = thread[th].slot
  /\ thread[th].pc = "drain" /\ thread'[th].pc = "lost" /\ DiscardQueue(th) /\ Seizes(th)

\* It is done with one worker.
GoesOn(th) ==
  /\ \/ thread[th].pc = "drain" /\ DiscardQueue(th) /\ Forgets(th)
     \/ thread[th].pc = "lost"
  /\ thread'[th].slot = None
  /\ IF thread[th].todo = {}
       THEN thread'[th].todo = {} /\ thread'[th].dead = {} /\ thread'[th].pc = Onward(th)
       ELSE SameWorkers(th) /\ thread'[th].pc = "reap"

\* It finds the dead and the exited.
Checks(th) ==
  /\ CheckWorkers(th) /\ thread[th].pc = "top"
  /\ thread'[th].todo = Dead \cup Exited /\ thread'[th].dead = Dead
  /\ thread'[th].pc \in {"reap", Onward(th)} /\ thread'[th].slot = None

\* It joins what is left at shutdown.
Joins(th) == th = "caller" /\ JoinWorkers /\ thread[th].pc = "join" /\ thread'[th].dead = {}

\* It secures a worker for a decision, or lets go of it.
Holds(th) ==
  \/ th = "caller" \/ thread'[th].slot = None
  \/ thread[th].pc = "plan" /\ thread'[th].slot = thread[th].slot
  \/ ReuseWorker /\ thread'[th].slot \in Idle
  \/ (SpawnWorker \/ ReplaceWorker) /\ thread'[th].slot = spawned + 1

\* It looks into none.
Elsewhere(th) ==
  /\ thread[th].pc \notin Busy /\ thread'[th].pc \notin Busy
  /\ thread'[th].todo = {} /\ thread'[th].dead = {}
  /\ Holds(th)

Examines(th) ==
  \/ Lingers(th) \/ DrainsNext(th) \/ LooksInto(th) \/ GoesOn(th) \/ Checks(th) \/ Joins(th)
  \/ Elsewhere(th)

(* A thread that proceeds is done with one worker.                        *)
LEMMA ProceedGoesOn ==
  ASSUME TypeInv, NEW th \in Reapers, Turn(th, Proceed(th)),
         \/ thread[th].pc = "drain" /\ DiscardQueue(th) /\ Forgets(th)
         \/ thread[th].pc = "lost"
  PROVE  Examines(th)
<1>0. thread \in [Threads -> ThreadType] /\ th \in Threads
  BY DEF TypeInv, ThreadInv, Reapers
<1>1. thread'[th] = Proceed(th)
  BY <1>0 DEF Turn
<1>2. CASE thread[th].todo = {}
  <2>1. /\ Proceed(th).todo = {} /\ Proceed(th).dead = {} /\ Proceed(th).pc = Onward(th)
        /\ Proceed(th).slot = None
    BY <1>2 DEF Proceed, AtRest
  <2> QED
    BY <1>1, <1>2, <2>1 DEF Examines, GoesOn
<1>3. CASE thread[th].todo # {}
  <2> DEFINE rest == AtRest("reap")
  <2>1. Proceed(th) = [rest EXCEPT !.todo = thread[th].todo, !.dead = thread[th].dead]
    BY <1>3 DEF Proceed
  <2>2. rest.pc = "reap" /\ rest.slot = None /\ DOMAIN rest = {"pc", "todo", "dead", "slot", "buf", "hand", "lost"}
    BY DEF AtRest
  <2> HIDE DEF rest
  <2>3. /\ Proceed(th).todo = thread[th].todo /\ Proceed(th).dead = thread[th].dead
        /\ Proceed(th).pc = "reap" /\ Proceed(th).slot = None
    BY <2>1, <2>2
  <2> QED
    BY <1>1, <1>3, <2>3 DEF Examines, GoesOn, SameWorkers
<1> QED
  BY <1>2, <1>3

(* So a reaper moves in one of these ways.                                *)
LEMMA ReaperMoves ==
  ASSUME TypeInv, TypeInv', [Next]_vars, NEW th \in Reapers
  PROVE  Examines(th)
<1>0. /\ UNCHANGED thread \/ ThreadChanges
      /\ thread \in [Threads -> ThreadType] /\ th \in Threads /\ th # "collector"
      /\ "caller" \in Threads /\ "dispatch" \in Threads /\ "collector" \in Threads
      /\ \A x \in Reapers : x \in Threads
  BY StepIsFramed DEF Framed, TypeInv, ThreadInv, Threads, Reapers
<1>1. CASE thread'[th] = thread[th]
  BY <1>1 DEF Examines, Lingers, SameWorkers
<1>2. ASSUME NEW x \in Threads, NEW r, Turn(x, r), x # th PROVE Examines(th)
  BY <1>0, <1>1, <1>2 DEF Turn
<1>3. ASSUME NEW r, Turn(th, r) PROVE thread'[th] = r
  BY <1>0, <1>3 DEF Turn
<1>4. ASSUME thread[th].pc \notin Busy, thread'[th].pc \notin Busy, Holds(th) PROVE Examines(th)
  <2>1. thread'[th].todo = {} /\ thread'[th].dead = {}
    BY <1>0, <1>4 DEF TypeInv, ThreadInv, ThreadFits, Busy
  <2> QED
    BY <1>4, <2>1 DEF Examines, Elsewhere
<1>5. ASSUME NEW r, Turn(th, r), r.pc = thread[th].pc, r.slot = thread[th].slot,
             r.todo = thread[th].todo, r.dead = thread[th].dead
      PROVE  Examines(th)
  BY <1>3, <1>5 DEF Examines, Lingers, SameWorkers
<1>6. CASE \E x \in Threads : ProcessResult(x) \/ SettleResult(x)
  <2>1. PICK x \in Threads : ProcessResult(x) \/ SettleResult(x)
    BY <1>6
  <2>2. thread[x].pc = "drain"
    BY <2>1 DEF ProcessResult, SettleResult, Processing, Settling
  <2>3. \E r : /\ Turn(x, r) /\ r.pc = "drain" /\ r.slot = thread[x].slot
               /\ r.todo = thread[x].todo /\ r.dead = thread[x].dead
    BY <2>1, ProcessTurns, SettleTurns DEF Unloads
  <2> QED
    BY <1>2, <1>5, <2>2, <2>3
<1>7. CASE \E x \in Reapers : RetryLost(x) \/ FailLost(x)
  <2>1. PICK x \in Reapers : RetryLost(x) \/ FailLost(x)
    BY <1>7
  <2>2. thread[x].pc = "lost" /\ Turn(x, Proceed(x))
    BY <2>1, LostTurns DEF Unloads
  <2> QED
    BY <1>0, <1>2, <2>2, ProceedGoesOn
<1>8. CASE \E x \in Reapers : DiscardQueue(x)
  <2>1. PICK x \in Reapers : DiscardQueue(x)
    BY <1>8
  <2>2. thread[x].pc = "drain" /\ (Seizes(x) \/ Forgets(x))
    BY <2>1, DiscardTurns
  <2>3. CASE Forgets(x)
    <3>1. Turn(x, Proceed(x))
      BY <2>3 DEF Forgets
    <3> QED
      BY <1>0, <1>2, <2>1, <2>2, <2>3, <3>1, ProceedGoesOn
  <2>4. CASE Seizes(x)
    <3>1. PICK r : /\ Turn(x, r) /\ r.pc = "lost" /\ r.slot = thread[x].slot
                   /\ r.todo = thread[x].todo /\ r.dead = thread[x].dead
      BY <2>4 DEF Seizes
    <3>2. CASE x = th
      BY <1>3, <2>1, <2>2, <2>4, <3>1, <3>2 DEF Examines, LooksInto, SameWorkers
    <3> QED
      BY <1>0, <1>2, <3>1, <3>2
  <2> QED
    BY <2>2, <2>3, <2>4
<1>9. CASE \E x \in Reapers, w \in Workers : DrainQueue(x, w)
  <2>1. PICK x \in Reapers, w \in Workers : DrainQueue(x, w)
    BY <1>9
  <2>2. PICK r : Walks(x, r) /\ r.pc = "drain" /\ r.slot = w /\ r.todo = thread[x].todo \ {w}
                 /\ r.dead = thread[x].dead
    BY <2>1, DrainTurns
  <2>3. Turn(x, r) /\ thread[x].pc = "reap" /\ w \in thread[x].todo
    BY <2>1, <2>2 DEF Walks, DrainQueue
  <2>4. CASE x = th
    BY <1>3, <2>1, <2>2, <2>3, <2>4 DEF Examines, DrainsNext
  <2> QED
    BY <1>0, <1>2, <2>3, <2>4
<1>10. CASE \E x \in Reapers : CheckWorkers(x)
  <2>1. PICK x \in Reapers : CheckWorkers(x)
    BY <1>10
  <2>2. thread[x].pc = "top" /\ \E r : Turn(x, r)
    BY <2>1, CheckTurns DEF CheckWorkers, Walks
  <2>3. CASE x = th
    <3>1. CASE Dead \cup Exited = {}
      <4>1. thread' = [thread EXCEPT ![th] = AtRest(Onward(th))]
        BY <2>1, <2>3, <3>1 DEF CheckWorkers
      <4>2. /\ thread'[th].todo = {} /\ thread'[th].dead = {} /\ thread'[th].pc = Onward(th)
            /\ thread'[th].slot = None
        BY <1>0, <4>1 DEF AtRest
      <4> QED
        BY <2>1, <2>2, <2>3, <3>1, <4>2 DEF Examines, Checks
    <3>2. CASE Dead \cup Exited # {}
      <4>1. thread' = [thread EXCEPT ![th] = Reaping(Dead \cup Exited, Dead)]
        BY <2>1, <2>3, <3>2 DEF CheckWorkers, Reaping
      <4>2. /\ thread'[th].todo = Dead \cup Exited /\ thread'[th].dead = Dead
            /\ thread'[th].pc = "reap" /\ thread'[th].slot = None
        BY <1>0, <4>1 DEF AtRest, Reaping
      <4> QED
        BY <2>1, <2>2, <2>3, <4>2 DEF Examines, Checks
    <3> QED
      BY <3>1, <3>2
  <2> QED
    BY <1>0, <1>2, <2>2, <2>3
<1>11. CASE JoinWorkers
  <2>1. /\ thread["caller"].pc = "join" /\ \E r : Turn("caller", r)
    BY <1>11, JoinTurns DEF JoinWorkers, Walks
  <2>2. CASE th = "caller"
    <3>1. thread["caller"].dead = {}
      BY <1>0, <2>1, ThreadFacts DEF TypeInv, Busy
    <3>2. thread'[th].dead = {}
      BY <1>0, <1>11, <2>2, <3>1 DEF JoinWorkers, TypeInv, ThreadInv, ThreadType
    <3> QED
      BY <1>11, <2>1, <2>2, <3>2 DEF Examines, Joins
  <2> QED
    BY <1>0, <1>2, <2>1, <2>2
<1>12. CASE \/ Shutdown \/ FailPendingFutures \/ WaitForInFlight \/ StopThreads \/ StopAllWorkers
            \/ Close
  <2>1. PICK r : Turn("caller", r)
    BY <1>12, CallerTurns DEF Walks
  <2>2. CASE th = "caller"
    <3>1. /\ thread["caller"].pc \notin Busy
          /\ \E pc \in {"failing", "top", "stop", "stopAll", "join", "closed"} :
               thread' = [thread EXCEPT !["caller"].pc = pc]
      <4> USE DEF Busy
      <4>1. CASE Shutdown
        BY <4>1 DEF Shutdown
      <4>2. CASE FailPendingFutures
        BY <4>2 DEF FailPendingFutures
      <4>3. CASE WaitForInFlight
        BY <4>3 DEF WaitForInFlight
      <4>4. CASE StopThreads
        BY <4>4 DEF StopThreads
      <4>5. CASE StopAllWorkers
        BY <4>5 DEF StopAllWorkers
      <4>6. CASE Close
        BY <4>6 DEF Close
      <4> QED
        BY <1>12, <4>1, <4>2, <4>3, <4>4, <4>5, <4>6
    <3>2. thread'["caller"].pc \notin Busy
      BY <1>0, <3>1 DEF Busy, ThreadType
    <3> QED
      BY <1>4, <2>2, <3>1, <3>2 DEF Holds
  <2> QED
    BY <1>0, <1>2, <2>1, <2>2
<1>13. CASE \/ \E t \in Tasks : ShipTask(t)
            \/ ReuseWorker \/ SpawnWorker \/ ReplaceWorker \/ LeaveQueued \/ DropCancelled
  <2>1. /\ thread["dispatch"].pc = "ship"
        /\ \E r : /\ Turn("dispatch", r) /\ r.pc \in {"top", "ship"}
                  /\ \/ r.slot = None
                     \/ ReuseWorker /\ r.slot \in Idle
                     \/ (SpawnWorker \/ ReplaceWorker) /\ r.slot = spawned + 1
    <3>1. CASE ReuseWorker \/ SpawnWorker \/ ReplaceWorker
      BY <3>1, SecuringTurns DEF Walks
    <3>2. CASE LeaveQueued \/ DropCancelled \/ \E t \in Tasks : ShipTask(t)
      <4>1. thread["dispatch"].pc = "ship" /\ NextDecision /\ spawned' = spawned
        BY <3>2 DEF LeaveQueued, DropCancelled, ShipTask, Securing, Secured, poolVars
      <4>2. Turn("dispatch", AtRest(IF Len(plan) = 1 THEN "top" ELSE "ship"))
        BY <4>1, NextDecisionTurns DEF Walks
      <4>3. AtRest(IF Len(plan) = 1 THEN "top" ELSE "ship").pc \in {"top", "ship"}
            /\ AtRest(IF Len(plan) = 1 THEN "top" ELSE "ship").slot = None
        BY DEF AtRest
      <4> QED
        BY <4>1, <4>2, <4>3
    <3> QED
      BY <1>13, <3>1, <3>2
  <2>2. CASE th = "dispatch"
    BY <1>3, <1>4, <2>1, <2>2 DEF Busy, Holds
  <2> QED
    BY <1>0, <1>2, <2>1, <2>2
<1>14. CASE MaybeDispatch
  <2>1. PICK S, left : Dispatches(S, left)
    BY <1>14, DispatchUnfolds
  <2>2. PICK r : /\ Walks("dispatch", r)
                 /\ r.pc = (IF PlanOf(S, left).decisions = <<>> THEN "top" ELSE "ship")
                 /\ r.slot = thread["dispatch"].slot
    BY <1>14, <2>1, DispatchTurns
  <2>3. thread["dispatch"].pc = "plan" /\ Turn("dispatch", r) /\ r.pc \in {"top", "ship"}
    BY <1>14, <2>2 DEF MaybeDispatch, Walks
  <2>4. CASE th = "dispatch"
    BY <1>3, <1>4, <2>2, <2>3, <2>4 DEF Busy, Holds
  <2> QED
    BY <1>0, <1>2, <2>3, <2>4
<1>15. CASE Sweep \/ ReadQueue \/ NextQueue \/ \E w \in Workers : CheckQueue(w)
  <2>1. \E r : Turn("collector", r)
    BY <1>15, SweepTurns, ReadTurns, NextQueueTurns, CheckQueueTurns DEF Walks
  <2> QED
    BY <1>0, <1>2, <2>1
<1> QED
  BY <1>0, <1>1, <1>6, <1>7, <1>8, <1>9, <1>10, <1>11, <1>12, <1>13, <1>14, <1>15
     DEF ThreadChanges

-----------------------------------------------------------------------------

(* Once told to stop, the threads are not told otherwise.                 *)
LEMMA StoppingStep ==
  ASSUME [Next]_vars
  PROVE  stopping' = stopping \/ (stopping' = TRUE /\ StopThreads)
BY StepIsFramed DEF Framed, StopThreads

\* A worker of the pool is stopped only by a shutdown, and never poisoned.
PoolInv ==
  \A w \in pool : (slot[w].stopped = TRUE => stopping = TRUE) /\ slot[w].poisoned = FALSE

(* Every step keeps the pool free of stopped and poisoned workers.        *)
LEMMA PoolStep ==
  ASSUME TypeInv, TypeInv', InHand, CallerInv, PoolInv, [Next]_vars
  PROVE  PoolInv'
<1> SUFFICES ASSUME NEW w \in pool'
             PROVE  (slot'[w].stopped = TRUE => stopping' = TRUE) /\ slot'[w].poisoned = FALSE
  BY DEF PoolInv
<1>1. w \in Workers
  BY BoundsAssumption DEF TypeInv, PoolType, Seen, Workers
<1>2. stopping = TRUE => stopping' = TRUE
  BY StoppingStep
<1>3. Moved(w)
  BY <1>1, WorkerMoves
<1>4. CASE Halted(w)
  <2>1. stopping = TRUE
    BY <1>4 DEF Halted, StopAllWorkers, CallerInv, Stopped
  <2> QED
    BY <1>2, <1>4, <2>1 DEF Halted, SamePlace, SameMarks, PoolInv
<1>5. CASE Born(w)
  BY <1>5 DEF Born
<1>6. CASE Untouched(w) \/ Freed(w) \/ Shipped(w) \/ Discarded(w)
  <2>1. /\ w \in pool /\ slot'[w].stopped = slot[w].stopped
        /\ slot'[w].poisoned = slot[w].poisoned
    BY <1>6 DEF Untouched, Freed, Shipped, Discarded, SamePlace, SameMarks
  <2> QED
    BY <1>2, <2>1 DEF PoolInv
<1>7. CASE Retired(w) \/ Found(w)
  BY <1>7 DEF Retired, Found
<1> QED
  BY <1>3, <1>4, <1>5, <1>6, <1>7 DEF Moved

(* Every step keeps what is known of the dead.                            *)
LEMMA DeadStep ==
  ASSUME TypeInv, TypeInv', InHand, CallerInv, PoolInv, DeadInv, [Next]_vars
  PROVE  DeadInv'
<1> SUFFICES ASSUME NEW th \in Reapers, NEW w \in thread'[th].dead
             PROVE  slot'[w].stopped = FALSE /\ w \notin pool'
  BY DEF DeadInv
<1>0. /\ th \in Threads /\ ThreadInv /\ pool \subseteq Seen /\ spawned \in Nat
      /\ SlotFits
  BY DEF Reapers, TypeInv, PoolType
<1>1. CASE w \in thread[th].dead
  <2>1. slot[w].stopped = FALSE /\ w \notin pool
    BY <1>1 DEF DeadInv
  <2>2. w \in Workers /\ w # spawned + 1
    BY <1>0, <1>1, BoundsAssumption DEF ThreadInv, ThreadSees, Workers, TypeInv, PoolType
  <2>3. Moved(w)
    BY <2>2, WorkerMoves
  <2>4. ~ Born(w) /\ ~ Freed(w) /\ ~ Retired(w) /\ ~ Found(w)
    BY <2>1, <2>2 DEF Born, Freed, Retired, Found, Dead
  <2> QED
    BY <2>1, <2>3, <2>4 DEF Moved, Untouched, Shipped, Discarded, Halted, SamePlace
<1>2. CASE w \notin thread[th].dead
  <2>1. Checks(th)
    <3>1. Examines(th)
      BY ReaperMoves
    <3> QED
      BY <1>2, <3>1 DEF Examines, Lingers, DrainsNext, LooksInto, GoesOn, Joins, Elsewhere,
         SameWorkers
  <2>2. w \in Dead /\ CheckWorkers(th) /\ thread[th].pc = "top"
    BY <2>1 DEF Checks
  <2>3. w \in pool /\ pool' = pool \ Dead /\ slot' = slot
    BY <2>2 DEF Dead, CheckWorkers
  <2>4. stopping # TRUE
    <3>1. th \in {"dispatch", "caller"}
      BY DEF Reapers, Threads
    <3>2. CASE th = "dispatch"
      BY <2>2, <3>2 DEF CheckWorkers
    <3>3. CASE th = "caller"
      BY <2>2, <3>3 DEF CallerInv, Standing
    <3> QED
      BY <3>1, <3>2, <3>3
  <2>5. slot[w].stopped # TRUE /\ slot[w].stopped \in BOOLEAN
    <3>1. slot[w].stopped # TRUE
      BY <2>3, <2>4 DEF PoolInv
    <3>2. w \in Workers
      BY <1>0, <2>3, BoundsAssumption DEF Seen, Workers, TypeInv, PoolType
    <3>3. slot[w].stopped \in BOOLEAN
      BY <1>0, <3>2 DEF SlotFits, SlotType
    <3> QED
      BY <3>1, <3>3
  <2> QED
    BY <2>2, <2>3, <2>5
<1> QED
  BY <1>1, <1>2

\* The worker secured for the decision that is shipped is idle; there is none
\* between two plans.
SecuredInv ==
  /\ Secured => thread["dispatch"].slot \in pool /\ slot[thread["dispatch"].slot].current = None
  /\ thread["dispatch"].pc \in {"top", "plan"} => thread["dispatch"].slot = None

(* Nobody takes the secured worker away: the lock is held.                *)
LEMMA SecuredStep ==
  ASSUME TypeInv, TypeInv', InHand, SecuredInv, [Next]_vars
  PROVE  SecuredInv'
<1> DEFINE d == thread["dispatch"]
<1>a. PICK w : w = thread'["dispatch"].slot
  OBVIOUS
<1>0. "dispatch" \in Reapers /\ "dispatch" \in Threads /\ Examines("dispatch")
  BY ReaperMoves DEF Reapers, Threads
<1>1. CASE thread'["dispatch"].slot = None
  BY <1>1 DEF SecuredInv, Secured
<1>2. CASE thread'["dispatch"].pc \notin {"top", "plan", "ship"}
  BY <1>2 DEF SecuredInv, Secured
<1>3. CASE thread'["dispatch"].pc = d.pc /\ thread'["dispatch"].slot = d.slot
  <2>1. CASE ~ Secured
    <3>1. Secured' <=> Secured
      BY <1>3 DEF Secured
    <3> QED
      BY <1>3, <2>1, <3>1 DEF SecuredInv
  <2>2. CASE Secured
    <3>1. w \in pool /\ slot[w].current = None /\ w # None
      BY <1>a, <1>3, <2>2 DEF SecuredInv, Secured
    <3>2. w \in Workers
      BY <3>1, BoundsAssumption DEF TypeInv, PoolType, Seen, Workers
    <3>3. Moved(w)
      BY <3>2, WorkerMoves
    <3>4. ~ Shipped(w)
      <4> SUFFICES ASSUME NEW t \in Tasks, ShipTask(t) PROVE FALSE
        BY DEF Shipped
      <4>1. NextDecision
        BY DEF ShipTask
      <4>2. thread'["dispatch"].slot = None
        BY <1>0, <4>1 DEF NextDecision, AtRest, TypeInv, ThreadInv
      <4> QED
        BY <1>a, <3>1, <4>2
    <3>5. w \in pool' /\ slot'[w].current = None
      BY <2>2, <3>1, <3>3, <3>4
         DEF Moved, Untouched, Born, Freed, Retired, Discarded, Halted, Found, SamePlace, SameCurrent
    <3> QED
      BY <1>a, <1>3, <2>2, <3>1, <3>5 DEF SecuredInv, Secured
  <2> QED
    BY <2>1, <2>2
<1>4. CASE d.pc = "plan" /\ thread'["dispatch"].slot = d.slot
  BY <1>1, <1>4 DEF SecuredInv
<1>5. CASE ReuseWorker /\ w \in Idle
  <2>1. pool' = pool /\ slot' = slot /\ d.pc = "ship"
    BY <1>5 DEF ReuseWorker, poolVars, Securing
  <2>2. thread'["dispatch"].pc = "ship"
    BY <1>0, <1>5, <2>1 DEF ReuseWorker, Secure, TypeInv, ThreadInv, ThreadType
  <2> QED
    BY <1>a, <1>5, <2>1, <2>2 DEF SecuredInv, Secured, Idle
<1>6. CASE (SpawnWorker \/ ReplaceWorker) /\ w = spawned + 1
  <2>1. d.pc = "ship" /\ Secure(spawned + 1)
    BY <1>6 DEF SpawnWorker, ReplaceWorker, Spawn, Securing
  <2>2. thread'["dispatch"].pc = "ship"
    BY <1>0, <2>1 DEF Secure, TypeInv, ThreadInv, ThreadType
  <2>3. spawned + 1 \in pool' /\ spawned + 1 \in Workers
    BY <1>6, BoundsAssumption DEF SpawnWorker, ReplaceWorker, Spawn, Workers, TypeInv, PoolType
  <2>4. slot'[spawned + 1] = NewSlot(Decision.gpu)
    <3>1. slot \in [Workers -> SlotType]
      BY DEF TypeInv, SlotFits
    <3>2. CASE SpawnWorker
      BY <2>3, <3>1, <3>2 DEF SpawnWorker
    <3>3. CASE ReplaceWorker
      BY <2>3, <3>1, <3>3 DEF ReplaceWorker
    <3> QED
      BY <1>6, <3>2, <3>3
  <2>5. slot'[spawned + 1].current = None
    BY <2>4 DEF NewSlot
  <2> QED
    BY <1>a, <1>6, <2>2, <2>3, <2>5 DEF SecuredInv, Secured
<1>7. Onward("dispatch") = "plan"
  BY DEF Onward
<1> HIDE DEF d
<1> QED
  BY <1>a, <1>0, <1>1, <1>2, <1>3, <1>4, <1>5, <1>6, <1>7
     DEF Examines, Lingers, DrainsNext, LooksInto, GoesOn, Checks, Joins, Elsewhere, Holds, d

-----------------------------------------------------------------------------
\* A task in flight stays with its worker.
LEMMA WorkerStays ==
  ASSUME TypeInv, HomeInv, PlanInv, [Next]_vars, NEW t \in inFlight, ~ \E u \in Tasks : ShipTask(u)
  PROVE  work'[t].worker = work[t].worker
<1>0. /\ work \in [Tasks -> PendingWorkType] /\ t \in Tasks
      /\ Homed(future[t], work[t], At(t)) /\ "flight" \in At(t) /\ t \notin Range(pending)
  BY QueueOrFlight DEF TypeInv, WorkType, QueueType, HomeInv, At
<1>1. CASE work' = work
  BY <1>1
<1>2. ASSUME NEW u \in Tasks, SubmitEnter(u) PROVE work'[t].worker = work[t].worker
  <2>1. u # t
    BY <1>0, <1>2 DEF SubmitEnter, Homed
  <2> QED
    BY <1>0, <1>2, <2>1 DEF SubmitEnter
<1>3. ASSUME NEW u \in Tasks, SubmitAppend(u) PROVE work'[t].worker = work[t].worker
  BY <1>0, <1>3 DEF SubmitAppend, PendingWorkType
<1>4. ASSUME NEW u \in Tasks, HandleTimeout(u) PROVE work'[t].worker = work[t].worker
  <2>1. work' = work \/ work' = [work EXCEPT ![u].ignored = TRUE]
    BY <1>4 DEF HandleTimeout
  <2> QED
    BY <1>0, <2>1 DEF PendingWorkType
<1>5. ASSUME NEW th \in Reapers, RetryLost(th) PROVE work'[t].worker = work[t].worker
  <2>1. thread[th].lost \in Tasks /\ thread[th].lost # t
    BY <1>5, RetryMoves
  <2> QED
    BY <1>0, <1>5, <2>1 DEF RetryLost
<1>6. CASE MaybeDispatch
  <2>1. PICK S, left : S \subseteq {u \in Range(pending) : Stale(u)} /\ Dispatches(S, left)
    BY <1>6, DispatchUnfolds
  <2>2. PlansFrom
    BY QueueOrFlight DEF PlansFrom, TypeInv, HomeInv
  <2> QED
    BY <1>0, <2>1, <2>2, RunningIsKept
<1> QED
  BY <1>1, <1>2, <1>3, <1>4, <1>5, <1>6, StepIsFramed DEF Framed, WorkChanges

\* A worker that th has still to look into stays so until th has taken its task.
LEMMA ExaminedStays ==
  ASSUME TypeInv, TypeInv', [Next]_vars, NEW th \in Reapers, NEW w \in Examined(th)
  PROVE  \/ w \in Examined(th)'
         \/ DiscardQueue(th) /\ w = thread[th].slot /\ w \in thread[th].dead
<1>0. Examines(th) /\ w \in thread[th].dead
  BY ReaperMoves DEF Examined
<1>1. CASE Lingers(th)
  BY <1>1 DEF Lingers, SameWorkers, Examined
<1>2. CASE DrainsNext(th)
  BY <1>2 DEF DrainsNext, Examined
<1>3. CASE LooksInto(th)
  BY <1>3 DEF LooksInto, SameWorkers, Examined
<1>4. CASE GoesOn(th)
  BY <1>4 DEF GoesOn, SameWorkers, Examined
<1>5. thread[th].pc \in Busy
  BY <1>0, ThreadFacts DEF Reapers, TypeInv
<1>6. CASE Checks(th) \/ Joins(th) \/ Elsewhere(th)
  BY <1>5, <1>6 DEF Checks, Joins, Elsewhere, Busy
<1> QED
  BY <1>0, <1>1, <1>2, <1>3, <1>4, <1>6 DEF Examines

(* When the queue of a dead worker is discarded, its task leaves the      *)
(* running set.                                                           *)
LEMMA DiscardTakes ==
  ASSUME NEW th \in Reapers, DiscardQueue(th), thread[th].slot \in thread[th].dead,
         LostOf(th) # None
  PROVE  LostOf(th) \notin inFlight'
BY DEF DiscardQueue, LostOf, Popped

\* Where the worker w of a task in flight is seen.
InSight(w) == w \in pool \/ \E th \in Reapers : w \in Examined(th)

WatchInv ==
  \A t \in inFlight : LET w == work[t].worker IN
    w \in Workers /\ slot[w].current = t /\ InSight(w)

(* The worker of a watched task has it as its current one.                *)
LEMMA WatchIsInHand == WatchInv => InHand
BY DEF WatchInv, InHand

(* Every step keeps the tasks in flight in sight.                         *)
LEMMA WatchStep ==
  ASSUME TypeInv, TypeInv', HomeInv, PlanInv, SecuredInv, WatchInv, [Next]_vars
  PROVE  WatchInv'
<1> SUFFICES ASSUME NEW t \in inFlight', NEW k, k = work'[t].worker
             PROVE  k \in Workers /\ slot'[k].current = t /\ InSight(k)'
  BY DEF WatchInv, InSight, Examined
<1>0. InHand /\ t \in Tasks /\ pool \subseteq Seen /\ spawned + 1 \notin Seen
  BY WatchIsInHand DEF TypeInv, QueueType, PoolType, Seen
<1>1. CASE \E u \in Tasks : ShipTask(u)
  <2>1. PICK u \in Tasks : ShipTask(u)
    BY <1>1
  <2>2. PICK w : w = thread["dispatch"].slot
    OBVIOUS
  <2>3. /\ Secured /\ work' = [work EXCEPT ![u].notified = TRUE, ![u].gpu = Decision.gpu,
                                           ![u].worker = w]
        /\ inFlight' = inFlight \cup {u} /\ slot' = [slot EXCEPT ![w].current = u]
        /\ pool' = pool /\ NextDecision
    BY <2>1, <2>2 DEF ShipTask
  <2>4. w \in pool /\ slot[w].current = None /\ w \in Workers
    BY <2>2, <2>3, BoundsAssumption DEF SecuredInv, TypeInv, PoolType, Seen, Workers
  <2>5. work \in [Tasks -> PendingWorkType] /\ slot \in [Workers -> SlotType]
    BY DEF TypeInv, WorkType, SlotFits
  <2>6. CASE t = u
    <3>1. work'[t].worker = w
      BY <2>3, <2>5, <2>6 DEF PendingWorkType
    <3>2. slot'[w].current = t
      BY <2>3, <2>4, <2>5, <2>6 DEF SlotType
    <3> QED
      BY <2>3, <2>4, <3>1, <3>2 DEF InSight
  <2>7. CASE t # u
    <3>1. PICK v : v = work[t].worker
      OBVIOUS
    <3>2. t \in inFlight /\ v \in Workers /\ slot[v].current = t /\ InSight(v)
      BY <2>3, <2>7, <3>1 DEF WatchInv
    <3>3. v # w
      BY <1>0, <2>4, <3>2, TasksAssumption
    <3>a. work'[t] = work[t]
      BY <1>0, <2>3, <2>5, <2>7
    <3>4. slot'[v] = slot[v]
      BY <2>3, <2>5, <3>2, <3>3
    <3>5. InSight(v)'
      <4>1. CASE v \in pool
        BY <2>3, <4>1 DEF InSight
      <4>2. ASSUME NEW th \in Reapers, v \in Examined(th) PROVE InSight(v)'
        <5>1. th # "dispatch"
          BY <2>3, <4>2, ThreadFacts DEF Secured, Busy, Examined, Reapers, TypeInv
        <5>2. thread'[th] = thread[th]
          BY <2>3, <5>1 DEF NextDecision, TypeInv, ThreadInv, Reapers
        <5>3. Examined(th)' = Examined(th)
          BY <5>2 DEF Examined
        <5> QED
          BY <4>2, <5>3 DEF InSight
      <4> QED
        BY <3>2, <4>1, <4>2 DEF InSight
    <3> QED
      BY <3>1, <3>2, <3>a, <3>4, <3>5
  <2> QED
    BY <2>6, <2>7
<1>2. CASE ~ \E u \in Tasks : ShipTask(u)
  <2>1. PICK w : w = work[t].worker
    OBVIOUS
  <2>2. t \in inFlight /\ work'[t].worker = w
    BY <1>2, <2>1, InFlightShrinks, WorkerStays
  <2>3. w \in Workers /\ slot[w].current = t /\ InSight(w)
    BY <2>1, <2>2 DEF WatchInv
  <2>4. w \in Seen
    BY <1>0, <2>3 DEF InSight, Examined, TypeInv, ThreadInv, ThreadSees, Seen, Reapers
  <2>5. Moved(w)
    BY <1>0, <2>3, WorkerMoves
  <2>6. ~ Born(w) /\ ~ Freed(w) /\ ~ Retired(w) /\ ~ Shipped(w)
    BY <1>0, <1>2, <2>3, <2>4 DEF Born, Freed, Retired, Shipped
  <2>7. CASE Found(w)
    <3>1. slot'[w] = slot[w] /\ w \in Dead
      BY <2>7 DEF Found
    <3>2. PICK th \in Reapers : CheckWorkers(th)
      BY <2>7 DEF Found
    <3>3. thread' = [thread EXCEPT ![th] = Reaping(Dead \cup Exited, Dead)]
      BY <3>1, <3>2 DEF CheckWorkers, Reaping
    <3>4. thread'[th].todo = Dead \cup Exited /\ thread'[th].dead = Dead
      BY <3>3 DEF Reaping, AtRest, TypeInv, ThreadInv, Reapers
    <3>5. InSight(w)'
      BY <3>1, <3>4 DEF InSight, Examined
    <3> QED
      BY <2>2, <2>3, <3>1, <3>5
  <2>8. CASE Untouched(w) \/ Discarded(w) \/ Halted(w)
    <3>1. slot'[w].current = t /\ (w \in pool' <=> w \in pool)
      BY <2>3, <2>8 DEF Untouched, Discarded, Halted, SamePlace, SameCurrent
    <3>2. ASSUME NEW th \in Reapers, w \in Examined(th) PROVE InSight(w)'
      <4>1. CASE w \in Examined(th)'
        BY <4>1 DEF InSight
      <4>2. CASE DiscardQueue(th) /\ w = thread[th].slot /\ w \in thread[th].dead
        <5>1. LostOf(th) = t
          BY <2>3, <4>2 DEF LostOf
        <5> QED
          BY <1>0, <4>2, <5>1, DiscardTakes, TasksAssumption
      <4> QED
        BY <3>2, <4>1, <4>2, ExaminedStays
    <3>3. InSight(w)'
      BY <2>3, <3>1, <3>2 DEF InSight
    <3> QED
      BY <2>2, <2>3, <3>1, <3>3
  <2> QED
    BY <2>5, <2>6, <2>7, <2>8 DEF Moved
<1> QED
  BY <1>1, <1>2

-----------------------------------------------------------------------------
\* A process that is gone stays gone, and nobody fills its result queue again.
LEMMA DeadStaysDead ==
  ASSUME TypeInv, [Next]_vars, NEW w \in Workers, proc[w].alive = FALSE,
         ~ (w = spawned + 1 /\ (SpawnWorker \/ ReplaceWorker))
  PROVE  proc'[w].alive = FALSE
<1>0. proc \in [Workers -> ProcType] /\ ~ Alive(w)
  BY DEF TypeInv, ProcFits, Alive
<1>1. CASE proc' = proc
  BY <1>1
<1>2. ASSUME NEW v \in Workers, TakeWork(v) \/ TakeStop(v) \/ Finish(v) \/ Crash(v)
      PROVE  proc'[w].alive = FALSE
  <2>1. v # w
    BY <1>0, <1>2 DEF TakeWork, TakeStop, Finish, Crash
  <2> QED
    BY <1>0, <1>2, <2>1 DEF TakeWork, TakeStop, Finish, Crash, Dies
<1>3. CASE EscalateKill
  BY <1>0, <1>3 DEF EscalateKill, Dies
<1>4. CASE SpawnWorker \/ ReplaceWorker
  BY <1>0, <1>4 DEF SpawnWorker, ReplaceWorker, Spawn
<1> QED
  BY <1>1, <1>2, <1>3, <1>4, StepIsFramed DEF Framed, ProcChanges

(* Nobody fills the result queue of a dead process.                       *)
LEMMA EmptyStaysEmpty ==
  ASSUME TypeInv, [Next]_vars, NEW w \in Workers, proc[w].alive = FALSE, resultQueue[w] = <<>>
  PROVE  resultQueue'[w] = <<>>
<1>0. resultQueue \in [Workers -> Seq(ResultType)] /\ ~ Alive(w)
  BY DEF TypeInv, PipesType, Alive
<1>1. CASE resultQueue' = resultQueue
  BY <1>1
<1>2. ASSUME NEW v \in Workers, Finish(v) \/ Crash(v) PROVE resultQueue'[w] = <<>>
  <2>1. v # w
    BY <1>0, <1>2 DEF Finish, Crash
  <2> QED
    BY <1>0, <1>2, <2>1 DEF Finish, Crash, Dies
<1>3. CASE EscalateKill
  <2>1. timer.victim # w \/ resultQueue' = resultQueue
    BY <1>0, <1>3 DEF EscalateKill
  <2> QED
    BY <1>0, <1>3, <2>1 DEF EscalateKill, Dies
<1>4. CASE ReadQueue \/ \E th \in Reapers, v \in Workers : DrainQueue(th, v)
  BY <1>0, <1>4 DEF ReadQueue, DrainQueue, Emptied
<1> QED
  BY <1>1, <1>2, <1>3, <1>4, StepIsFramed DEF Framed, ResultQueueChanges

\* Its process is gone, and nothing it delivered is left in its queue.
Gone(w) == proc[w].alive = FALSE /\ (slot[w].poisoned = FALSE => resultQueue[w] = <<>>)

(* A worker that is gone stays gone.                                      *)
LEMMA GoneStaysGone ==
  ASSUME TypeInv, InHand, [Next]_vars, NEW w \in Workers, Gone(w),
         ~ (w = spawned + 1 /\ (SpawnWorker \/ ReplaceWorker))
  PROVE  Gone(w)'
<1>1. Moved(w) /\ ~ Born(w)
  BY WorkerMoves DEF Born
<1>2. slot'[w].poisoned = slot[w].poisoned \/ slot'[w].poisoned = TRUE
  BY <1>1 DEF Moved, Untouched, Freed, Retired, Shipped, Discarded, Halted, Found, SameMarks
<1>3. proc'[w].alive = FALSE
  BY DeadStaysDead DEF Gone
<1>4. slot'[w].poisoned = FALSE => resultQueue'[w] = <<>>
  BY <1>2, EmptyStaysEmpty DEF Gone
<1> QED
  BY <1>3, <1>4 DEF Gone

\* Unless the executor is shutting down, who is being looked into is dead, and
\* a queue is discarded only once it is drained.
DrainInv ==
  stopping = FALSE =>
    /\ \A th \in Reapers : /\ \A w \in thread[th].todo : proc[w].alive = FALSE
                           /\ thread[th].pc = "drain" => Gone(thread[th].slot)
    /\ \A w \in Workers : slot[w].discarded = TRUE => Gone(w)

(* Who is to be looked into is dead.                                      *)
LEMMA TodoStep ==
  ASSUME TypeInv, TypeInv', CallerInv, DrainInv, [Next]_vars, stopping = FALSE,
         NEW th \in Reapers, NEW w \in thread'[th].todo
  PROVE  proc'[w].alive = FALSE
<1>0. /\ \A v \in thread[th].todo : v \in Workers /\ proc[v].alive = FALSE /\ v # spawned + 1
      /\ Examines(th)
  BY ReaperMoves, BoundsAssumption
     DEF DrainInv, TypeInv, ThreadInv, ThreadSees, PoolType, Reapers, Workers
<1>1. CASE w \in thread[th].todo
  BY <1>0, <1>1, DeadStaysDead
<1>2. CASE w \notin thread[th].todo
  <2>1. ~ Joins(th)
    BY DEF Joins, CallerInv, Stopped
  <2>2. Checks(th)
    BY <1>0, <1>2, <2>1 DEF Examines, Lingers, DrainsNext, LooksInto, GoesOn, Elsewhere,
       SameWorkers
  <2>3. w \in Dead \cup Exited /\ proc' = proc
    BY <2>2 DEF Checks, CheckWorkers, procVars
  <2>4. w \in Workers
    BY <2>3, BoundsAssumption DEF Dead, Exited, TypeInv, PoolType, Seen, Workers
  <2>5. proc[w].alive \in BOOLEAN
    BY <2>4 DEF TypeInv, ProcFits, ProcType
  <2> QED
    BY <2>3, <2>5 DEF Dead, Exited, Alive
<1> QED
  BY <1>1, <1>2

(* Who is being looked into is gone.                                      *)
LEMMA DrainingStep ==
  ASSUME TypeInv, TypeInv', InHand, CallerInv, DrainInv, [Next]_vars, stopping = FALSE,
         NEW th \in Reapers, thread'[th].pc = "drain", NEW w, w = thread'[th].slot
  PROVE  Gone(w)'
<1>0. Examines(th) /\ th \in Threads /\ spawned \in Nat /\ spawned \in 0 .. MaxSpawns
  BY ReaperMoves DEF Reapers, TypeInv, PoolType
<1>1. CASE Lingers(th)
  <2>1. thread[th].pc = "drain" /\ w = thread[th].slot
    BY <1>1 DEF Lingers
  <2>2. w \in 1 .. spawned
    BY <1>0, <2>1 DEF TypeInv, ThreadInv, ThreadFits, ThreadSees
  <2>3. w \in Workers /\ w # spawned + 1
    BY <1>0, <2>2, BoundsAssumption DEF Workers
  <2> QED
    BY <2>1, <2>3, GoneStaysGone DEF DrainInv
<1>2. CASE DrainsNext(th)
  <2>1. w \in thread[th].todo /\ DrainQueue(th, w)
    BY <1>2 DEF DrainsNext
  <2>2. proc[w].alive = FALSE
    BY <2>1 DEF DrainInv
  <2>3. w \in Workers
    BY <1>0, <2>1, BoundsAssumption DEF Workers, TypeInv, ThreadInv, ThreadSees
  <2>4. proc' = proc /\ slot' = slot
    BY <2>1 DEF DrainQueue, poolVars
  <2>5. slot[w].poisoned = FALSE => resultQueue'[w] = <<>>
    <3> SUFFICES ASSUME slot[w].poisoned = FALSE PROVE resultQueue'[w] = <<>>
      OBVIOUS
    <3>1. resultQueue' = Emptied(w)
      BY <2>1, <2>2 DEF DrainQueue, Drains, Alive
    <3>2. resultQueue \in [Workers -> Seq(ResultType)]
      BY DEF TypeInv, PipesType
    <3>3. slot[w].discarded \in BOOLEAN
      BY <2>3 DEF TypeInv, SlotFits, SlotType
    <3>4. CASE slot[w].discarded = TRUE
      BY <2>3, <3>1, <3>2, <3>4 DEF Emptied, DrainInv, Gone
    <3>5. CASE slot[w].discarded = FALSE
      BY <2>3, <3>1, <3>2, <3>5 DEF Emptied
    <3> QED
      BY <3>3, <3>4, <3>5
  <2> QED
    BY <2>2, <2>4, <2>5 DEF Gone
<1>3. ~ LooksInto(th) /\ ~ Elsewhere(th)
  BY DEF LooksInto, Elsewhere, Busy
<1>4. Onward(th) # "drain"
  BY OnwardFits DEF Busy, TypeInv
<1>5. ~ GoesOn(th) /\ ~ Checks(th)
  BY <1>4 DEF GoesOn, Checks
<1>6. ~ Joins(th)
  BY DEF Joins, CallerInv, Stopped
<1> QED
  BY <1>0, <1>1, <1>2, <1>3, <1>5, <1>6 DEF Examines

(* A queue that is discarded is that of a worker that is gone.            *)
LEMMA DiscardedStep ==
  ASSUME TypeInv, TypeInv', InHand, DrainInv, [Next]_vars, stopping = FALSE,
         NEW w \in Workers, slot'[w].discarded = TRUE
  PROVE  Gone(w)'
<1>1. Moved(w)
  BY WorkerMoves
<1>2. CASE w = spawned + 1 /\ (SpawnWorker \/ ReplaceWorker)
  <2>1. slot \in [Workers -> SlotType]
    BY DEF TypeInv, SlotFits
  <2>2. slot'[w] = NewSlot(Decision.gpu)
    <3>1. CASE SpawnWorker
      BY <1>2, <2>1, <3>1 DEF SpawnWorker
    <3>2. CASE ReplaceWorker
      BY <1>2, <2>1, <3>2 DEF ReplaceWorker
    <3> QED
      BY <1>2, <3>1, <3>2
  <2> QED
    BY <2>2 DEF NewSlot
<1>3. CASE ~ (w = spawned + 1 /\ (SpawnWorker \/ ReplaceWorker))
  <2>1. Gone(w)
    <3>1. CASE slot[w].discarded = TRUE
      BY <3>1 DEF DrainInv
    <3>2. CASE slot[w].discarded # TRUE
      <4>1. Discarded(w)
        BY <1>1, <1>3, <3>2
           DEF Moved, Untouched, Born, Freed, Retired, Shipped, Halted, Found, SameMarks
      <4>2. PICK th \in Reapers : DiscardQueue(th) /\ w = thread[th].slot
        BY <4>1 DEF Discarded
      <4>3. thread[th].pc = "drain"
        BY <4>2 DEF DiscardQueue, Drained
      <4> QED
        BY <4>2, <4>3 DEF DrainInv
    <3> QED
      BY <3>1, <3>2
  <2> QED
    BY <1>3, <2>1, GoneStaysGone
<1> QED
  BY <1>2, <1>3

(* Every step keeps what is known of drained workers.                     *)
LEMMA DrainStep ==
  ASSUME TypeInv, TypeInv', InHand, CallerInv, DrainInv, [Next]_vars
  PROVE  DrainInv'
<1> SUFFICES ASSUME stopping' = FALSE
             PROVE  /\ \A th \in Reapers :
                         /\ \A w \in thread'[th].todo : proc'[w].alive = FALSE
                         /\ thread'[th].pc = "drain" => Gone(thread[th].slot)'
                    /\ \A w \in Workers : slot'[w].discarded = TRUE => Gone(w)'
  BY DEF DrainInv
<1>0. stopping = FALSE
  BY StoppingStep
<1>1. \A th \in Reapers : \A w \in thread'[th].todo : proc'[w].alive = FALSE
  BY <1>0, TodoStep
<1>2. ASSUME NEW th \in Reapers, thread'[th].pc = "drain" PROVE Gone(thread[th].slot)'
  <2>1. PICK w : w = thread'[th].slot
    OBVIOUS
  <2>2. Gone(w)'
    BY <1>0, <1>2, <2>1, DrainingStep
  <2> QED
    BY <2>1, <2>2 DEF Gone
<1>3. \A w \in Workers : slot'[w].discarded = TRUE => Gone(w)'
  BY <1>0, DiscardedStep
<1> QED
  BY <1>1, <1>2, <1>3

-----------------------------------------------------------------------------
CapInv == Cardinality(pool) <= MaxWorkers

(* The pool is finite.                                                    *)
LEMMA PoolIsFinite ==
  ASSUME PoolType
  PROVE  IsFiniteSet(pool) /\ Cardinality(pool) \in Nat
<1>1. IsFiniteSet(1 .. spawned)
  BY FS_Interval DEF PoolType
<1>2. pool \in SUBSET (1 .. spawned)
  BY DEF PoolType, Seen
<1>3. IsFiniteSet(pool)
  BY <1>1, <1>2, FS_Subset
<1> QED
  BY <1>3, FS_CardinalityType

(* A worker is spawned below the cap, or in place of another.             *)
LEMMA CapStep ==
  ASSUME TypeInv, CapInv, [Next]_vars
  PROVE  CapInv'
<1> DEFINE n == spawned + 1
<1>0. /\ IsFiniteSet(pool) /\ Cardinality(pool) \in Nat /\ MaxWorkers \in Nat
      /\ Cardinality(pool) <= MaxWorkers
  BY PoolIsFinite, MaxWorkersAssumption DEF TypeInv, CapInv
<1>1. ASSUME pool' \subseteq pool PROVE CapInv'
  <2>1. Cardinality(pool') <= Cardinality(pool) /\ Cardinality(pool') \in Nat
    BY <1>0, <1>1, FS_Subset, FS_CardinalityType
  <2> QED
    BY <1>0, <2>1 DEF CapInv
<1>2. ASSUME NEW t \in Tasks, HandleTimeout(t) PROVE pool' \subseteq pool
  BY <1>2 DEF HandleTimeout
<1>3. ASSUME NEW th \in Reapers, CheckWorkers(th) PROVE pool' \subseteq pool
  BY <1>3 DEF CheckWorkers
<1>4. ASSUME NEW th \in Threads, ProcessResult(th) PROVE pool' \subseteq pool
  BY <1>4 DEF ProcessResult, RetireWorker
<1>5. CASE SpawnWorker
  <2>1. pool' = pool \cup {n} /\ ~ AtCap
    BY <1>5 DEF SpawnWorker
  <2>2. Cardinality(pool) < MaxWorkers
    BY <1>0, <2>1 DEF AtCap
  <2>3. Cardinality(pool') <= Cardinality(pool) + 1 /\ Cardinality(pool') \in Nat
    BY <1>0, <2>1, FS_AddElement
  <2> QED
    BY <1>0, <2>2, <2>3 DEF CapInv
<1>6. CASE ReplaceWorker
  <2>1. PICK victim : victim = First(Evictable)
    OBVIOUS
  <2>2. pool' = (pool \ {victim}) \cup {n} /\ Evictable # {}
    BY <1>6, <2>1 DEF ReplaceWorker
  <2>a. Evictable \subseteq pool
    BY DEF Evictable, Idle
  <2>b. pool \subseteq 1 .. spawned /\ spawned \in Nat
    BY DEF TypeInv, PoolType, Seen
  <2>3. Evictable \in SUBSET (1 .. spawned) /\ spawned \in Nat /\ Evictable \subseteq pool
    BY <2>a, <2>b
  <2>4. victim \in pool
    BY <2>1, <2>2, <2>3, FirstOfWorkers
  <2>5. IsFiniteSet(pool \ {victim}) /\ Cardinality(pool \ {victim}) = Cardinality(pool) - 1
    BY <1>0, <2>4, FS_RemoveElement
  <2>6. Cardinality(pool') \in {Cardinality(pool) - 1, Cardinality(pool)}
    <3>1. CASE n \in pool \ {victim}
      <4>1. pool' = pool \ {victim}
        BY <2>2, <3>1
      <4> QED
        BY <2>5, <4>1
    <3>2. CASE n \notin pool \ {victim}
      <4>1. Cardinality(pool') = Cardinality(pool \ {victim}) + 1
        BY <2>2, <2>5, <3>2, FS_AddElement
      <4> HIDE DEF n
      <4> QED
        BY <1>0, <2>5, <4>1
    <3> QED
      BY <3>1, <3>2
  <2> QED
    BY <1>0, <2>6 DEF CapInv
<1>7. CASE pool' = pool
  BY <1>1, <1>7
<1> QED
  BY <1>1, <1>2, <1>3, <1>4, <1>5, <1>6, <1>7, StepIsFramed DEF Framed, PoolChanges

-----------------------------------------------------------------------------
ExecutorInv ==
  /\ TypeInv /\ HomeInv /\ PlanInv
  /\ CallerInv /\ PoolInv /\ DeadInv /\ SecuredInv /\ WatchInv /\ DrainInv /\ CapInv

(* At the start no task is anywhere.                                      *)
LEMMA HomesAtInit == Init => HomeInv
<1> SUFFICES ASSUME Init PROVE HomeInv
  OBVIOUS
<1>1. pending = <<>> /\ inFlight = {} /\ timer.task = None
  BY DEF Init
<1>2. NoDup(pending) /\ Range(pending) = {}
  BY <1>1, EmptyQueue DEF NoDup
<1>3. ASSUME NEW t \in Tasks PROVE Homed(future[t], work[t], At(t))
  <2>1. \A th \in Threads : ~ Carries(thread[th], t)
    <3> SUFFICES ASSUME NEW th \in Threads PROVE ~ Carries(thread[th], t)
      OBVIOUS
    <3>1. PICK pc : thread[th] = AtRest(pc)
      BY DEF Init
    <3> QED
      BY <3>1, RestCarriesNothing
  <2>2. At(t) = {}
    BY <1>1, <1>2, <2>1, TasksAssumption DEF At
  <2>3. future[t] = "new"
    BY DEF Init
  <2> QED
    BY <2>2, <2>3 DEF Homed, Waiting
<1> QED
  BY <1>2, <1>3 DEF HomeInv

(* At the start there is no plan.                                         *)
LEMMA PlanAtInit == Init => PlanInv
<1> SUFFICES ASSUME Init PROVE PlanInv
  OBVIOUS
<1>1. plan = <<>> /\ inFlight = {} /\ Len(plan) = 0 /\ 1 .. Len(plan) = {}
  BY DEF Init
<1>2. PlanTasks = {} /\ \A g : Ahead(g) = {} /\ RunningOn(g) = {}
  BY <1>1 DEF PlanTasks, Ahead, RunningOn
<1>3. IsFiniteSet(inFlight) /\ Cardinality(inFlight) = 0
  BY <1>1, FS_EmptySet
<1>4. PlanQueued
  BY <1>1, <1>2 DEF PlanQueued
<1>5. PlanSlots
  BY <1>1, <1>3, MaxWorkersAssumption DEF PlanSlots
<1>6. PlanAlone /\ PlanCanary
  BY <1>1 DEF PlanAlone, PlanCanary
<1>7. PlanMemory /\ PlanVram
  BY <1>1, <1>2 DEF PlanMemory, PlanVram
<1> QED
  BY <1>4, <1>5, <1>6, <1>7 DEF PlanInv

(* At the start there is no worker.                                       *)
LEMMA WorkersAtInit ==
  Init => CallerInv /\ PoolInv /\ DeadInv /\ SecuredInv /\ WatchInv /\ DrainInv /\ CapInv
<1> SUFFICES ASSUME Init
             PROVE  /\ CallerInv /\ PoolInv /\ DeadInv /\ SecuredInv /\ WatchInv /\ DrainInv
                    /\ CapInv
  OBVIOUS
<1>1. /\ pool = {} /\ inFlight = {} /\ stopping = FALSE
      /\ slot = [w \in Workers |-> NewSlot(None)]
  BY DEF Init
<1>2. thread["caller"] = AtRest("up") /\ thread["dispatch"] = AtRest("top")
  <2> DEFINE start(th) == CASE th = "collector" -> "idle" [] th = "dispatch" -> "top"
                            [] th = "caller" -> "up"
  <2>1. thread = [th \in Threads |-> AtRest(start(th))]
    BY DEF Init
  <2>2. start("caller") = "up" /\ start("dispatch") = "top"
    OBVIOUS
  <2> HIDE DEF start
  <2> QED
    BY <2>1, <2>2 DEF Threads
<1>3. \A th \in Reapers : th \in {"caller", "dispatch"}
  BY DEF Reapers, Threads
<1>4. CallerInv
  BY <1>1, <1>2 DEF CallerInv, AtRest, Standing, Stopped
<1>5. PoolInv /\ WatchInv
  BY <1>1 DEF PoolInv, WatchInv
<1>6. DeadInv
  BY <1>2, <1>3 DEF DeadInv, AtRest
<1>7. SecuredInv
  BY <1>2 DEF SecuredInv, Secured, AtRest
<1>8. DrainInv
  <2>1. \A w \in Workers : slot[w].discarded = FALSE
    BY <1>1 DEF NewSlot
  <2>2. \A th \in Reapers : thread[th].todo = {} /\ thread[th].pc # "drain"
    BY <1>2, <1>3 DEF AtRest
  <2> QED
    BY <2>1, <2>2 DEF DrainInv
<1>9. CapInv
  BY <1>1, FS_EmptySet, MaxWorkersAssumption DEF CapInv
<1> QED
  BY <1>4, <1>5, <1>6, <1>7, <1>8, <1>9

(* The invariant holds at the start.                                      *)
LEMMA ExecutorAtInit == Init => ExecutorInv
BY TypesAtInit, HomesAtInit, PlanAtInit, WorkersAtInit DEF ExecutorInv

(* Every step keeps the invariant.                                        *)
LEMMA ExecutorStep == ExecutorInv /\ [Next]_vars => ExecutorInv'
<1> SUFFICES ASSUME ExecutorInv, [Next]_vars PROVE ExecutorInv'
  OBVIOUS
<1>0. /\ TypeInv /\ HomeInv /\ PlanInv /\ CallerInv /\ PoolInv /\ DeadInv /\ SecuredInv
      /\ WatchInv /\ DrainInv /\ CapInv
  BY DEF ExecutorInv
<1>1. InHand /\ IsFiniteSet(inFlight) /\ NoDup(pending) /\ PlanTasks \subseteq Range(pending)
  BY <1>0, WatchIsInHand DEF HomeInv, PlanInv, PlanSlots, PlanQueued
<1>2. TypeInv'
  BY <1>0, <1>1, TypeStep
<1>3. HomeInv' /\ CallerInv' /\ CapInv'
  BY <1>0, <1>1, HomeStep, CallerStep, CapStep
<1>4. PlanInv'
  BY <1>0, <1>2, PlanIsKept
<1>5. PoolInv' /\ DeadInv' /\ SecuredInv' /\ DrainInv'
  BY <1>0, <1>1, <1>2, PoolStep, DeadStep, SecuredStep, DrainStep
<1>6. WatchInv'
  BY <1>0, <1>2, WatchStep
<1> QED
  BY <1>2, <1>3, <1>4, <1>5, <1>6 DEF ExecutorInv

(* The invariant holds in every reachable state, for every number of      *)
(* tasks, workers, crashes and retries: types, one home for every task, a *)
(* sound plan, and what the workers, their watchers and the shutdown rely *)
(* on.                                                                    *)
THEOREM ExecutorInvariant == Spec => []ExecutorInv
BY ExecutorAtInit, ExecutorStep, PTL DEF Spec

(* Every variable keeps its type, and a plan exists only while it is      *)
(* shipped.                                                               *)
THEOREM TypesAreRight == Spec => []TypeOK
<1>1. ExecutorInv => TypeOK
  BY TypesAreKept DEF ExecutorInv
<1> QED
  BY <1>1, ExecutorInvariant, PTL

(* A task whose future is open is at exactly one of the places.           *)
LEMMA OneHome == TypeInv /\ HomeInv => EveryTaskHasOneHome
<1> SUFFICES ASSUME TypeInv, HomeInv, NEW t \in Tasks, future[t] \in Waiting
             PROVE  Cardinality(Homes(t)) = 1
  BY DEF EveryTaskHasOneHome
<1> DEFINE hands == {x \in Threads : thread[x].hand # None /\ thread[x].hand.task = t}
           losts == {x \in Threads : thread[x].lost = t}
           places == {j \in DOMAIN pending : pending[j] = t}
<1>1. PICK p \in At(t) : \A q \in At(t) : p = q
  BY DEF HomeInv, Homed
<1>2. /\ "queue" \in At(t) <=> t \in Range(pending)
      /\ "flight" \in At(t) <=> t \in inFlight
      /\ "timer" \in At(t) <=> timer.task = t
      /\ \A th \in Threads : th \in At(t) <=> Carries(thread[th], t)
  BY DEF At, Threads
<1>3. \A th \in Threads : th # "queue" /\ th # "flight" /\ th # "timer"
  BY DEF Threads
<1>4. /\ hands # {} \/ losts # {} => p \in Threads /\ hands \cup losts = {p}
      /\ \A x \in hands : x \notin losts
  <2>1. \A x \in hands : x \notin losts
    BY ThreadFacts, TasksAssumption DEF TypeInv
  <2>2. \A x \in hands \cup losts : x \in At(t)
    BY <1>2 DEF Carries
  <2> QED
    BY <1>1, <2>1, <2>2
<1>5. (p = "queue" <=> places # {}) /\ \A i, j \in places : i = j
  <2>1. Queue(pending) /\ DOMAIN pending = 1 .. Len(pending)
    BY DEF TypeInv, QueueType, Queue
  <2>2. places # {} <=> t \in Range(pending)
    BY DEF Range
  <2>3. \A i, j \in places : i = j
    BY <2>1 DEF HomeInv, NoDup
  <2> QED
    BY <1>1, <1>2, <2>2, <2>3
<1>6. /\ p = "flight" <=> inFlight \cap {t} = {t}
      /\ p # "flight" <=> inFlight \cap {t} = {}
      /\ p = "timer" <=> {timer.task} \cap {t} = {t}
      /\ p # "timer" <=> {timer.task} \cap {t} = {}
  BY <1>1, <1>2
<1>7. p \in Threads \/ p \in {"queue", "flight", "timer"}
  BY DEF At
<1>8. Homes(t) = {<<"result", th>> : th \in hands} \cup {<<"lost", th>> : th \in losts}
        \cup {<<"pending", i>> : i \in places}
        \cup {<<"inFlight", u>> : u \in inFlight \cap {t}}
        \cup {<<"timer", u>> : u \in {timer.task} \cap {t}}
  BY DEF Homes
<1>9. p \in Threads => (hands = {p} /\ losts = {}) \/ (losts = {p} /\ hands = {})
  <2> SUFFICES ASSUME p \in Threads PROVE (hands = {p} /\ losts = {}) \/ (losts = {p} /\ hands = {})
    OBVIOUS
  <2>1. p \in hands \cup losts
    BY <1>2 DEF Carries
  <2> QED
    BY <1>4, <2>1
<1> HIDE DEF hands, losts, places
<1>10. \E h : Homes(t) = {h}
  <2>1. CASE p \in Threads
    <3>1. places = {} /\ inFlight \cap {t} = {} /\ {timer.task} \cap {t} = {}
      BY <1>3, <1>5, <1>6, <2>1
    <3>2. CASE hands = {p} /\ losts = {}
      <4>1. Homes(t) = {<<"result", p>>}
        BY <1>8, <3>1, <3>2
      <4> QED
        BY <4>1
    <3>3. CASE losts = {p} /\ hands = {}
      <4>1. Homes(t) = {<<"lost", p>>}
        BY <1>8, <3>1, <3>3
      <4> QED
        BY <4>1
    <3> QED
      BY <1>9, <2>1, <3>2, <3>3
  <2>2. CASE p \notin Threads
    <3>1. hands = {} /\ losts = {}
      BY <1>4, <2>2
    <3>2. CASE p = "queue"
      <4>1. inFlight \cap {t} = {} /\ {timer.task} \cap {t} = {}
        BY <1>6, <3>2
      <4>2. PICK i : places = {i}
        BY <1>5, <3>2
      <4>3. Homes(t) = {<<"pending", i>>}
        BY <1>8, <3>1, <4>1, <4>2
      <4> QED
        BY <4>3
    <3>3. CASE p = "flight"
      <4>1. places = {} /\ inFlight \cap {t} = {t} /\ {timer.task} \cap {t} = {}
        BY <1>5, <1>6, <3>3
      <4>2. Homes(t) = {<<"inFlight", t>>}
        BY <1>8, <3>1, <4>1
      <4> QED
        BY <4>2
    <3>4. CASE p = "timer"
      <4>1. places = {} /\ inFlight \cap {t} = {} /\ {timer.task} \cap {t} = {t}
        BY <1>5, <1>6, <3>4
      <4>2. Homes(t) = {<<"timer", t>>}
        BY <1>8, <3>1, <4>1
      <4> QED
        BY <4>2
    <3> QED
      BY <1>7, <2>2, <3>2, <3>3, <3>4
  <2> QED
    BY <2>1, <2>2
<1> QED
  BY <1>10, FS_Singleton

(* No task is lost and none is duplicated: while its future is open,      *)
(* exactly one place is responsible for it, whatever crashes, timeouts    *)
(* and late results come together (adaptive_executor.py:949-988,          *)
(* 1006-1045, 1120-1165).                                                 *)
THEOREM TasksHaveOneHome == Spec => []EveryTaskHasOneHome
<1>1. ExecutorInv => EveryTaskHasOneHome
  BY OneHome DEF ExecutorInv
<1> QED
  BY <1>1, ExecutorInvariant, PTL

-----------------------------------------------------------------------------

(* The worker a task in flight was shipped to carries it as its current   *)
(* task and is in the pool, or being looked into as dead, so that its     *)
(* loss will be noticed (784-810, 1082-1136).                             *)
THEOREM FlightIsWatched == Spec => []InFlightIsWatched
<1>1. ExecutorInv => InFlightIsWatched
  BY DEF ExecutorInv, WatchInv, InSight, Reapers, InFlightIsWatched
<1> QED
  BY <1>1, ExecutorInvariant, PTL

(* A result that was delivered is read before the queue of its worker is  *)
(* discarded, unless the worker was killed or a shutdown gave up waiting  *)
(* for it (841-849, 1098-1111).                                           *)
THEOREM NothingIsStranded == Spec => []NothingStranded
<1>1. ExecutorInv => NothingStranded
  <2> SUFFICES ASSUME ExecutorInv, ~ stopping, NEW w \in Workers, slot[w].discarded,
                      ~ slot[w].poisoned
               PROVE  resultQueue[w] = <<>>
    BY DEF NothingStranded
  <2>1. stopping \in BOOLEAN /\ slot[w] \in SlotType
    BY DEF ExecutorInv, TypeInv, FlagsType, SlotFits
  <2>2. slot[w].discarded \in BOOLEAN
    BY <2>1 DEF SlotType
  <2>3. slot[w].poisoned \in BOOLEAN
    BY <2>1 DEF SlotType
  <2>4. stopping = FALSE
    BY <2>1
  <2>5. slot[w].discarded = TRUE
    BY <2>2
  <2>6. slot[w].poisoned = FALSE
    BY <2>3
  <2> QED
    BY <2>4, <2>5, <2>6 DEF ExecutorInv, DrainInv, Gone
<1> QED
  BY <1>1, ExecutorInvariant, PTL

(* The pool and the running set stay within max_workers while workers are *)
(* spawned, replaced and recycled (751-771).                              *)
THEOREM PoolStaysWithinCap == Spec => []PoolWithinCap
<1>1. ExecutorInv => PoolWithinCap
  <2> SUFFICES ASSUME ExecutorInv PROVE PoolWithinCap
    OBVIOUS
  <2>1. Cardinality(pool) <= MaxWorkers
    BY DEF ExecutorInv, CapInv
  <2>2. IsFiniteSet(inFlight) /\ Cardinality(inFlight) + Len(plan) <= MaxWorkers
    BY DEF ExecutorInv, PlanInv, PlanSlots
  <2>3. Cardinality(inFlight) \in Nat /\ Len(plan) \in Nat
    BY <2>2, FS_CardinalityType DEF ExecutorInv, TypeInv, PlanType
  <2> QED
    BY <2>1, <2>2, <2>3, MaxWorkersAssumption DEF PoolWithinCap
<1> QED
  BY <1>1, ExecutorInvariant, PTL

(* A crash-retried task is alone in flight from its dispatch to its end,  *)
(* although plans are shipped step by step (498-568).                     *)
THEOREM ExclusiveRunsAlone == Spec => []ExclusiveAloneInFlight
<1>1. ExecutorInv => ExclusiveAloneInFlight
  <2> SUFFICES ASSUME ExecutorInv, NEW t \in inFlight, work[t].excl PROVE inFlight = {t}
    BY DEF ExclusiveAloneInFlight
  <2>1. work[t] \in PendingWorkType
    BY DEF ExecutorInv, TypeInv, WorkType, QueueType
  <2>2. work[t].excl \in BOOLEAN
    BY <2>1 DEF PendingWorkType
  <2>3. work[t].excl = TRUE
    BY <2>2
  <2> QED
    BY <2>3 DEF ExecutorInv, PlanInv, PlanAlone
<1> QED
  BY <1>1, ExecutorInvariant, PTL

(* Two tasks dispatched cold on one profile are never in flight together  *)
(* (570-598, scheduling.py:261-269).                                      *)
THEOREM OneCanaryRuns == Spec => []OneCanaryPerProfile
<1>1. ExecutorInv => OneCanaryPerProfile
  <2> SUFFICES ASSUME ExecutorInv, NEW t \in inFlight, NEW u \in inFlight, t # u, Fn[t] = Fn[u],
                      work[t].cold, work[u].cold
               PROVE  FALSE
    BY DEF OneCanaryPerProfile
  <2>1. work[t] \in PendingWorkType /\ work[u] \in PendingWorkType
    BY DEF ExecutorInv, TypeInv, WorkType, QueueType
  <2>2. work[t].cold \in BOOLEAN
    BY <2>1 DEF PendingWorkType
  <2>3. work[u].cold \in BOOLEAN
    BY <2>1 DEF PendingWorkType
  <2>4. work[t].cold = TRUE
    BY <2>2
  <2>5. work[u].cold = TRUE
    BY <2>3
  <2> QED
    BY <2>4, <2>5 DEF ExecutorInv, PlanInv, PlanCanary
<1> QED
  BY <1>1, ExecutorInvariant, PTL

(* The estimates in flight fit the memory, and on each GPU its VRAM,      *)
(* whatever mixture of learned, floored and penalized estimates they are  *)
(* (616-645).                                                             *)
THEOREM FlightFitsMachine == Spec => []InFlightFitsMachine
<1>1. ExecutorInv => InFlightFitsMachine
  <2> SUFFICES ASSUME ExecutorInv, NEW t \in inFlight
               PROVE  /\ Committed(inFlight) < Memory
                      /\ work[t].gpu # None =>
                           CommittedVram(inFlight, work[t].gpu) < Vram[work[t].gpu]
    BY DEF InFlightFitsMachine
  <2> DEFINE A == inFlight \cup PlanTasks
  <2>0. /\ work \in [Tasks -> PendingWorkType] /\ inFlight \in SUBSET Tasks
        /\ IsFiniteSet(inFlight) /\ IsFiniteSet(A) /\ A \subseteq Tasks
    BY PlanIsFinite, FS_Union
       DEF ExecutorInv, TypeInv, WorkType, QueueType, PlanType, PlanInv, PlanSlots, PlanQueued
  <2>1. \A x \in Tasks : MemOf(work)[x] \in Nat /\ VramOf(work)[x] \in Nat
    BY <2>0 DEF MemOf, VramOf, PendingWorkType, EstimateType
  <2>2. Committed(inFlight) < Memory
    <3>1. Total(MemOf(work), A) < Memory
      BY DEF ExecutorInv, PlanInv, PlanMemory
    <3>2. inFlight \in SUBSET A /\ \A x \in A : MemOf(work)[x] \in Nat
      BY <2>0, <2>1
    <3> HIDE DEF A
    <3>3. /\ Total(MemOf(work), inFlight) <= Total(MemOf(work), A)
          /\ Total(MemOf(work), A) \in Nat /\ Total(MemOf(work), inFlight) \in Nat
      BY <2>0, <2>1, <3>2, TotalGrows, TotalRemoves
    <3>4. Committed(inFlight) = Total(MemOf(work), inFlight)
      BY <2>0, CommittedIsTotal
    <3> QED
      BY <3>1, <3>3, <3>4, MachineAssumption
  <2>3. ASSUME work[t].gpu # None
        PROVE  CommittedVram(inFlight, work[t].gpu) < Vram[work[t].gpu]
    <3>1. PICK g : g = work[t].gpu
      OBVIOUS
    <3>2. g \in Gpus /\ t \in RunningOn(g)
      BY <2>0, <2>3, <3>1 DEF PendingWorkType, RunningOn
    <3> DEFINE B == RunningOn(g) \cup Ahead(g)
    <3>3. g \in DOMAIN Vram /\ Total(VramOf(work), B) < Vram[g]
      BY <3>2 DEF ExecutorInv, PlanInv, PlanVram
    <3>4. Ahead(g) \subseteq PlanTasks /\ IsFiniteSet(Ahead(g))
      BY PlanIsFinite DEF ExecutorInv, TypeInv
    <3>5. RunningOn(g) \in SUBSET inFlight /\ IsFiniteSet(RunningOn(g))
      BY <2>0, FS_Subset DEF RunningOn
    <3>6. /\ IsFiniteSet(B) /\ RunningOn(g) \in SUBSET B
          /\ \A x \in B : VramOf(work)[x] \in Nat
      BY <2>0, <2>1, <3>4, <3>5, FS_Union
    <3> HIDE DEF B
    <3>7. /\ Total(VramOf(work), RunningOn(g)) <= Total(VramOf(work), B)
          /\ Total(VramOf(work), B) \in Nat
      BY <3>6, TotalGrows, TotalRemoves
    <3>8. Total(VramOf(work), RunningOn(g)) \in Nat
      BY <2>0, <2>1, <3>5, TotalRemoves
    <3>9. CommittedVram(inFlight, g) = Total(VramOf(work), RunningOn(g))
      BY <2>0, CommittedVramIsTotal DEF RunningOn
    <3>10. Vram[g] \in Int
      BY <3>3, MachineAssumption
    <3> QED
      BY <3>1, <3>3, <3>7, <3>8, <3>9, <3>10
  <2> QED
    BY <2>2, <2>3
<1> QED
  BY <1>1, ExecutorInvariant, PTL

-----------------------------------------------------------------------------
(* What a waiting shutdown leaves behind: tasks submitted after it refused  *)
(* the queue, and retried ones.                                             *)

Old(t) == work[t].late = TRUE \/ work[t].retries > 0
Refused == thread["caller"].pc \notin Outset
Waited == wait = TRUE /\ (stopping = TRUE \/ thread["caller"].pc = "stop")

WaitInv ==
  /\ Refused => \A t \in Range(pending) : Old(t)
  /\ Waited => \A t \in inFlight : Old(t)

\* Only a new task is not old, and only until it is refused.
Ages(t) ==
  /\ work'[t].retries \in Nat
  /\ work[t].retries > 0 => work'[t].retries > 0
  /\ work[t].late = TRUE => work'[t].late = TRUE

(* A task in the queue or in flight does not get younger.                   *)
LEMMA TasksAge ==
  ASSUME TypeInv, HomeInv, [Next]_vars, NEW t \in inFlight \cup Range(pending)
  PROVE  Ages(t)
<1>0. /\ work \in [Tasks -> PendingWorkType] /\ t \in Tasks
      /\ Homed(future[t], work[t], At(t)) /\ At(t) \cap {"queue", "flight"} # {}
  BY DEF TypeInv, WorkType, QueueType, HomeInv, At
<1>a. work[t].retries \in Nat /\ "late" \in DOMAIN work[t] /\ "retries" \in DOMAIN work[t]
  BY <1>0, BoundsAssumption DEF PendingWorkType
<1>1. CASE work'[t] = work[t]
  BY <1>a, <1>1 DEF Ages
<1>2. ASSUME NEW u \in Tasks, SubmitEnter(u) PROVE Ages(t)
  <2>1. u # t
    BY <1>0, <1>2 DEF SubmitEnter, Homed
  <2> QED
    BY <1>0, <1>1, <1>2, <2>1 DEF SubmitEnter
<1>3. ASSUME NEW u \in Tasks, SubmitAppend(u) PROVE Ages(t)
  <2>1. u # t
    BY <1>0, <1>3 DEF SubmitAppend, Homed
  <2> QED
    BY <1>0, <1>1, <1>3, <2>1 DEF SubmitAppend
<1>4. ASSUME NEW u \in Tasks, HandleTimeout(u) PROVE Ages(t)
  <2>1. work' = work \/ work' = [work EXCEPT ![u].ignored = TRUE]
    BY <1>4 DEF HandleTimeout
  <2>2. work'[t].retries = work[t].retries /\ work'[t].late = work[t].late
    BY <1>0, <2>1 DEF PendingWorkType
  <2> QED
    BY <1>a, <2>2 DEF Ages
<1>5. ASSUME NEW th \in Reapers, RetryLost(th) PROVE Ages(t)
  <2>1. thread[th].lost \in Tasks /\ thread[th].lost # t
    BY <1>5, RetryMoves
  <2> QED
    BY <1>0, <1>1, <1>5, <2>1 DEF RetryLost
<1>6. ASSUME NEW u \in Tasks, ShipTask(u) PROVE Ages(t)
  <2>1. work'[t].retries = work[t].retries /\ work'[t].late = work[t].late
    BY <1>0, <1>6 DEF ShipTask, PendingWorkType
  <2> QED
    BY <1>a, <2>1 DEF Ages
<1>7. ASSUME MaybeDispatch PROVE Ages(t)
  <2>1. PICK S, left : S \subseteq {u \in Range(pending) : Stale(u)} /\ Dispatches(S, left)
    BY <1>7, DispatchUnfolds
  <2>2. /\ work' = Planned(Reestimated(S), Feasible(S))
        /\ WorkType /\ ProfileType /\ Range(pending) \subseteq Tasks /\ Queue(pending)
    BY <2>1 DEF Dispatches, TypeInv, QueueType
  <2>3. Range(Feasible(S)) \subseteq Range(pending)
    BY <2>2, WithoutLeaves DEF Feasible
  <2>4. Carried4(work'[t], work[t])
    BY <1>0, <2>1, <2>2, <2>3, PlannedWork
  <2> QED
    BY <1>a, <2>4 DEF Carried4, Ages
<1> QED
  BY <1>1, <1>2, <1>3, <1>4, <1>5, <1>6, <1>7, StepIsFramed DEF Framed, WorkChanges

(* What enters the queue after the refusal is late or retried.              *)
LEMMA NewcomersAreOld ==
  ASSUME TypeInv, HomeInv, [Next]_vars, Refused, NEW t \in Range(pending') \ Range(pending)
  PROVE  Old(t)'
<1>0. work \in [Tasks -> PendingWorkType] /\ Queue(pending) /\ Range(pending) \subseteq Tasks
  BY DEF TypeInv, WorkType, QueueType
<1>1. ASSUME NEW u \in Tasks, SubmitAppend(u) PROVE Old(t)'
  <2>1. pending' = Append(pending, u)
    BY <1>1 DEF SubmitAppend
  <2>2. t = u
    BY <1>0, <2>1, AppendQueue
  <2>3. work'[u].late = Refused
    BY <1>0, <1>1 DEF SubmitAppend, PendingWorkType, Refused, Outset
  <2> QED
    BY <2>2, <2>3 DEF Old
<1>2. ASSUME NEW th \in Reapers, RetryLost(th) PROVE Old(t)'
  <2>1. t = thread[th].lost /\ t \in Tasks
    BY <1>2, RetryMoves
  <2>2. work'[t] = Retried(work[t])
    BY <1>0, <1>2, <2>1 DEF RetryLost
  <2>3. work[t].retries \in Nat /\ Retried(work[t]).retries = work[t].retries + 1
    BY <1>0, <2>1, BoundsAssumption DEF PendingWorkType, Retried, Penalized
  <2> QED
    BY <2>2, <2>3 DEF Old
<1>3. ASSUME NEW S PROVE Range(Without(pending, S)) \subseteq Range(pending)
  BY <1>0, WithoutLeaves
<1>4. ASSUME FailPendingFutures PROVE FALSE
  BY <1>4, EmptyQueue DEF FailPendingFutures
<1>5. ASSUME MaybeDispatch PROVE FALSE
  BY <1>3, <1>5, DispatchUnfolds DEF Dispatches, Feasible
<1>6. ASSUME DropCancelled \/ (\E u \in Tasks : ShipTask(u)) PROVE FALSE
  BY <1>3, <1>6 DEF DropCancelled, ShipTask, Unqueue
<1> QED
  BY <1>1, <1>2, <1>4, <1>5, <1>6, StepIsFramed DEF Framed, PendingChanges

(* A waiting shutdown finds nothing in flight before it stops.              *)
LEMMA WaitStep ==
  ASSUME TypeInv, HomeInv, CallerInv, WaitInv, PlanInv, [Next]_vars
  PROVE  WaitInv'
<1> DEFINE p == thread["caller"].pc
           q == thread'["caller"].pc
<1>0. CallerMove(p, q) /\ work \in [Tasks -> PendingWorkType] /\ Range(pending) \subseteq Tasks
  BY CallerMoves DEF TypeInv, WorkType, QueueType
<1>a. wait \in BOOLEAN /\ stopping \in BOOLEAN
  BY DEF TypeInv, FlagsType
<1>1. ASSUME NEW t \in inFlight \cup Range(pending), Old(t) PROVE Old(t)'
  <2>1. Ages(t)
    BY <1>1, TasksAge
  <2> QED
    BY <1>1, <2>1 DEF Ages, Old
<1>2. ASSUME Refused', NEW t \in Range(pending') PROVE Old(t)'
  <2>1. CASE FailPendingFutures
    BY <1>2, <2>1, EmptyQueue DEF FailPendingFutures
  <2>2. CASE ~ FailPendingFutures
    <3>1. Refused
      BY <1>0, <1>2, <2>2 DEF CallerMove, Refused, Outset
    <3>2. CASE t \in Range(pending)
      BY <1>1, <3>1, <3>2 DEF WaitInv
    <3> QED
      BY <1>2, <3>1, <3>2, NewcomersAreOld
  <2> QED
    BY <2>1, <2>2
<1>3. ASSUME Waited', NEW t \in inFlight' PROVE Old(t)'
  <2>1. Refused'
    <3>1. CallerInv'
      BY CallerStep
    <3> QED
      BY <1>3, <3>1 DEF Waited, CallerInv, Refused, Outset, Standing
  <2>2. CASE Waited
    <3>1. CASE t \in inFlight
      BY <1>1, <2>2, <3>1 DEF WaitInv
    <3>2. CASE t \notin inFlight
      <4>1. PICK u \in Tasks : ShipTask(u)
        BY <1>3, <3>2, InFlightShrinks
      <4>2. t = u /\ u \in Range(pending)
        <5>1. At(u) = {"queue"}
          BY <4>1, ShipMoves DEF PlanInv, PlanQueued, PlanSlots
        <5>2. inFlight' = inFlight \cup {u}
          BY <4>1 DEF ShipTask
        <5>3. u \in Range(pending)
          BY <5>1 DEF At, Threads
        <5>4. t = u
          BY <1>3, <3>2, <5>2
        <5> QED
          BY <5>3, <5>4
      <4>3. Refused
        <5>1. ~ Shutdown /\ ~ FailPendingFutures
          <6>1. ~ Unlocked
            BY <4>1 DEF ShipTask, Secured, Unlocked
          <6>2. Shutdown => UNCHANGED inFlight
            BY DEF Shutdown, queueVars
          <6> QED
            BY <1>3, <3>2, <6>1, <6>2 DEF FailPendingFutures
        <5> QED
          BY <1>0, <2>1, <5>1 DEF CallerMove, Refused, Outset
      <4> QED
        BY <1>1, <4>2, <4>3 DEF WaitInv
    <3> QED
      BY <3>1, <3>2
  <2>3. CASE ~ Waited
    <3>1. wait' = wait
      <4>1. ~ Shutdown
        <5>1. ASSUME Shutdown PROVE FALSE
          <6>1. q = "failing"
            BY <5>1 DEF Shutdown, TypeInv, ThreadInv, ThreadType, Threads
          <6> QED
            BY <2>1, <6>1 DEF Refused, Outset
        <5> QED
          BY <5>1
      <4> QED
        BY <4>1, StepIsFramed DEF Framed
    <3>2. p # "stop" /\ stopping = FALSE
      BY <1>a, <1>3, <2>3, <3>1 DEF Waited
    <3>3. stopping' = FALSE /\ q = "stop"
      <4>1. ~ StopThreads
        BY <3>2 DEF StopThreads
      <4> QED
        BY <1>3, <3>2, <4>1, StepIsFramed DEF Framed, Waited
    <3>4. WaitForInFlight /\ Quiet
      BY <1>0, <1>3, <3>1, <3>2, <3>3 DEF CallerMove, Waited, Visiting
    <3>5. inFlight' = {}
      BY <3>4 DEF WaitForInFlight, Quiet, queueVars
    <3> QED
      BY <1>3, <3>5
  <2> QED
    BY <2>2, <2>3
<1> QED
  BY <1>2, <1>3 DEF WaitInv

(* At the start no shutdown waits.                                         *)
LEMMA WaitAtInit == Init => WaitInv
BY EmptyQueue DEF Init, WaitInv, Waited, Refused

-----------------------------------------------------------------------------
(* Workers that were never spawned.                                         *)

Blank(w) ==
  /\ proc[w].alive = FALSE /\ proc[w].task = None
  /\ workQueue[w] = <<>> /\ resultQueue[w] = <<>>

BlankInv == \A w \in Workers : w > spawned => Blank(w)

(* Nothing happens to a worker that is not spawned yet.                     *)
LEMMA BlankStep ==
  ASSUME TypeInv, SecuredInv, BlankInv, [Next]_vars
  PROVE  BlankInv'
<1> SUFFICES ASSUME NEW w \in Workers, w > spawned' PROVE Blank(w)'
  BY DEF BlankInv
<1>0. /\ proc \in [Workers -> ProcType] /\ spawned \in Nat /\ MaxSpawns \in Nat
      /\ workQueue \in [Workers -> Seq(Tasks \cup {Stop})]
      /\ resultQueue \in [Workers -> Seq(ResultType)]
      /\ pool \subseteq 1 .. spawned /\ w \in Nat
      /\ timer.victim \in (1 .. spawned) \cup {None}
  BY BoundsAssumption DEF TypeInv, PoolType, Seen, ProcFits, PipesType, TimerType, Workers
<1>1. w > spawned /\ w # spawned'
  <2>1. spawned' = spawned \/ spawned' = spawned + 1
    BY StepIsFramed DEF Framed, SpawnWorker, ReplaceWorker, Spawn
  <2> QED
    BY <1>0, <2>1
<1>2. Blank(w) /\ w \notin pool /\ w # timer.victim /\ w # None
  BY <1>0, <1>1, ApartAssumption DEF BlankInv
<1>3. ~ Alive(w)
  BY <1>2 DEF Blank, Alive
<1>4. proc'[w] = proc[w]
  <2>1. ASSUME NEW v \in Workers, TakeWork(v) \/ TakeStop(v) \/ Finish(v) \/ Crash(v)
        PROVE  proc'[w] = proc[w]
    BY <1>0, <1>3, <2>1 DEF TakeWork, TakeStop, Finish, Crash, Dies
  <2>2. ASSUME EscalateKill PROVE proc'[w] = proc[w]
    BY <1>0, <1>2, <2>2 DEF EscalateKill, Dies
  <2>3. ASSUME SpawnWorker \/ ReplaceWorker PROVE proc'[w] = proc[w]
    BY <1>0, <1>1, <2>3 DEF SpawnWorker, ReplaceWorker, Spawn
  <2> QED
    BY <2>1, <2>2, <2>3, StepIsFramed DEF Framed, ProcChanges
<1>5. workQueue'[w] = workQueue[w]
  <2>1. ASSUME NEW t \in Tasks, ShipTask(t) PROVE workQueue'[w] = workQueue[w]
    <3>1. thread["dispatch"].slot \in pool
      BY <2>1 DEF SecuredInv, ShipTask
    <3>2. workQueue' = [workQueue EXCEPT ![thread["dispatch"].slot] = Append(@, t)]
      BY <2>1 DEF ShipTask
    <3> QED
      BY <1>0, <1>2, <3>1, <3>2
  <2>2. ASSUME NEW th \in Threads, ProcessResult(th) PROVE workQueue'[w] = workQueue[w]
    <3> DEFINE v == thread[th].slot
    <3>1. \/ workQueue' = workQueue
          \/ v \in pool /\ workQueue' = [workQueue EXCEPT ![v] = Append(@, Stop)]
      BY <2>2 DEF ProcessResult, RetireWorker
    <3> QED
      BY <1>0, <1>2, <3>1
  <2>3. ASSUME NEW v \in Workers, TakeWork(v) \/ TakeStop(v) PROVE workQueue'[w] = workQueue[w]
    BY <1>0, <1>3, <2>3 DEF TakeWork, TakeStop
  <2>4. ASSUME StopAllWorkers PROVE workQueue'[w] = workQueue[w]
    BY <1>2, <2>4 DEF StopAllWorkers
  <2>5. ASSUME ReplaceWorker PROVE workQueue'[w] = workQueue[w]
    <3>1. First(Evictable) \in pool
      BY <1>0, <2>5, FirstOfWorkers DEF ReplaceWorker, Evictable, Idle
    <3>2. workQueue' = [workQueue EXCEPT ![First(Evictable)] = Append(@, Stop)]
      BY <2>5 DEF ReplaceWorker
    <3> QED
      BY <1>0, <1>2, <3>1, <3>2
  <2> QED
    BY <2>1, <2>2, <2>3, <2>4, <2>5, StepIsFramed DEF Framed, WorkQueueChanges
<1>6. resultQueue'[w] = <<>>
  <2>0. resultQueue[w] = <<>>
    BY <1>2 DEF Blank
  <2>1. ASSUME NEW v \in Workers, Finish(v) \/ Crash(v) PROVE resultQueue'[w] = <<>>
    BY <1>0, <1>3, <2>0, <2>1 DEF Finish, Crash, Dies
  <2>2. ASSUME NEW v, resultQueue' = Emptied(v) PROVE resultQueue'[w] = <<>>
    BY <1>0, <2>0, <2>2 DEF Emptied
  <2>3. ASSUME NEW th \in Reapers, NEW v \in Workers, DrainQueue(th, v)
        PROVE  resultQueue'[w] = <<>>
    BY <2>0, <2>2, <2>3 DEF DrainQueue
  <2>4. ASSUME ReadQueue PROVE resultQueue'[w] = <<>>
    BY <2>0, <2>2, <2>4 DEF ReadQueue
  <2>5. ASSUME EscalateKill PROVE resultQueue'[w] = <<>>
    BY <1>0, <1>2, <2>0, <2>5 DEF EscalateKill, Dies
  <2> QED
    BY <2>0, <2>1, <2>3, <2>4, <2>5, StepIsFramed DEF Framed, ResultQueueChanges
<1> QED
  BY <1>2, <1>4, <1>5, <1>6 DEF Blank

-----------------------------------------------------------------------------
(* Who is looked into is not in the pool, before a shutdown stops it.       *)

AsideInv ==
  /\ pool \cap retiring = {}
  /\ stopping = FALSE =>
       \A th \in Reapers : /\ thread[th].todo \cap pool = {}
                           /\ thread[th].pc = "drain" => thread[th].slot \notin pool
  /\ stopping = FALSE => \A w \in pool : slot[w].discarded = FALSE

\* A worker enters the pool by being spawned.
LEMMA PoolGrows ==
  ASSUME TypeInv, InHand, [Next]_vars, NEW w \in pool' \ pool
  PROVE  w = spawned + 1 /\ (SpawnWorker \/ ReplaceWorker)
<1>1. ASSUME NEW t \in Tasks, HandleTimeout(t) PROVE FALSE
  BY <1>1 DEF HandleTimeout
<1>2. ASSUME NEW th \in Reapers, CheckWorkers(th) PROVE FALSE
  BY <1>2 DEF CheckWorkers
<1>3. ASSUME NEW th \in Threads, ProcessResult(th) PROVE FALSE
  BY <1>3 DEF ProcessResult, RetireWorker
<1>4. ASSUME SpawnWorker \/ ReplaceWorker PROVE w = spawned + 1
  BY <1>4 DEF SpawnWorker, ReplaceWorker
<1> QED
  BY <1>1, <1>2, <1>3, <1>4, StepIsFramed DEF Framed, PoolChanges

\* A worker that retires leaves the pool.
LEMMA RetiringGrows ==
  ASSUME TypeInv, [Next]_vars, NEW w \in retiring' \ retiring
  PROVE  w \in pool /\ w \notin pool'
<1>0. pool \subseteq 1 .. spawned /\ spawned \in Nat
  BY DEF TypeInv, PoolType, Seen
<1>1. ASSUME NEW t \in Tasks, HandleTimeout(t) PROVE w \in pool /\ w \notin pool'
  BY <1>1 DEF HandleTimeout
<1>2. ASSUME NEW th \in Reapers, CheckWorkers(th) PROVE FALSE
  BY <1>2 DEF CheckWorkers
<1>3. ASSUME NEW th \in Threads, ProcessResult(th) PROVE w \in pool /\ w \notin pool'
  BY <1>3 DEF ProcessResult, RetireWorker
<1>4. ASSUME Close PROVE FALSE
  BY <1>4 DEF Close
<1>5. ASSUME ReplaceWorker PROVE w \in pool /\ w \notin pool'
  <2>1. First(Evictable) \in pool
    BY <1>0, <1>5, FirstOfWorkers DEF ReplaceWorker, Evictable, Idle
  <2>2. retiring' = retiring \cup {First(Evictable)}
        /\ pool' = (pool \ {First(Evictable)}) \cup {spawned + 1}
    BY <1>5 DEF ReplaceWorker
  <2> QED
    BY <1>0, <2>1, <2>2
<1> QED
  BY <1>1, <1>2, <1>3, <1>4, <1>5, StepIsFramed DEF Framed, RetiringChanges

(* Every step leaves the workers that are looked into out of the pool.      *)
LEMMA AsideStep ==
  ASSUME TypeInv, TypeInv', InHand, CallerInv, AsideInv, [Next]_vars
  PROVE  AsideInv'
<1>0. /\ pool \subseteq 1 .. spawned /\ retiring \subseteq 1 .. spawned /\ spawned \in Nat
      /\ \A th \in Reapers : thread[th].todo \subseteq 1 .. spawned
      /\ \A th \in Reapers : thread[th].pc = "drain" => thread[th].slot \in 1 .. spawned
  BY DEF TypeInv, PoolType, Seen, ThreadInv, ThreadFits, ThreadSees, Reapers
<1>1. ASSUME NEW w \in 1 .. spawned, w \in pool' PROVE w \in pool
  BY <1>0, <1>1, PoolGrows
<1>2. pool' \cap retiring' = {}
  <2>1. ASSUME NEW w \in pool', w \in retiring' PROVE FALSE
    <3>1. CASE w \in retiring
      BY <1>0, <1>1, <2>1, <3>1 DEF AsideInv
    <3>2. CASE w \notin retiring
      BY <2>1, <3>2, RetiringGrows
    <3> QED
      BY <3>1, <3>2
  <2> QED
    BY <2>1
<1>3. ASSUME stopping' = FALSE, NEW th \in Reapers
      PROVE  /\ thread'[th].todo \cap pool' = {}
             /\ thread'[th].pc = "drain" => thread'[th].slot \notin pool'
  <2>0. stopping = FALSE /\ Examines(th)
    BY <1>3, StoppingStep, ReaperMoves
  <2>1. ~ Joins(th)
    BY <2>0 DEF Joins, CallerInv, Stopped
  <2>2. Onward(th) # "drain"
    BY OnwardFits DEF Busy, TypeInv
  <2>3. CASE SameWorkers(th)
             /\ (thread'[th].pc = "drain" => thread[th].pc = "drain" /\ thread'[th].slot = thread[th].slot)
    BY <1>0, <1>1, <2>0, <2>3 DEF AsideInv, SameWorkers
  <2>4. CASE Lingers(th)
    BY <2>3, <2>4 DEF Lingers
  <2>5. CASE LooksInto(th)
    BY <2>3, <2>5 DEF LooksInto
  <2>6. CASE GoesOn(th)
    <3>1. thread'[th].pc # "drain"
      BY <2>2, <2>6 DEF GoesOn
    <3>2. SameWorkers(th) \/ thread'[th].todo = {}
      BY <2>6 DEF GoesOn
    <3> QED
      BY <2>3, <3>1, <3>2
  <2>7. CASE DrainsNext(th)
    <3>1. PICK w \in thread[th].todo : thread'[th].slot = w /\ thread'[th].todo = thread[th].todo \ {w}
      BY <2>7 DEF DrainsNext
    <3> QED
      BY <1>0, <1>1, <2>0, <3>1 DEF AsideInv
  <2>8. CASE Checks(th)
    <3>1. thread'[th].todo = Dead \cup Exited /\ thread'[th].pc # "drain"
      BY <2>2, <2>8 DEF Checks
    <3>2. pool' = pool \ Dead
      BY <2>8 DEF Checks, CheckWorkers
    <3> QED
      BY <3>1, <3>2 DEF Exited, AsideInv
  <2>9. CASE Elsewhere(th)
    BY <2>9 DEF Elsewhere, Busy
  <2> QED
    BY <2>0, <2>1, <2>4, <2>5, <2>6, <2>7, <2>8, <2>9 DEF Examines
<1>4. ASSUME stopping' = FALSE, NEW w \in pool' PROVE slot'[w].discarded = FALSE
  <2>0. stopping = FALSE /\ w \in Workers
    <3>1. stopping = FALSE
      BY <1>4, StoppingStep
    <3>2. PoolType'
      BY DEF TypeInv
    <3>3. w \in 1 .. spawned' /\ spawned' \in 0 .. MaxSpawns
      BY <1>4, <3>2 DEF PoolType, Seen
    <3> QED
      BY <3>1, <3>3, BoundsAssumption DEF Workers
  <2>1. Moved(w)
    BY <2>0, WorkerMoves
  <2>2. CASE w \notin pool
    <3>1. Born(w)
      BY <1>4, <2>1, <2>2
         DEF Moved, Untouched, Freed, Retired, Found, SamePlace, Shipped, Discarded, Halted
    <3> QED
      BY <3>1 DEF Born
  <2>3. CASE w \in pool
    <3>1. slot[w].discarded = FALSE
      BY <2>0, <2>3 DEF AsideInv
    <3>2. ~ Discarded(w)
      <4> SUFFICES ASSUME NEW th \in Reapers, DiscardQueue(th), w = thread[th].slot PROVE FALSE
        BY DEF Discarded
      <4>1. thread[th].pc = "drain"
        BY DEF DiscardQueue, Drained
      <4> QED
        BY <2>0, <2>3, <4>1 DEF AsideInv
    <3> QED
      BY <2>1, <3>1, <3>2
         DEF Moved, Untouched, Born, Freed, Retired, Shipped, Halted, Found, SameMarks
  <2> QED
    BY <2>2, <2>3
<1> QED
  BY <1>2, <1>3, <1>4 DEF AsideInv

-----------------------------------------------------------------------------
(* What is on its way through a worker of the pool: nothing, or its current *)
(* task, waiting in its queue, running, reported or read by the collector.  *)

ReadOf(w) ==
  IF thread["collector"].pc = "drain" /\ thread["collector"].slot = w
    THEN thread["collector"].buf ELSE <<>>

Clear(w) == proc[w].task = None /\ resultQueue[w] = <<>> /\ ReadOf(w) = <<>>
Free(w) == Clear(w) /\ (proc[w].alive = TRUE => workQueue[w] = <<>>)
Begins(w, t) == Clear(w) /\ (proc[w].alive = TRUE => workQueue[w] = <<t>>)
Executes(w, t) ==
  /\ proc[w].task = t /\ workQueue[w] = <<>> /\ resultQueue[w] = <<>> /\ ReadOf(w) = <<>>
Reports(w, t) ==
  /\ proc[w].task = None /\ workQueue[w] = <<>> /\ ReadOf(w) = <<>>
  /\ Len(resultQueue[w]) = 1 /\ resultQueue[w][1].task = t
Reported(w, t) ==
  /\ proc[w].task = None /\ workQueue[w] = <<>> /\ resultQueue[w] = <<>>
  /\ Len(ReadOf(w)) = 1 /\ ReadOf(w)[1].task = t

Carrying(w, t) == Begins(w, t) \/ Executes(w, t) \/ Reports(w, t) \/ Reported(w, t)
Pipe(w, c) == IF c = None THEN Free(w) ELSE Carrying(w, c)

PipeInv ==
  onTimeout = "kill_worker" /\ stopping = FALSE => \A w \in pool : Pipe(w, slot[w].current)

SameRead(w) == ReadOf(w)' = ReadOf(w)
SamePipe(w) ==
  /\ proc'[w] = proc[w] /\ workQueue'[w] = workQueue[w] /\ resultQueue'[w] = resultQueue[w]
  /\ SameRead(w)

\* What the collector has read changes only as it reads and processes.
LEMMA ReadStep ==
  ASSUME TypeInv, [Next]_vars, NEW w
  PROVE  \/ SameRead(w)
         \/ ReadQueue /\ w = thread["collector"].slot
         \/ ProcessResult("collector") /\ w = thread["collector"].slot
<1> DEFINE c == thread["collector"]
           d == thread'["collector"]
<1>0. /\ UNCHANGED thread \/ ThreadChanges
      /\ thread \in [Threads -> ThreadType] /\ c \in ThreadType
      /\ "caller" \in Threads /\ "dispatch" \in Threads /\ "collector" \in Threads
      /\ \A th \in Reapers : th \in Threads /\ th # "collector"
  BY StepIsFramed DEF Framed, TypeInv, ThreadInv, Threads, Reapers
<1>1. ASSUME NEW th \in Threads, th # "collector", NEW r, thread' = [thread EXCEPT ![th] = r]
      PROVE  d = c
  BY <1>0, <1>1
<1>2. ASSUME d = c PROVE SameRead(w)
  BY <1>2 DEF SameRead, ReadOf
<1>3. ASSUME c.pc # "drain", d.pc # "drain" PROVE SameRead(w)
  BY <1>3 DEF SameRead, ReadOf
<1>4. ASSUME Sweep PROVE SameRead(w)
  <2>1. c.pc = "idle" /\ d.pc = "sweep"
    BY <1>0, <1>4 DEF Sweep, ThreadType
  <2> QED
    BY <1>3, <2>1
<1>5. ASSUME NEW v \in Workers, CheckQueue(v) PROVE SameRead(w)
  <2>1. c.pc = "sweep" /\ d.pc \in {"read", "idle", "sweep"}
    BY <1>0, <1>5 DEF CheckQueue, ThreadType
  <2> QED
    BY <1>3, <2>1
<1>6. ASSUME NextQueue PROVE SameRead(w)
  <2>1. c.pc = "drain" /\ c.buf = <<>>
    BY <1>6 DEF NextQueue, Drained
  <2>2. d.pc # "drain"
    BY <1>0, <1>6 DEF NextQueue, AtRest
  <2> QED
    BY <2>1, <2>2 DEF SameRead, ReadOf
<1>7. ASSUME ReadQueue, w # c.slot PROVE SameRead(w)
  <2>1. c.pc = "read" /\ d.slot = c.slot
    BY <1>0, <1>7 DEF ReadQueue, ThreadType
  <2> QED
    BY <1>7, <2>1 DEF SameRead, ReadOf
<1>8. ASSUME ProcessResult("collector"), w # c.slot PROVE SameRead(w)
  <2>1. d.slot = c.slot
    BY <1>0, <1>8 DEF ProcessResult, ThreadType
  <2> QED
    BY <1>8, <2>1 DEF SameRead, ReadOf
<1>9. ASSUME SettleResult("collector") PROVE SameRead(w)
  <2>1. d.slot = c.slot /\ d.pc = c.pc /\ d.buf = c.buf
    BY <1>0, <1>9 DEF SettleResult, ThreadType
  <2> QED
    BY <2>1 DEF SameRead, ReadOf
<1>10. ASSUME NEW th \in Reapers, CheckWorkers(th) PROVE d = c
  BY <1>0, <1>10 DEF CheckWorkers
<1>11. ASSUME NEW th \in Reapers, NEW v \in Workers, DrainQueue(th, v) PROVE d = c
  BY <1>0, <1>11 DEF DrainQueue
<1>12. ASSUME NEW th \in Threads, th # "collector", ProcessResult(th) \/ SettleResult(th)
       PROVE  d = c
  BY <1>0, <1>12 DEF ProcessResult, SettleResult
<1>13. ASSUME NEW th \in Reapers, DiscardQueue(th) PROVE d = c
  <2>1. PICK r : Turn(th, r)
    BY <1>13, DiscardTurns DEF Seizes, Forgets
  <2> QED
    BY <1>0, <1>1, <2>1 DEF Turn
<1>14. ASSUME NEW th \in Reapers, RetryLost(th) \/ FailLost(th) PROVE d = c
  BY <1>0, <1>14 DEF RetryLost, FailLost
<1>15. ASSUME \/ Shutdown \/ FailPendingFutures \/ WaitForInFlight \/ StopThreads
              \/ StopAllWorkers \/ JoinWorkers \/ Close
       PROVE  d = c
  BY <1>0, <1>15 DEF Shutdown, FailPendingFutures, WaitForInFlight, StopThreads, StopAllWorkers,
                     JoinWorkers, Close
<1>16. ASSUME \/ \E t \in Tasks : ShipTask(t)
              \/ MaybeDispatch \/ ReuseWorker \/ SpawnWorker \/ ReplaceWorker \/ LeaveQueued
              \/ DropCancelled
       PROVE  d = c
  BY <1>0, <1>16 DEF ShipTask, MaybeDispatch, ReuseWorker, SpawnWorker, ReplaceWorker,
                     LeaveQueued, DropCancelled, Spawn, Secure, NextDecision
<1>17. ASSUME UNCHANGED thread PROVE d = c
  BY <1>17
<1> HIDE DEF c, d
<1>18. \/ SameRead(w)
       \/ ReadQueue /\ w = c.slot
       \/ ProcessResult("collector") /\ w = c.slot
  BY <1>0, <1>2, <1>4, <1>5, <1>6, <1>7, <1>8, <1>9, <1>10, <1>11, <1>12, <1>13, <1>14, <1>15,
     <1>16, <1>17 DEF ThreadChanges
<1> QED
  BY <1>18 DEF c

\* The process of a worker of the pool ends.
Dying(w) ==
  /\ proc'[w].alive = FALSE /\ proc'[w].task = None
  /\ \E n \in 0 .. Len(resultQueue[w]) : resultQueue'[w] = SubSeq(resultQueue[w], 1, n)
  /\ UNCHANGED <<workQueue, slot, thread>>

Ships(w) == \E t \in Tasks : ShipTask(t) /\ w = thread["dispatch"].slot
Reads(w) == ReadQueue /\ w = thread["collector"].slot
Processes(w) == ProcessResult("collector") /\ w = thread["collector"].slot

Acts(w) ==
  \/ TakeWork(w) \/ TakeStop(w) \/ Finish(w) \/ Dying(w) \/ Ships(w) \/ Reads(w) \/ Processes(w)

(* What may happen to a worker that is and stays in the pool.               *)
LEMMA PipeMoves ==
  ASSUME TypeInv, InHand, CallerInv, AsideInv, [Next]_vars, NEW w \in pool, w \in pool',
         onTimeout = "kill_worker", stopping' = FALSE, ~ Acts(w)
  PROVE  SamePipe(w) /\ slot'[w].current = slot[w].current
<1>0. /\ proc \in [Workers -> ProcType] /\ slot \in [Workers -> SlotType]
      /\ workQueue \in [Workers -> Seq(Tasks \cup {Stop})]
      /\ resultQueue \in [Workers -> Seq(ResultType)]
      /\ w \in Workers /\ w \in 1 .. spawned /\ spawned \in Nat /\ w # None
      /\ pool \subseteq 1 .. spawned
  BY BoundsAssumption, ApartAssumption DEF TypeInv, PoolType, Seen, ProcFits, SlotFits, PipesType, Workers
<1>a. stopping = FALSE
  BY StoppingStep
<1>1. SameRead(w)
  BY ReadStep DEF Acts, Reads, Processes
<1>2. ASSUME NEW v \in Workers, Crash(v), v = w PROVE Dying(w)
  BY <1>0, <1>2 DEF Crash, Dies, Dying, poolVars
<1>3. ASSUME EscalateKill, w = timer.victim, Alive(w) PROVE Dying(w)
  BY <1>0, <1>3 DEF EscalateKill, Dies, Dying, poolVars
<1>4. proc'[w] = proc[w]
  <2>1. ASSUME NEW v \in Workers, TakeWork(v) \/ TakeStop(v) \/ Finish(v) \/ Crash(v)
        PROVE  proc'[w] = proc[w]
    <3>1. v # w
      BY <1>2, <2>1 DEF Acts
    <3> QED
      BY <1>0, <2>1, <3>1 DEF TakeWork, TakeStop, Finish, Crash, Dies
  <2>2. ASSUME EscalateKill PROVE proc'[w] = proc[w]
    BY <1>0, <1>3, <2>2 DEF EscalateKill, Dies, Acts
  <2>3. ASSUME SpawnWorker \/ ReplaceWorker PROVE proc'[w] = proc[w]
    BY <1>0, <2>3 DEF SpawnWorker, ReplaceWorker, Spawn
  <2> QED
    BY <2>1, <2>2, <2>3, StepIsFramed DEF Framed, ProcChanges
<1>5. workQueue'[w] = workQueue[w]
  <2>1. ASSUME NEW t \in Tasks, ShipTask(t) PROVE workQueue'[w] = workQueue[w]
    <3>1. w # thread["dispatch"].slot
      BY <2>1 DEF Acts, Ships
    <3>2. workQueue' = [workQueue EXCEPT ![thread["dispatch"].slot] = Append(@, t)]
      BY <2>1 DEF ShipTask
    <3> QED
      BY <1>0, <3>1, <3>2
  <2>2. ASSUME NEW th \in Threads, ProcessResult(th) PROVE workQueue'[w] = workQueue[w]
    <3> DEFINE v == thread[th].slot
    <3>1. \/ workQueue' = workQueue
          \/ v \notin pool' /\ workQueue' = [workQueue EXCEPT ![v] = Append(@, Stop)]
      BY <2>2 DEF ProcessResult, RetireWorker
    <3> QED
      BY <1>0, <3>1
  <2>3. ASSUME NEW v \in Workers, TakeWork(v) \/ TakeStop(v) PROVE workQueue'[w] = workQueue[w]
    BY <1>0, <2>3 DEF TakeWork, TakeStop, Acts
  <2>4. ~ StopAllWorkers
    BY <1>a DEF StopAllWorkers, CallerInv, Stopped
  <2>5. ASSUME ReplaceWorker PROVE workQueue'[w] = workQueue[w]
    <3> DEFINE v == First(Evictable)
    <3>1. v \in pool
      BY <1>0, <2>5, FirstOfWorkers DEF ReplaceWorker, Evictable, Idle
    <3>2. /\ workQueue' = [workQueue EXCEPT ![v] = Append(@, Stop)]
          /\ pool' = (pool \ {v}) \cup {spawned + 1}
      BY <2>5 DEF ReplaceWorker
    <3> HIDE DEF v
    <3>3. w # v
      BY <1>0, <3>1, <3>2
    <3> QED
      BY <1>0, <3>2, <3>3
  <2> QED
    BY <2>1, <2>2, <2>3, <2>4, <2>5, StepIsFramed DEF Framed, WorkQueueChanges
<1>6. resultQueue'[w] = resultQueue[w]
  <2>1. ASSUME NEW v \in Workers, Finish(v) \/ Crash(v) PROVE resultQueue'[w] = resultQueue[w]
    <3>1. v # w
      BY <1>2, <2>1 DEF Acts
    <3> QED
      BY <1>0, <2>1, <3>1 DEF Finish, Crash, Dies
  <2>2. ASSUME NEW v, v # w, resultQueue' = Emptied(v) PROVE resultQueue'[w] = resultQueue[w]
    BY <1>0, <2>2 DEF Emptied
  <2>3. ASSUME NEW th \in Reapers, NEW v \in Workers, DrainQueue(th, v)
        PROVE  resultQueue'[w] = resultQueue[w]
    <3>1. v # w
      BY <1>a, <2>3 DEF DrainQueue, AsideInv
    <3> QED
      BY <2>2, <2>3, <3>1 DEF DrainQueue
  <2>4. ASSUME ReadQueue PROVE resultQueue'[w] = resultQueue[w]
    <3>1. thread["collector"].slot # w
      BY <2>4 DEF Acts, Reads
    <3> QED
      BY <2>2, <2>4, <3>1 DEF ReadQueue
  <2>5. ASSUME EscalateKill PROVE resultQueue'[w] = resultQueue[w]
    BY <1>0, <1>3, <2>5 DEF EscalateKill, Dies, Acts
  <2> QED
    BY <2>1, <2>3, <2>4, <2>5, StepIsFramed DEF Framed, ResultQueueChanges
<1>7. slot'[w].current = slot[w].current
  <2>1. ASSUME NEW t \in Tasks, HandleTimeout(t) PROVE slot'[w] = slot[w]
    <3> DEFINE v == work[t].worker
               kill == [slot[v] EXCEPT !.stopped = TRUE, !.poisoned = TRUE, !.current = None]
    <3>1. \/ slot' = slot
          \/ pool' = pool \ {v} /\ slot' = [slot EXCEPT ![v] = kill]
          \/ v \in pool /\ v = None
      <4>1. CASE Kills(t)
        BY <1>0, <2>1, <4>1 DEF HandleTimeout
      <4>2. CASE ~ Kills(t)
        <5>1. v = None
          BY <4>2 DEF Kills
        <5>2. slot' = slot \/ v \in pool
          BY <2>1, <4>2 DEF HandleTimeout
        <5> QED
          BY <5>1, <5>2
      <4> QED
        BY <4>1, <4>2
    <3> HIDE DEF v, kill
    <3>2. v \in pool => v # None
      <4>1. \A x \in 1 .. spawned : x # None
        BY <1>0, ApartAssumption
      <4> QED
        BY <1>0, <4>1
    <3> QED
      BY <1>0, <3>1, <3>2
  <2>2. ASSUME NEW th \in Threads, ProcessResult(th) PROVE slot'[w] = slot[w]
    <3> DEFINE v == thread[th].slot
    <3>1. v # w
      <4>1. CASE th = "collector"
        BY <2>2, <4>1 DEF Acts, Processes
      <4>2. CASE th # "collector"
        <5>1. th \in Reapers /\ thread[th].pc = "drain"
          BY <2>2, <4>2 DEF Reapers, ProcessResult, Processing
        <5> QED
          BY <1>a, <5>1 DEF AsideInv
      <4> QED
        BY <4>1, <4>2
    <3>2. slot' = slot \/ \E r : slot' = [slot EXCEPT ![v] = r]
      BY <2>2 DEF ProcessResult
    <3> HIDE DEF v
    <3> QED
      BY <1>0, <3>1, <3>2
  <2>3. ASSUME NEW t \in Tasks, ShipTask(t) PROVE slot'[w] = slot[w]
    BY <1>0, <2>3 DEF ShipTask, Acts, Ships
  <2>4. ASSUME NEW th \in Reapers, DiscardQueue(th) PROVE slot'[w].current = slot[w].current
    <3>1. slot' = [slot EXCEPT ![thread[th].slot].discarded = TRUE]
      BY <2>4 DEF DiscardQueue
    <3> QED
      BY <1>0, <3>1 DEF SlotType
  <2>5. ~ StopAllWorkers
    BY <1>a DEF StopAllWorkers, CallerInv, Stopped
  <2>6. ASSUME SpawnWorker PROVE slot'[w] = slot[w]
    BY <1>0, <2>6 DEF SpawnWorker
  <2>7. ASSUME ReplaceWorker PROVE slot'[w].current = slot[w].current
    <3> DEFINE v == First(Evictable)
               s == NewSlot(Decision.gpu)
    <3>1. slot' = [slot EXCEPT ![v].stopped = TRUE, ![spawned + 1] = s]
      BY <2>7 DEF ReplaceWorker
    <3>2. v \in pool /\ pool' = (pool \ {v}) \cup {spawned + 1}
      BY <1>0, <2>7, FirstOfWorkers DEF ReplaceWorker, Evictable, Idle
    <3> HIDE DEF v, s
    <3>3. w # v /\ w # spawned + 1
      BY <1>0, <3>2
    <3> QED
      BY <1>0, <3>1, <3>3
  <2> QED
    BY <2>1, <2>2, <2>3, <2>4, <2>5, <2>6, <2>7, StepIsFramed DEF Framed, SlotChanges
<1> QED
  BY <1>1, <1>4, <1>5, <1>6, <1>7 DEF SamePipe

-----------------------------------------------------------------------------
(* A worker that works on its current task passes it on and on.             *)
LEMMA WorkPasses ==
  ASSUME TypeInv, NEW w \in Workers, TakeWork(w) \/ TakeStop(w) \/ Finish(w),
         Pipe(w, slot[w].current)
  PROVE  Pipe(w, slot[w].current)'
<1> DEFINE c == slot[w].current
<1>0. /\ proc \in [Workers -> ProcType] /\ c \in Tasks \cup {None}
      /\ workQueue \in [Workers -> Seq(Tasks \cup {Stop})]
      /\ resultQueue \in [Workers -> Seq(ResultType)]
      /\ UNCHANGED <<slot, thread>>
  BY DEF TypeInv, ProcFits, SlotFits, SlotType, PipesType, TakeWork, TakeStop, Finish, poolVars
<1>1. proc[w].alive = TRUE /\ SameRead(w)
  BY <1>0 DEF TakeWork, TakeStop, Finish, Alive, ProcType, SameRead, ReadOf
<1>2. c' = c
  BY <1>0
<1> HIDE DEF c
<1>3. ASSUME TakeWork(w) \/ TakeStop(w) PROVE c # None /\ Begins(w, c) /\ workQueue[w] = <<c>>
  <2>1. workQueue[w] # <<>> /\ proc[w].task = None
    BY <1>3 DEF TakeWork, TakeStop
  <2>2. c # None /\ Carrying(w, c)
    BY <1>1, <2>1 DEF Pipe, Free, c
  <2>3. ~ Executes(w, c) /\ ~ Reports(w, c) /\ ~ Reported(w, c)
    BY <2>1 DEF Executes, Reports, Reported
  <2>4. Begins(w, c)
    BY <2>2, <2>3 DEF Carrying
  <2> QED
    BY <1>1, <2>2, <2>4 DEF Begins
<1>4. CASE TakeWork(w)
  <2>0. Head(workQueue[w]) = c /\ Tail(workQueue[w]) = <<>>
    <3>1. workQueue[w] = <<c>>
      BY <1>3, <1>4
    <3> QED
      BY <3>1
  <2>1. proc'[w].task = c /\ workQueue'[w] = <<>> /\ resultQueue'[w] = resultQueue[w]
    <3>1. /\ proc' = [proc EXCEPT ![w].task = Head(workQueue[w])]
          /\ workQueue' = [workQueue EXCEPT ![w] = Tail(@)] /\ resultQueue' = resultQueue
      BY <1>4 DEF TakeWork
    <3>2. proc'[w].task = Head(workQueue[w])
      BY <1>0, <3>1 DEF ProcType
    <3> QED
      BY <1>0, <2>0, <3>1, <3>2
  <2>2. Executes(w, c)'
    BY <1>1, <1>2, <1>3, <1>4, <2>1 DEF Executes, Begins, Clear, SameRead
  <2> QED
    BY <1>2, <1>3, <1>4, <2>2 DEF Pipe, Carrying, c
<1>5. CASE TakeStop(w)
  <2>1. Head(workQueue[w]) = Stop /\ Head(workQueue[w]) = c
    BY <1>3, <1>5 DEF TakeStop
  <2> QED
    BY <1>0, <1>3, <1>5, <2>1, TasksAssumption
<1>6. CASE Finish(w)
  <2>1. proc[w].task # None
    BY <1>6 DEF Finish
  <2>2. c # None /\ Executes(w, c)
    BY <2>1 DEF Pipe, Carrying, Free, Begins, Clear, Executes, Reports, Reported, c
  <2>3. proc'[w].task = None /\ workQueue'[w] = workQueue[w]
    BY <1>0, <1>6 DEF Finish, ProcType
  <2>4. PICK r : r.task = proc[w].task /\ resultQueue'[w] = Append(resultQueue[w], r)
    <3> DEFINE r == [task |-> proc[w].task, ok |-> proc[w].task \notin Raises]
    <3>1. resultQueue' = [resultQueue EXCEPT ![w] = Append(resultQueue[w], r)]
      BY <1>6 DEF Finish
    <3>2. r.task = proc[w].task
      OBVIOUS
    <3> HIDE DEF r
    <3> QED
      BY <1>0, <3>1, <3>2
  <2>5. resultQueue'[w] = <<r>>
    BY <2>2, <2>4 DEF Executes
  <2>6. Reports(w, c)'
    BY <1>1, <1>2, <2>2, <2>3, <2>4, <2>5 DEF Reports, Executes, SameRead
  <2> QED
    BY <1>2, <2>2, <2>6 DEF Pipe, Carrying, c
<1> QED
  BY <1>4, <1>5, <1>6

(* A worker that dies leaves a task unread, or nothing.                     *)
LEMMA DeathLeaves ==
  ASSUME TypeInv, NEW w \in Workers, Dying(w), Pipe(w, slot[w].current)
  PROVE  Pipe(w, slot[w].current)'
<1> DEFINE c == slot[w].current
<1>0. /\ SameRead(w) /\ c' = c /\ workQueue' = workQueue
      /\ proc'[w].alive = FALSE /\ proc'[w].task = None
  BY DEF Dying, SameRead, ReadOf
<1>1. PICK n \in 0 .. Len(resultQueue[w]) : resultQueue'[w] = SubSeq(resultQueue[w], 1, n)
  BY DEF Dying
<1>2. resultQueue[w] \in Seq(ResultType)
  BY DEF TypeInv, PipesType
<1>3. resultQueue[w] = <<>> => resultQueue'[w] = <<>>
  BY <1>1, <1>2
<1> HIDE DEF c
<1>4. CASE Clear(w)
  <2>1. Clear(w)'
    BY <1>0, <1>3, <1>4 DEF Clear, SameRead
  <2> QED
    BY <1>0, <2>1 DEF Pipe, Carrying, Free, Begins, c
<1>5. CASE c # None /\ Executes(w, c)
  <2>1. Clear(w)'
    BY <1>0, <1>3, <1>5 DEF Clear, Executes, SameRead
  <2> QED
    BY <1>0, <1>5, <2>1 DEF Pipe, Carrying, Begins, c
<1>6. CASE c # None /\ Reports(w, c)
  <2>1. resultQueue'[w] = <<>> \/ resultQueue'[w] = resultQueue[w]
    <3>1. n = 0 \/ n = 1
      BY <1>1, <1>6 DEF Reports
    <3>2. n = 0 => resultQueue'[w] = <<>>
      BY <1>1, <1>2
    <3>3. n = 1 => resultQueue'[w] = resultQueue[w]
      BY <1>1, <1>2, <1>6 DEF Reports
    <3> QED
      BY <3>1, <3>2, <3>3
  <2>2. Clear(w)' \/ Reports(w, c)'
    BY <1>0, <1>6, <2>1 DEF Clear, Reports, SameRead
  <2> QED
    BY <1>0, <1>6, <2>2 DEF Pipe, Carrying, Begins, c
<1>7. CASE c # None /\ Reported(w, c)
  <2>1. Reported(w, c)'
    BY <1>0, <1>3, <1>7 DEF Reported, SameRead
  <2> QED
    BY <1>0, <1>7, <2>1 DEF Pipe, Carrying, c
<1> QED
  BY <1>4, <1>5, <1>6, <1>7 DEF Pipe, Carrying, Free, Begins, c

(* A task is shipped to a free worker.                                      *)
LEMMA ShipCarries ==
  ASSUME TypeInv, [Next]_vars, SecuredInv, NEW w \in Workers, Ships(w), Pipe(w, slot[w].current)
  PROVE  Pipe(w, slot[w].current)'
<1>1. PICK t \in Tasks : ShipTask(t) /\ w = thread["dispatch"].slot
  BY DEF Ships
<1>2. slot[w].current = None
  BY <1>1 DEF SecuredInv, ShipTask
<1>3. Free(w)
  BY <1>2 DEF Pipe
<1>4. SameRead(w)
  <2>1. PICK r : thread' = [thread EXCEPT !["dispatch"] = r]
    BY <1>1 DEF ShipTask, NextDecision
  <2>2. thread \in [Threads -> ThreadType] /\ "dispatch" \in Threads /\ "collector" \in Threads
    BY DEF TypeInv, ThreadInv, Threads
  <2>3. thread'["collector"] = thread["collector"]
    BY <2>1, <2>2
  <2> QED
    BY <2>3 DEF SameRead, ReadOf
<1>5. proc' = proc /\ resultQueue' = resultQueue
  BY <1>1 DEF ShipTask
<1>6. workQueue'[w] = Append(workQueue[w], t) /\ slot'[w].current = t
  BY <1>1 DEF ShipTask, TypeInv, PipesType, SlotFits, SlotType
<1>7. t # None
  BY TasksAssumption
<1>8. Begins(w, t)'
  <2>1. Clear(w)'
    BY <1>3, <1>4, <1>5 DEF Free, Clear, SameRead
  <2>2. workQueue[w] = <<>> => workQueue'[w] = <<t>>
    BY <1>6
  <2> QED
    BY <1>3, <1>5, <2>1, <2>2 DEF Free, Begins
<1> QED
  BY <1>6, <1>7, <1>8 DEF Pipe, Carrying

(* The collector reads the queue of a worker of the pool.                   *)
LEMMA ReadCarries ==
  ASSUME TypeInv, NEW w \in Workers, Reads(w), slot[w].discarded = FALSE,
         Pipe(w, slot[w].current)
  PROVE  Pipe(w, slot[w].current)'
<1> DEFINE c == slot[w].current
<1>1. /\ c' = c /\ proc' = proc /\ workQueue' = workQueue
      /\ resultQueue' = Emptied(w) /\ thread["collector"].pc = "read"
  BY DEF Reads, ReadQueue, poolVars
<1>2. resultQueue'[w] = <<>> /\ Delivered(w) = resultQueue[w]
  BY <1>1 DEF Emptied, Delivered, TypeInv, PipesType
<1>3. ReadOf(w) = <<>> /\ ReadOf(w)' = resultQueue[w]
  <2>1. thread["collector"] \in ThreadType /\ thread \in [Threads -> ThreadType]
        /\ "collector" \in Threads
    BY DEF TypeInv, ThreadInv, Threads
  <2>2. /\ thread'["collector"].pc = "drain" /\ thread'["collector"].slot = w
        /\ thread'["collector"].buf = Delivered(w)
    BY <2>1 DEF Reads, ReadQueue, ThreadType
  <2> QED
    BY <1>1, <1>2, <2>2 DEF ReadOf
<1> HIDE DEF c
<1>4. CASE Clear(w)
  <2>1. Clear(w)'
    BY <1>1, <1>2, <1>3, <1>4 DEF Clear
  <2> QED
    BY <1>1, <2>1, <1>4 DEF Pipe, Carrying, Free, Begins, Executes, Reports, Reported, Clear, c
<1>5. CASE c # None /\ Executes(w, c)
  <2>1. Executes(w, c)'
    BY <1>1, <1>2, <1>3, <1>5 DEF Executes
  <2> QED
    BY <1>1, <1>5, <2>1 DEF Pipe, Carrying, c
<1>6. CASE c # None /\ Reports(w, c)
  <2>1. Reported(w, c)'
    BY <1>1, <1>2, <1>3, <1>6 DEF Reports, Reported
  <2> QED
    BY <1>1, <1>6, <2>1 DEF Pipe, Carrying, c
<1>7. CASE c # None /\ Reported(w, c)
  BY <1>3, <1>7 DEF Reported
<1> QED
  BY <1>4, <1>5, <1>6, <1>7 DEF Pipe, Carrying, Free, Begins, c

(* The collector processes a result: the worker is free again.              *)
LEMMA ProcessFrees ==
  ASSUME TypeInv, NEW w \in Workers, w \in pool, w \in pool', Processes(w),
         Pipe(w, slot[w].current)
  PROVE  Pipe(w, slot[w].current)'
<1> DEFINE c == slot[w].current
           b == thread["collector"].buf
<1>0. /\ thread["collector"] \in ThreadType /\ thread \in [Threads -> ThreadType]
      /\ "collector" \in Threads /\ b \in Seq(ResultType)
  BY DEF TypeInv, ThreadInv, Threads, ThreadType
<1>1. /\ ProcessResult("collector") /\ w = thread["collector"].slot
      /\ thread["collector"].pc = "drain" /\ b # <<>> /\ proc' = proc
      /\ resultQueue' = resultQueue
  BY DEF Processes, ProcessResult, Processing
<1>2. ReadOf(w) = b
  BY <1>1 DEF ReadOf
<1>3. c # None /\ Reported(w, c)
  BY <1>1, <1>2 DEF Pipe, Carrying, Free, Begins, Clear, Executes, Reports
<1>4. Len(b) = 1 /\ b[1].task = c
  BY <1>2, <1>3 DEF Reported
<1>5. Head(b).task = c /\ Tail(b) = <<>>
  <2>1. b \in Seq(ResultType) /\ Len(b) = 1 /\ b[1].task = c
    BY <1>0, <1>4
  <2> HIDE DEF b, c
  <2>2. Head(b) = b[1]
    BY <2>1
  <2>3. Tail(b) = <<>>
    <3>1. Tail(b) \in Seq(ResultType) /\ Len(Tail(b)) = 0
      BY <2>1
    <3> QED
      BY <3>1, EmptySeq
  <2> QED
    BY <2>1, <2>2, <2>3
<1>6. ReadOf(w)' = <<>>
  <2>1. thread'["collector"].buf = Tail(b)
    BY <1>0, <1>1 DEF ProcessResult, ThreadType
  <2> QED
    BY <1>5, <2>1 DEF ReadOf
<1>7. slot'[w].current = None /\ workQueue' = workQueue
  <2>1. w \in pool /\ slot[w].current = Head(b).task
    BY <1>5
  <2>2. slot' = [slot EXCEPT ![w].current = None, ![w].completed = @ + 1,
                             ![w].stopped = @ \/ Recycles(w)]
    BY <1>1, <2>1 DEF ProcessResult
  <2>3. ~ Recycles(w) /\ workQueue' = workQueue
    BY <1>1, <2>1 DEF ProcessResult, RetireWorker
  <2>4. slot \in [Workers -> SlotType]
    BY DEF TypeInv, SlotFits
  <2> QED
    BY <2>2, <2>3, <2>4 DEF SlotType
<1>8. Free(w)'
  BY <1>1, <1>3, <1>6, <1>7 DEF Free, Clear, Reported
<1> QED
  BY <1>7, <1>8 DEF Pipe

(* A new worker is free.                                                    *)
LEMMA NewcomerIsFree ==
  ASSUME TypeInv, BlankInv, InHand, [Next]_vars, NEW w \in Workers, w \in pool' \ pool
  PROVE  Pipe(w, slot[w].current)'
<1>1. w = spawned + 1 /\ (SpawnWorker \/ ReplaceWorker)
  BY PoolGrows
<1>0. /\ proc \in [Workers -> ProcType] /\ spawned \in Nat
      /\ slot \in [Workers -> SlotType]
      /\ workQueue \in [Workers -> Seq(Tasks \cup {Stop})]
      /\ resultQueue' = resultQueue /\ pool \subseteq 1 .. spawned
  BY <1>1 DEF TypeInv, PoolType, Seen, ProcFits, SlotFits, PipesType, SpawnWorker, ReplaceWorker
<1>2. Blank(w)
  BY <1>0, <1>1 DEF BlankInv
<1>3. proc'[w].task = None
  BY <1>0, <1>1, <1>2 DEF Blank, SpawnWorker, ReplaceWorker, Spawn, ProcType
<1>4. workQueue'[w] = <<>>
  <2>1. CASE SpawnWorker
    BY <1>2, <2>1 DEF SpawnWorker, Blank
  <2>2. CASE ReplaceWorker
    <3> DEFINE v == First(Evictable)
    <3>1. v \in pool
      BY <1>0, <2>2, FirstOfWorkers DEF ReplaceWorker, Evictable, Idle
    <3>2. workQueue' = [workQueue EXCEPT ![v] = Append(@, Stop)]
      BY <2>2 DEF ReplaceWorker
    <3> HIDE DEF v
    <3>3. w # v
      BY <3>1
    <3> QED
      BY <1>0, <1>2, <3>2, <3>3 DEF Blank
  <2> QED
    BY <1>1, <2>1, <2>2
<1>5. ReadOf(w)' = <<>>
  <2>1. thread'["collector"] = thread["collector"]
    BY <1>1 DEF SpawnWorker, ReplaceWorker, Spawn, Secure, TypeInv, ThreadInv, Threads
  <2>2. thread["collector"].slot # w
    <3>1. thread["collector"].slot \in 1 .. spawned \cup {None}
      BY DEF TypeInv, ThreadInv, ThreadSees, Threads
    <3> QED
      BY <1>0, <1>1, <3>1, ApartAssumption
  <2> QED
    BY <2>1, <2>2 DEF ReadOf
<1>6. slot'[w].current = None
  <2>1. slot'[w] = NewSlot(Decision.gpu)
    BY <1>0, <1>1 DEF SpawnWorker, ReplaceWorker
  <2> QED
    BY <2>1 DEF NewSlot
<1>7. Free(w)'
  BY <1>0, <1>2, <1>3, <1>4, <1>5 DEF Free, Clear, Blank
<1> QED
  BY <1>6, <1>7 DEF Pipe

(* Every step keeps what is on its way through a worker in order.           *)
LEMMA PipeStep ==
  ASSUME TypeInv, TypeInv', InHand, CallerInv, SecuredInv, DrainInv, DeadInv, AsideInv, BlankInv,
         PipeInv, [Next]_vars
  PROVE  PipeInv'
<1> SUFFICES ASSUME onTimeout' = "kill_worker", stopping' = FALSE, NEW w \in pool'
             PROVE  Pipe(w, slot[w].current)'
  BY DEF PipeInv, Pipe, Carrying, Free, Begins, Executes, Reports, Reported, Clear, ReadOf
<1>1. onTimeout = "kill_worker" /\ stopping = FALSE
  BY StepIsFramed, StoppingStep DEF Framed
<1>2. w \in Workers
  BY BoundsAssumption DEF TypeInv, PoolType, Seen, Workers
<1>3. CASE w \notin pool
  BY <1>2, <1>3, NewcomerIsFree
<1>4. CASE w \in pool
  <2>1. Pipe(w, slot[w].current)
    BY <1>1, <1>4 DEF PipeInv
  <2>2. CASE ~ Acts(w)
    <3>1. SamePipe(w) /\ slot'[w].current = slot[w].current
      BY <1>1, <1>4, <2>2, PipeMoves
    <3> QED
      BY <2>1, <3>1 DEF Pipe, Carrying, Free, Begins, Executes, Reports, Reported, Clear, SamePipe,
                        SameRead
  <2>3. slot[w].discarded = FALSE
    BY <1>1, <1>4 DEF AsideInv
  <2> QED
    BY <1>2, <1>4, <2>1, <2>2, <2>3, WorkPasses, DeathLeaves, ShipCarries, ReadCarries,
       ProcessFrees DEF Acts
<1> QED
  BY <1>3, <1>4

-----------------------------------------------------------------------------
(* What a waiting shutdown and an idle worker rely on, besides ExecutorInv. *)

SafetyInv == WaitInv /\ BlankInv /\ AsideInv /\ PipeInv

(* At the start nobody waits, and there is no worker to look into.          *)
LEMMA SafetyAtInit == Init => SafetyInv
<1> SUFFICES ASSUME Init PROVE SafetyInv
  OBVIOUS
<1>1. WaitInv
  BY WaitAtInit
<1>2. /\ pool = {} /\ retiring = {}
      /\ proc = [w \in Workers |-> [alive |-> FALSE, exit |-> None, task |-> None]]
      /\ workQueue = [w \in Workers |-> <<>>] /\ resultQueue = [w \in Workers |-> <<>>]
  BY DEF Init
<1>3. BlankInv
  BY <1>2 DEF BlankInv, Blank
<1>4. AsideInv
  <2>1. ASSUME NEW th \in Reapers PROVE thread[th].todo = {}
    <3>1. PICK pc : thread[th] = AtRest(pc)
      BY DEF Init, Reapers
    <3> QED
      BY <3>1 DEF AtRest
  <2> QED
    BY <1>2, <2>1 DEF AsideInv
<1>5. PipeInv
  BY <1>2 DEF PipeInv
<1> QED
  BY <1>1, <1>3, <1>4, <1>5 DEF SafetyInv

(* Every step keeps it, in a state the executor can be in.                  *)
LEMMA SafetyStep == ExecutorInv /\ ExecutorInv' /\ SafetyInv /\ [Next]_vars => SafetyInv'
<1> SUFFICES ASSUME ExecutorInv, ExecutorInv', SafetyInv, [Next]_vars PROVE SafetyInv'
  OBVIOUS
<1>1. /\ TypeInv /\ HomeInv /\ PlanInv /\ CallerInv /\ DeadInv /\ SecuredInv /\ WatchInv
      /\ DrainInv /\ WaitInv /\ BlankInv /\ AsideInv /\ PipeInv
  BY DEF ExecutorInv, SafetyInv
<1>2. InHand
  BY <1>1, WatchIsInHand
<1>3. TypeInv'
  BY DEF ExecutorInv
<1>4. WaitInv' /\ BlankInv'
  BY <1>1, WaitStep, BlankStep
<1>5. AsideInv' /\ PipeInv'
  BY <1>1, <1>2, <1>3, AsideStep, PipeStep
<1> QED
  BY <1>4, <1>5 DEF SafetyInv

(* The strengthening holds in every reachable state.                        *)
THEOREM SafetyInvariant == Spec => []SafetyInv
BY SafetyAtInit, SafetyStep, ExecutorInvariant, PTL DEF Spec

(* A waiting shutdown abandons nobody it knew of.                           *)
THEOREM ShutdownWaits == Spec => []ShutdownWaitsForWork
<1>1. ExecutorInv /\ SafetyInv => ShutdownWaitsForWork
  <2> SUFFICES ASSUME ExecutorInv, SafetyInv, thread["caller"].pc = "closed", wait = TRUE,
                      NEW t \in Tasks, future[t] \in Waiting
               PROVE  work[t].late \/ work[t].retries > 0 \/ Carried(t)
    BY DEF ShutdownWaitsForWork
  <2>1. stopping = TRUE
    BY DEF ExecutorInv, CallerInv, Stopped
  <2>2. Refused /\ Waited
    BY <2>1 DEF Refused, Outset, Waited
  <2>3. At(t) # {}
    BY DEF ExecutorInv, HomeInv, Homed
  <2>4. CASE t \in Range(pending) \/ t \in inFlight
    <3>1. Old(t)
      BY <2>2, <2>4 DEF SafetyInv, WaitInv
    <3> QED
      BY <3>1 DEF Old
  <2>5. CASE timer.task = t
    BY <2>5 DEF Carried
  <2>6. ASSUME NEW th \in Threads, Carries(thread[th], t) PROVE Carried(t)
    BY <2>6 DEF Carries, Carried
  <2> QED
    BY <2>3, <2>4, <2>5, <2>6 DEF At
<1> QED
  BY <1>1, ExecutorInvariant, SafetyInvariant, PTL

(* With kill_worker an idle worker is really idle.                          *)
THEOREM IdleWorkersAreReady == Spec => []IdleWorkersAreFree
<1>1. ExecutorInv /\ SafetyInv => IdleWorkersAreFree
  <2> SUFFICES ASSUME ExecutorInv, SafetyInv, onTimeout = "kill_worker", ~ stopping,
                      NEW w \in pool, slot[w].current = None
               PROVE  proc[w].task = None /\ (Alive(w) => workQueue[w] = <<>>)
    BY DEF IdleWorkersAreFree
  <2>1. stopping = FALSE
    BY DEF ExecutorInv, TypeInv, FlagsType
  <2>2. Free(w)
    BY <2>1 DEF SafetyInv, PipeInv, Pipe
  <2> QED
    BY <2>2 DEF Free, Clear, Alive
<1> QED
  BY <1>1, ExecutorInvariant, SafetyInvariant, PTL
==============================================================================
