--------------------------- MODULE RefinementProofs ---------------------------
(***************************************************************************)
(* The executor implements TaskLifecycle, for every number of tasks,       *)
(* workers, crashes and retries: its initial states are initial states of  *)
(* the life cycle, and each of its steps takes one abstract step or none.  *)
(* A task's phase is read off its future, the queue and the running set;   *)
(* what a step does to these three decides which abstract step it is.      *)
(***************************************************************************)
EXTENDS SafetyProofs, ExecutorRefinement

-----------------------------------------------------------------------------
(* Phases.                                                                  *)

\* The phase of a task with the future f, in the queue or not (q), in flight or not (l).
PhaseAt(f, q, l) ==
  IF f \in {"new", "entering", "rejected"} THEN "new"
  ELSE IF f \in Settled THEN "settled"
  ELSE IF q THEN "queued" ELSE IF l THEN "inFlight" ELSE "held"

(* A phase depends on the future, the queue and the running set.          *)
LEMMA PhaseIsRead ==
  ASSUME NEW t \in Tasks
  PROVE  /\ future[t] \in Outcomes =>
              PhaseOf(t) = PhaseAt(future[t], t \in Range(pending), t \in inFlight)
         /\ future'[t] \in Outcomes =>
              PhaseOf(t)' = PhaseAt(future'[t], t \in Range(pending'), t \in inFlight')
BY DEF PhaseOf, PhaseAt, Done, Outcomes, Waiting, Settled

\* What the places of a task say of its future.
LEMMA PlacesOf ==
  ASSUME TypeInv, HomeInv, NEW t \in Tasks
  PROVE  /\ future[t] \in Outcomes
         /\ t \in Range(pending) => future[t] \in {"pending", "running", "cancelled"}
         /\ t \in inFlight => future[t] = "running" /\ t \notin Range(pending)
         /\ timer.task = t => /\ future[t] = "running" /\ t \notin Range(pending)
                              /\ t \notin inFlight
         /\ \A th \in Threads : Carries(thread[th], t) =>
              future[t] = "running" /\ t \notin Range(pending) /\ t \notin inFlight
<1>1. Homed(future[t], work[t], At(t)) /\ future[t] \in Outcomes
  BY DEF HomeInv, TypeInv, FuturesType
<1>2. /\ t \in Range(pending) <=> "queue" \in At(t)
      /\ t \in inFlight <=> "flight" \in At(t)
      /\ timer.task = t <=> "timer" \in At(t)
      /\ \A th \in Threads : Carries(thread[th], t) <=> th \in At(t)
  BY DEF At, Threads
<1> QED
  BY <1>1, <1>2 DEF Homed, Threads

\* A step changes nothing the life cycle sees of t.
Unseen(t) ==
  /\ Phase'[t] = Phase[t] /\ Outcome'[t] = Outcome[t] /\ Attempts'[t] = Attempts[t]

(* What the life cycle sees of a task.                                    *)
LEMMA SeenOf ==
  ASSUME NEW t \in Tasks
  PROVE  /\ Phase[t] = PhaseOf(t) /\ Phase'[t] = PhaseOf(t)'
         /\ Outcome[t] = (IF future[t] \in Settled THEN future[t] ELSE "open")
         /\ Outcome'[t] = (IF future'[t] \in Settled THEN future'[t] ELSE "open")
         /\ Attempts[t] = work[t].retries /\ Attempts'[t] = work'[t].retries
BY DEF Phase, Outcome, Attempts, Done

(* The mapping's functions.                                               *)
LEMMA MapsFit ==
  /\ Phase = [t \in Tasks |-> Phase[t]] /\ Phase' = [t \in Tasks |-> Phase'[t]]
  /\ Outcome = [t \in Tasks |-> Outcome[t]] /\ Outcome' = [t \in Tasks |-> Outcome'[t]]
  /\ Attempts = [t \in Tasks |-> Attempts[t]] /\ Attempts' = [t \in Tasks |-> Attempts'[t]]
BY DEF Phase, Outcome, Attempts

(* A step that the life cycle does not see of any task.                   *)
LEMMA NothingSeen ==
  ASSUME \A t \in Tasks : Unseen(t)
  PROVE  UNCHANGED Life!life
BY MapsFit DEF Unseen, Life!life

(* A task whose future and places stay is not seen.                       *)
LEMMA StillUnseen ==
  ASSUME NEW t \in Tasks, future[t] \in Outcomes, future'[t] = future[t],
         t \in Range(pending') <=> t \in Range(pending), t \in inFlight' <=> t \in inFlight,
         work'[t].retries = work[t].retries
  PROVE  Unseen(t)
BY SeenOf, PhaseIsRead DEF Unseen, PhaseAt

(* A step that leaves the futures, the tasks and their places alone.      *)
LEMMA Still ==
  ASSUME TypeInv, HomeInv, UNCHANGED <<future, work, pending, inFlight>>
  PROVE  UNCHANGED Life!life
<1>1. /\ future' = future /\ work' = work /\ Range(pending') = Range(pending)
      /\ inFlight' = inFlight
  OBVIOUS
<1>2. \A t \in Tasks : Unseen(t)
  BY <1>1, StillUnseen, PlacesOf
<1> QED
  BY <1>2, NothingSeen

(* One task moves, the others are not seen.                               *)
LEMMA OneMoves ==
  ASSUME NEW u \in Tasks, \A t \in Tasks \ {u} : Unseen(t)
  PROVE  /\ Phase' = [Phase EXCEPT ![u] = Phase'[u]]
         /\ Outcome'[u] = Outcome[u] => Outcome' = Outcome
         /\ Outcome' = [Outcome EXCEPT ![u] = Outcome'[u]]
         /\ Attempts'[u] = Attempts[u] => Attempts' = Attempts
         /\ Attempts' = [Attempts EXCEPT ![u] = Attempts'[u]]
BY MapsFit DEF Unseen

-----------------------------------------------------------------------------
(* The abstract steps.                                                      *)

SameRetries == \A t \in Tasks : work'[t].retries = work[t].retries

(* Whoever takes a task out of the running set holds it.                  *)
LEMMA Taken ==
  ASSUME TypeInv, HomeInv, NEW u \in Tasks, future' = future, pending' = pending, SameRetries,
         inFlight' = inFlight \ {u}
  PROVE  Life!Take(u) \/ UNCHANGED Life!life
<1>1. \A t \in Tasks \ {u} : Unseen(t)
  BY StillUnseen, PlacesOf DEF SameRetries
<1>2. CASE u \notin inFlight
  <2>1. Unseen(u)
    BY <1>2, StillUnseen, PlacesOf DEF SameRetries
  <2> QED
    BY <1>1, <2>1, NothingSeen
<1>3. CASE u \in inFlight
  <2>1. /\ future[u] = "running" /\ future'[u] = "running" /\ u \notin Range(pending)
        /\ u \notin Range(pending') /\ u \notin inFlight' /\ "running" \in Outcomes
    BY <1>3, PlacesOf DEF Outcomes, Waiting
  <2>2. Phase[u] = "inFlight" /\ Phase'[u] = "held"
    BY <1>3, <2>1, SeenOf, PhaseIsRead DEF PhaseAt, Settled
  <2>3. Outcome'[u] = Outcome[u] /\ Attempts'[u] = Attempts[u]
    BY <2>1, SeenOf DEF SameRetries
  <2> QED
    BY <1>1, <2>2, <2>3, OneMoves DEF Life!Take
<1> QED
  BY <1>2, <1>3

(* Whoever holds a task settles its future.                               *)
LEMMA SettledByHolder ==
  ASSUME TypeInv, HomeInv, NEW u \in Tasks, future[u] = "running", u \notin Range(pending),
         u \notin inFlight, NEW late \in Life!LateOutcomes,
         future' = SettleFutures(future, {u}, late), UNCHANGED <<work, pending, inFlight>>
  PROVE  Life!Settle(u)
<1>1. \A t \in Tasks \ {u} : future'[t] = future[t]
  BY DEF SettleFutures
<1>2. \A t \in Tasks \ {u} : Unseen(t)
  BY <1>1, StillUnseen, PlacesOf
<1>3. late \in Settled /\ late \in Outcomes /\ "running" \in Outcomes
  BY DEF Life!LateOutcomes, Settled, Outcomes, Waiting
<1>4. future'[u] = late
  BY DEF SettleFutures, Settled
<1>5. Phase[u] = "held" /\ Phase'[u] = "settled"
  BY <1>3, <1>4, SeenOf, PhaseIsRead DEF PhaseAt, Settled
<1>6. Outcome'[u] = late /\ Attempts'[u] = Attempts[u]
  BY <1>3, <1>4, SeenOf
<1> QED
  BY <1>2, <1>5, <1>6, OneMoves DEF Life!Settle

(* What waits in the queue and must not run is settled.                   *)
LEMMA EndedInQueue ==
  ASSUME TypeInv, HomeInv, NEW S, S \subseteq Range(pending),
         NEW early \in {"refused", "infeasible"},
         future' = SettleFutures(future, S, early), Range(pending') = Range(pending) \ S,
         inFlight' = inFlight, SameRetries
  PROVE  \E T \in SUBSET Tasks : Life!EndQueued(T)
<1> DEFINE T == {t \in Tasks : t \in S /\ future[t] \notin Settled}
<1>1. early \in Settled /\ early \in Outcomes /\ early \in Life!EarlyOutcomes
      /\ early # "cancelled"
  BY DEF Life!EarlyOutcomes, Settled, Outcomes
<1>2. \A t \in Tasks : future'[t] = IF t \in T THEN early ELSE future[t]
  BY DEF SettleFutures
<1>3. ASSUME NEW t \in Tasks \ T PROVE Unseen(t)
  <2>1. CASE t \notin S
    BY <1>2, <1>3, <2>1, StillUnseen, PlacesOf DEF SameRetries
  <2>2. CASE t \in S
    <3>1. future[t] \in Settled /\ future'[t] = future[t] /\ future[t] \in Outcomes
      BY <1>2, <1>3, <2>2, PlacesOf
    <3>2. Phase[t] = "settled" /\ Phase'[t] = "settled"
      BY <3>1, SeenOf, PhaseIsRead DEF PhaseAt, Settled
    <3> QED
      BY <3>1, <3>2, SeenOf DEF Unseen, SameRetries
  <2> QED
    BY <2>1, <2>2
<1>4. ASSUME NEW t \in T
      PROVE  /\ Phase[t] = "queued" /\ Phase'[t] = "settled"
             /\ Outcome'[t] = early /\ Attempts'[t] = Attempts[t]
  <2>1. future[t] \in {"pending", "running"} /\ future[t] \in Outcomes /\ t \in Range(pending)
    BY <1>4, PlacesOf DEF Settled
  <2>2. future'[t] = early
    BY <1>2, <1>4
  <2>3. Phase[t] = "queued"
    BY <1>4, <2>1, SeenOf, PhaseIsRead DEF PhaseAt, Settled
  <2>4. Phase'[t] = "settled"
    BY <1>1, <1>4, <2>2, SeenOf, PhaseIsRead DEF PhaseAt, Settled
  <2> QED
    BY <1>1, <1>4, <2>2, <2>3, <2>4, SeenOf DEF SameRetries
<1>5. T \in SUBSET Tasks
  OBVIOUS
<1> HIDE DEF T
<1>6. Phase' = [t \in Tasks |-> IF t \in T THEN "settled" ELSE Phase[t]]
  BY <1>3, <1>4, MapsFit DEF Unseen
<1>7. Outcome' = [t \in Tasks |-> IF t \in T THEN early ELSE Outcome[t]]
  BY <1>3, <1>4, MapsFit DEF Unseen
<1>8. Attempts' = Attempts
  BY <1>3, <1>4, MapsFit DEF Unseen
<1>9. Life!EndQueued(T)
  BY <1>1, <1>4, <1>6, <1>7, <1>8 DEF Life!EndQueued
<1> QED
  BY <1>5, <1>9

-----------------------------------------------------------------------------
(* The executor's steps.                                                    *)

(* Submit.                                                                *)
LEMMA SubmitRefines ==
  ASSUME TypeInv, HomeInv, PenaltyInv, NEW u \in Tasks, SubmitEnter(u) \/ SubmitAppend(u)
  PROVE  Life!Enqueue(u) \/ UNCHANGED Life!life
<1>0. /\ future \in [Tasks -> Outcomes] /\ work \in [Tasks -> PendingWorkType]
      /\ Queue(pending) /\ inFlight' = inFlight /\ Homed(future[u], work[u], At(u))
  BY DEF TypeInv, FuturesType, WorkType, QueueType, HomeInv, SubmitEnter, SubmitAppend, queueVars
<1>1. CASE SubmitEnter(u)
  <2>1. /\ future[u] = "new" /\ pending' = pending
        /\ future'[u] \in {"entering", "rejected"} /\ work'[u] = NewWork(u)
        /\ \A t \in Tasks \ {u} : future'[t] = future[t] /\ work'[t] = work[t]
    BY <1>0, <1>1 DEF SubmitEnter, queueVars
  <2>2. \A t \in Tasks \ {u} : Unseen(t)
    BY <1>0, <2>1, StillUnseen, PlacesOf
  <2>3. work[u].retries = 0 /\ work'[u].retries = 0
    <3>1. work[u].retries \in Nat
      BY <1>0, BoundsAssumption DEF PendingWorkType
    <3>2. ~ work[u].retries > 0
      BY <2>1 DEF PenaltyInv, RetriedIsPenalized, Begun, Settled
    <3> QED
      BY <2>1, <3>1, <3>2 DEF NewWork
  <2>4. future[u] \in Outcomes /\ future'[u] \in Outcomes
    BY <2>1 DEF Outcomes
  <2>5. Phase[u] = "new" /\ Phase'[u] = "new"
    BY <2>1, <2>4, SeenOf, PhaseIsRead DEF PhaseAt
  <2>6. Unseen(u)
    BY <2>1, <2>3, <2>5, SeenOf DEF Unseen, Settled
  <2> QED
    BY <2>2, <2>6, NothingSeen
<1>2. CASE SubmitAppend(u)
  <2>1. /\ future[u] = "entering" /\ pending' = Append(pending, u)
        /\ future'[u] = "pending" /\ work'[u].retries = work[u].retries
        /\ \A t \in Tasks \ {u} : future'[t] = future[t] /\ work'[t] = work[t]
    BY <1>0, <1>2 DEF SubmitAppend, PendingWorkType
  <2>2. Range(pending') = Range(pending) \cup {u}
    BY <1>0, <2>1, AppendQueue
  <2>3. \A t \in Tasks \ {u} : Unseen(t)
    BY <1>0, <2>1, <2>2, StillUnseen, PlacesOf
  <2>4. future[u] \in Outcomes /\ future'[u] \in Outcomes
    BY <2>1 DEF Outcomes, Waiting
  <2>5. Phase[u] = "new" /\ Phase'[u] = "queued"
    BY <2>1, <2>2, <2>4, SeenOf, PhaseIsRead DEF PhaseAt, Settled
  <2>6. Outcome'[u] = Outcome[u] /\ Attempts'[u] = Attempts[u]
    BY <2>1, SeenOf DEF Settled
  <2> QED
    BY <2>3, <2>5, <2>6, OneMoves DEF Life!Enqueue
<1> QED
  BY <1>1, <1>2

(* Cancel: only a task that was never retried.                            *)
LEMMA CancelRefines ==
  ASSUME TypeInv, HomeInv, PenaltyInv, NEW u \in Tasks, Cancel(u)
  PROVE  Life!EndQueued({u})
<1>0. /\ future \in [Tasks -> Outcomes] /\ future[u] = "pending"
      /\ future' = [future EXCEPT ![u] = "cancelled"] /\ UNCHANGED <<work, pending, inFlight>>
  BY DEF Cancel, TypeInv, FuturesType, queueVars
<1>1. future'[u] = "cancelled" /\ \A t \in Tasks \ {u} : future'[t] = future[t]
  BY <1>0
<1>2. \A t \in Tasks \ {u} : Unseen(t)
  BY <1>0, <1>1, StillUnseen
<1>3. u \in Range(pending)
  BY <1>0 DEF HomeInv, Homed, At, Threads
<1>4. Phase[u] = "queued" /\ Phase'[u] = "settled"
  BY <1>0, <1>1, <1>3, SeenOf, PhaseIsRead DEF PhaseAt, Settled, Outcomes, Waiting
<1>5. Outcome'[u] = "cancelled" /\ Attempts'[u] = Attempts[u]
  BY <1>0, <1>1, SeenOf DEF Settled
<1>6. ~ Life!Exclusive(u)
  <2>1. ~ work[u].retries > 0
    BY <1>0 DEF PenaltyInv, RetriedIsPenalized, Begun, Settled
  <2> QED
    BY <2>1, SeenOf DEF Life!Exclusive
<1>7. Phase' = [t \in Tasks |-> IF t \in {u} THEN "settled" ELSE Phase[t]]
  BY <1>2, <1>4, MapsFit DEF Unseen
<1>8. Outcome' = [t \in Tasks |-> IF t \in {u} THEN "cancelled" ELSE Outcome[t]]
  BY <1>2, <1>5, MapsFit DEF Unseen
<1>9. Attempts' = Attempts
  BY <1>2, <1>5, MapsFit DEF Unseen
<1>10. "cancelled" \in Life!EarlyOutcomes
  BY DEF Life!EarlyOutcomes
<1> QED
  BY <1>4, <1>6, <1>7, <1>8, <1>9, <1>10 DEF Life!EndQueued

(* The shutdown refuses the queue.                                        *)
LEMMA RefuseRefines ==
  ASSUME TypeInv, HomeInv, FailPendingFutures
  PROVE  \E T \in SUBSET Tasks : Life!EndQueued(T)
<1>1. /\ future' = SettleFutures(future, Range(pending), "refused") /\ pending' = <<>>
      /\ UNCHANGED <<work, inFlight>>
  BY DEF FailPendingFutures
<1>2. Range(pending') = Range(pending) \ Range(pending)
  BY <1>1, EmptyQueue
<1> QED
  BY <1>1, <1>2, EndedInQueue DEF SameRetries

(* _maybe_dispatch fails what is infeasible.                              *)
LEMMA DispatchRefines ==
  ASSUME TypeInv, HomeInv, MaybeDispatch
  PROVE  \E T \in SUBSET Tasks : Life!EndQueued(T)
<1>0. /\ inFlight' = inFlight /\ Queue(pending) /\ Range(pending) \subseteq Tasks
      /\ WorkType /\ ProfileType
  BY DEF TypeInv, QueueType, MaybeDispatch
<1>1. PICK S, left : S \subseteq {t \in Range(pending) : Stale(t)} /\ Dispatches(S, left)
  BY DispatchUnfolds
<1>2. /\ future' = SettleFutures(future, Dropped(S), "infeasible")
      /\ pending' = Without(pending, Dropped(S))
      /\ work' = Planned(Reestimated(S), Feasible(S))
  BY <1>1 DEF Dispatches, Feasible
<1>3. Range(pending') = Range(pending) \ Dropped(S)
  BY <1>0, <1>2, WithoutLeaves
<1>4. \A t \in Tasks : Carried4(work'[t], work[t])
  BY <1>0, <1>1, <1>2, <1>3, PlannedWork DEF Feasible
<1>5. SameRetries
  BY <1>4 DEF Carried4, SameRetries
<1>6. Dropped(S) \subseteq Range(pending)
  BY DEF Dropped
<1> QED
  BY <1>0, <1>2, <1>3, <1>5, <1>6, EndedInQueue

(* A cancelled task is dropped from the queue.                            *)
LEMMA DropRefines ==
  ASSUME TypeInv, HomeInv, PlanQueued, DropCancelled
  PROVE  UNCHANGED Life!life
<1>0. UNCHANGED <<future, work, inFlight>> /\ Queue(pending)
  BY DEF DropCancelled, taskVars, TypeInv, QueueType
<1>1. PICK u \in Tasks : u = Decision.task /\ u \in Range(pending) /\ ~ Starts(u)
  <2>1. thread["dispatch"].pc = "ship"
    BY DEF DropCancelled, Secured
  <2>2. Decision.task \in PlanTasks
    BY <2>1, DecisionFits
  <2> QED
    BY <2>2 DEF DropCancelled, TypeInv, QueueType, PlanQueued
<1>2. Range(pending') = Range(pending) \ {u}
  BY <1>0, <1>1, WithoutLeaves DEF DropCancelled, Unqueue
<1>3. future[u] = "cancelled"
  <2>1. Homed(future[u], work[u], At(u)) /\ "queue" \in At(u)
    BY <1>1 DEF HomeInv, At
  <2>2. future[u] # "pending" /\ work[u].notified # TRUE
    BY <1>1 DEF Starts
  <2> QED
    BY <2>1, <2>2 DEF Homed
<1>4. Unseen(u)
  <2>1. future[u] \in Outcomes /\ future'[u] = future[u]
    BY <1>0, PlacesOf
  <2>2. Phase'[u] = Phase[u]
    BY <1>3, <2>1, SeenOf, PhaseIsRead DEF PhaseAt, Settled
  <2> QED
    BY <1>0, <2>2, SeenOf DEF Unseen
<1>5. \A t \in Tasks \ {u} : Unseen(t)
  BY <1>0, <1>2, StillUnseen, PlacesOf
<1> QED
  BY <1>4, <1>5, NothingSeen

(* What the life cycle takes for the running set is the running set.      *)
LEMMA LifeInFlight == TypeInv /\ HomeInv => Life!InFlight = inFlight
<1> SUFFICES ASSUME TypeInv, HomeInv PROVE Life!InFlight = inFlight
  OBVIOUS
<1>1. inFlight \subseteq Tasks
  BY DEF TypeInv, QueueType
<1>2. ASSUME NEW t \in Tasks PROVE Phase[t] = "inFlight" <=> t \in inFlight
  <2>1. future[t] \in Outcomes
    BY PlacesOf
  <2>2. Phase[t] = PhaseAt(future[t], t \in Range(pending), t \in inFlight)
    BY <2>1, SeenOf, PhaseIsRead
  <2>3. t \in inFlight => future[t] = "running" /\ t \notin Range(pending)
    BY PlacesOf
  <2> QED
    BY <2>2, <2>3 DEF PhaseAt, Settled
<1> QED
  BY <1>1, <1>2 DEF Life!InFlight

(* A dispatch finds a free slot, and an empty machine if it must.         *)
LEMMA ShipRefines ==
  ASSUME TypeInv, HomeInv, PlanInv, PenaltyInv, [Next]_vars, NEW u \in Tasks, ShipTask(u)
  PROVE  Life!Dispatch(u)
<1>0. /\ future \in [Tasks -> Outcomes] /\ work \in [Tasks -> PendingWorkType]
      /\ inFlight' = inFlight \cup {u} /\ inFlight \subseteq Tasks
  BY DEF TypeInv, FuturesType, WorkType, QueueType, ShipTask
<1>1. Range(pending') = Range(pending) \ {u} /\ At(u) = {"queue"}
  BY ShipMoves DEF PlanInv, PlanQueued, PlanSlots
<1>2. u \in Range(pending) /\ u \notin inFlight
  BY <1>1 DEF At, Threads
<1>3. /\ future'[u] = IF future[u] = "pending" THEN "running" ELSE future[u]
      /\ \A t \in Tasks \ {u} : future'[t] = future[t]
      /\ \A t \in Tasks : work'[t].retries = work[t].retries
  BY <1>0 DEF ShipTask, PendingWorkType
<1>4. future[u] \in {"pending", "running"} /\ future'[u] = "running"
  <2>1. Homed(future[u], work[u], {"queue"})
    BY <1>1 DEF HomeInv
  <2>2. work[u].notified = TRUE \/ future[u] = "pending"
    BY <1>0 DEF ShipTask, Starts, PendingWorkType
  <2> QED
    BY <1>3, <2>1, <2>2 DEF Homed
<1>5. \A t \in Tasks \ {u} : Unseen(t)
  BY <1>0, <1>1, <1>3, StillUnseen
<1>6. Phase[u] = "queued" /\ Phase'[u] = "inFlight"
  <2>1. u \notin Range(pending') /\ u \in inFlight'
    BY <1>0, <1>1
  <2> QED
    BY <1>2, <1>4, <2>1, SeenOf, PhaseIsRead DEF PhaseAt, Settled, Outcomes, Waiting
<1>7. Outcome'[u] = Outcome[u] /\ Attempts'[u] = Attempts[u]
  BY <1>3, <1>4, SeenOf DEF Settled
<1>8. Life!InFlight = inFlight
  BY LifeInFlight
<1>9. plan # <<>> /\ u = plan[1].task /\ Len(plan) \in Nat \ {0}
  <2>1. thread["dispatch"].pc = "ship"
    BY DEF ShipTask, Secured
  <2> QED
    BY <2>1, DecisionFits DEF ShipTask, Decision
<1>10. Cardinality(inFlight) < MaxWorkers
  <2>1. Cardinality(inFlight) \in Nat
    BY FS_CardinalityType DEF PlanInv, PlanSlots
  <2> QED
    BY <1>9, <2>1, MaxWorkersAssumption DEF PlanInv, PlanSlots
<1>11. ASSUME NEW t \in inFlight PROVE ~ Life!Exclusive(t) /\ ~ Life!Exclusive(u)
  <2>1. \A x \in Tasks : Life!Exclusive(x) => work[x].excl = TRUE
    <3> SUFFICES ASSUME NEW x \in Tasks, Life!Exclusive(x) PROVE work[x].excl = TRUE
      OBVIOUS
    <3>1. work[x].retries > 0
      BY SeenOf DEF Life!Exclusive
    <3>2. work[x].excl \in BOOLEAN
      BY <1>0 DEF PendingWorkType
    <3> QED
      BY <3>1, <3>2 DEF PenaltyInv, RetriedIsPenalized
  <2>2. work[t].excl # TRUE
    BY <1>9 DEF PlanInv, PlanAlone
  <2>3. work[plan[1].task].excl # TRUE
    <3>1. 1 \in 1 .. Len(plan)
      BY <1>9
    <3>2. inFlight # {}
      BY <1>11
    <3>3. \A i \in 1 .. Len(plan) : work[plan[i].task].excl = TRUE => inFlight = {}
      BY DEF PlanInv, PlanAlone
    <3> QED
      BY <3>1, <3>2, <3>3
  <2> QED
    BY <1>0, <1>9, <2>1, <2>2, <2>3
<1>12. Phase' = [Phase EXCEPT ![u] = "inFlight"] /\ Outcome' = Outcome /\ Attempts' = Attempts
  BY <1>5, <1>6, <1>7, OneMoves
<1>13. \A t \in Life!InFlight : ~ Life!Exclusive(t) /\ ~ Life!Exclusive(u)
  BY <1>8, <1>11
<1>14. Life!Cardinality(inFlight) = Cardinality(inFlight)
  BY DEF Life!Cardinality, Cardinality
<1> QED
  BY <1>6, <1>8, <1>10, <1>12, <1>13, <1>14 DEF Life!Dispatch

(* A timeout, a result and a death take a task out of the running set.    *)
LEMMA TakesRefine ==
  ASSUME TypeInv, HomeInv,
         \/ \E t \in Tasks : HandleTimeout(t)
         \/ \E th \in Threads : ProcessResult(th)
         \/ \E th \in Reapers : DiscardQueue(th)
  PROVE  (\E t \in Tasks : Life!Take(t)) \/ UNCHANGED Life!life
<1>0. work \in [Tasks -> PendingWorkType] /\ inFlight \subseteq Tasks
  BY DEF TypeInv, WorkType, QueueType
<1>1. ASSUME NEW u \in Tasks, HandleTimeout(u)
      PROVE  (\E t \in Tasks : Life!Take(t)) \/ UNCHANGED Life!life
  <2>1. UNCHANGED <<future, pending>> /\ inFlight' = inFlight \ {u}
    BY <1>1, TimeoutMoves DEF HandleTimeout
  <2>2. work' = work \/ work' = [work EXCEPT ![u].ignored = TRUE]
    BY <1>1 DEF HandleTimeout
  <2>3. SameRetries
    BY <1>0, <2>2 DEF SameRetries, PendingWorkType
  <2> QED
    BY <2>1, <2>3, Taken
<1>2. ASSUME NEW th \in Threads, ProcessResult(th)
      PROVE  (\E t \in Tasks : Life!Take(t)) \/ UNCHANGED Life!life
  <2>1. PICK u \in Tasks : u = Head(thread[th].buf).task
    BY <1>2, ProcessTurns DEF ResultType
  <2>2. UNCHANGED <<future, work, pending>> /\ inFlight' = inFlight \ {u}
    BY <1>2, <2>1, ProcessMoves DEF ProcessResult, taskVars
  <2> QED
    BY <2>2, Taken DEF SameRetries
<1>3. ASSUME NEW th \in Reapers, DiscardQueue(th)
      PROVE  (\E t \in Tasks : Life!Take(t)) \/ UNCHANGED Life!life
  <2>1. UNCHANGED <<future, work, pending>>
    BY <1>3 DEF DiscardQueue, taskVars
  <2>2. inFlight' = inFlight \/ inFlight' = inFlight \ {LostOf(th)}
    BY <1>3, DiscardTurns DEF Seizes, Forgets
  <2>3. CASE inFlight' = inFlight
    BY <2>1, <2>3, Still
  <2>4. CASE inFlight' = inFlight \ {LostOf(th)} /\ inFlight' # inFlight
    <3>1. PICK u \in Tasks : u = LostOf(th)
      BY <1>0, <2>4
    <3>2. inFlight' = inFlight \ {u}
      BY <2>4, <3>1
    <3> QED
      BY <2>1, <3>2, Taken DEF SameRetries
  <2> QED
    BY <2>2, <2>3, <2>4
<1> QED
  BY <1>1, <1>2, <1>3

(* A result, a crash and a timeout settle the task their thread holds.    *)
LEMMA SettlesRefine ==
  ASSUME TypeInv, HomeInv,
         \/ \E th \in Threads : SettleResult(th)
         \/ \E th \in Reapers : FailLost(th)
         \/ SettleTimeout
  PROVE  \E t \in Tasks : Life!Settle(t)
<1>1. ASSUME NEW th \in Threads, SettleResult(th) PROVE \E t \in Tasks : Life!Settle(t)
  <2>1. PICK u \in Tasks : u = thread[th].hand.task /\ thread[th].hand # None
    BY <1>1, SettleTurns DEF ResultType, SettleResult, Settling
  <2>2. PICK late \in Life!LateOutcomes : late = (IF thread[th].hand.ok THEN "result" ELSE "raised")
    BY DEF Life!LateOutcomes
  <2>3. future' = SettleFutures(future, {u}, late) /\ UNCHANGED <<work, pending, inFlight>>
    BY <1>1, <2>1, <2>2 DEF SettleResult, queueVars
  <2>4. future[u] = "running" /\ u \notin Range(pending) /\ u \notin inFlight
    BY <2>1, PlacesOf DEF Carries
  <2> QED
    BY <2>3, <2>4, SettledByHolder
<1>2. ASSUME NEW th \in Reapers, FailLost(th) PROVE \E t \in Tasks : Life!Settle(t)
  <2>1. PICK u \in Tasks : u = thread[th].lost /\ th \in Threads
    BY <1>2, LostTurns DEF Reapers
  <2>2. future' = SettleFutures(future, {u}, "crashed") /\ UNCHANGED <<work, pending, inFlight>>
    BY <1>2, <2>1 DEF FailLost, queueVars
  <2>3. future[u] = "running" /\ u \notin Range(pending) /\ u \notin inFlight
    BY <2>1, PlacesOf DEF Carries
  <2>4. "crashed" \in Life!LateOutcomes
    BY DEF Life!LateOutcomes
  <2> QED
    BY <2>2, <2>3, <2>4, SettledByHolder
<1>3. ASSUME SettleTimeout PROVE \E t \in Tasks : Life!Settle(t)
  <2>1. PICK u \in Tasks : timer.task = u
    BY <1>3 DEF SettleTimeout, TypeInv, TimerType
  <2>2. future' = SettleFutures(future, {u}, "timeout") /\ UNCHANGED <<work, pending, inFlight>>
    BY <1>3, <2>1 DEF SettleTimeout, queueVars
  <2>3. future[u] = "running" /\ u \notin Range(pending) /\ u \notin inFlight
    BY <2>1, PlacesOf
  <2>4. "timeout" \in Life!LateOutcomes
    BY DEF Life!LateOutcomes
  <2> QED
    BY <2>2, <2>3, <2>4, SettledByHolder
<1> QED
  BY <1>1, <1>2, <1>3

(* A retried task has one retry more.                                     *)
LEMMA RetryCounts ==
  ASSUME NEW v \in PendingWorkType
  PROVE  Retried(v).retries = v.retries + 1
<1> DEFINE p == Penalized(v)
<1>1. "retries" \in DOMAIN p /\ p.retries = v.retries
  BY DEF Penalized, PendingWorkType
<1>2. Retried(v) = [p EXCEPT !.retries = @ + 1, !.gpu = None, !.worker = None, !.ignored = FALSE]
  BY Zenon DEF Retried
<1> HIDE DEF p
<1> QED
  BY <1>1, <1>2

(* A crash with retries left sends the task back to the queue.            *)
LEMMA RetryRefines ==
  ASSUME TypeInv, HomeInv, NEW th \in Reapers, RetryLost(th)
  PROVE  \E t \in Tasks : Life!Requeue(t)
<1>0. work \in [Tasks -> PendingWorkType] /\ UNCHANGED <<future, inFlight>>
  BY DEF TypeInv, WorkType, RetryLost
<1>1. PICK u \in Tasks : u = thread[th].lost /\ th \in Threads
  BY LostTurns DEF Reapers
<1>2. Range(pending') = Range(pending) \cup {u}
  BY <1>1, RetryMoves
<1>3. work' = [work EXCEPT ![u] = Retried(work[u])] /\ work[u].retries < MaxRetries
  BY <1>1 DEF RetryLost, ShouldRetry
<1>4. future[u] = "running" /\ u \notin Range(pending) /\ u \notin inFlight
  BY <1>1, PlacesOf DEF Carries
<1>5. work'[u].retries = work[u].retries + 1 /\ \A t \in Tasks \ {u} : work'[t] = work[t]
  <2>1. work[u] \in PendingWorkType
    BY <1>0
  <2>2. Retried(work[u]).retries = work[u].retries + 1
    BY <2>1, RetryCounts
  <2> QED
    BY <1>0, <1>3, <2>2
<1>6. \A t \in Tasks \ {u} : Unseen(t)
  BY <1>0, <1>2, <1>5, StillUnseen, PlacesOf
<1>7. Phase[u] = "held" /\ Phase'[u] = "queued"
  <2>1. "running" \in Outcomes /\ future'[u] = "running" /\ u \in Range(pending')
    BY <1>0, <1>2, <1>4 DEF Outcomes, Waiting
  <2> QED
    BY <1>4, <2>1, SeenOf, PhaseIsRead DEF PhaseAt, Settled
<1>8. Outcome'[u] = Outcome[u] /\ Attempts[u] < MaxRetries /\ Attempts'[u] = Attempts[u] + 1
  BY <1>0, <1>3, <1>5, SeenOf
<1>9. Life!Requeue(u)
  <2>1. Attempts' = [Attempts EXCEPT ![u] = Attempts[u] + 1]
    BY <1>6, <1>8, OneMoves
  <2> QED
    BY <1>6, <1>7, <1>8, <2>1, OneMoves DEF Life!Requeue
<1> QED
  BY <1>9

-----------------------------------------------------------------------------
(* The refinement.                                                          *)

(* At the start every task is new.                                        *)
LEMMA LifeAtInit == Init => Life!Init
<1> SUFFICES ASSUME Init PROVE Life!Init
  OBVIOUS
<1>1. ASSUME NEW t \in Tasks
      PROVE  Phase[t] = "new" /\ Outcome[t] = "open" /\ Attempts[t] = 0
  <2>1. future[t] = "new" /\ work[t].retries = 0
    BY <1>1 DEF Init, NewWork
  <2> QED
    BY <1>1, <2>1, SeenOf, PhaseIsRead DEF PhaseAt, Settled, Outcomes
<1> QED
  BY <1>1, MapsFit DEF Life!Init

(* Each step of the executor is a step of the life cycle, or none.        *)
LEMMA LifeStep ==
  ASSUME TypeInv, HomeInv, PlanInv, PenaltyInv, [Next]_vars
  PROVE  [Life!Next]_(Life!life)
<1>0. NoDup(pending) /\ IsFiniteSet(inFlight) /\ PlanQueued
  BY DEF HomeInv, PlanInv, PlanSlots
<1>1. CASE ~ Movers
  <2>1. UNCHANGED <<future, work, pending, inFlight>>
    BY <1>1, StepIsFramed DEF Framed, FutureChanges, WorkChanges, PendingChanges, InFlightChanges,
                              Movers, Handovers
  <2> QED
    BY <2>1, Still
<1>2. CASE Handovers
  <2>1. CASE (\E th \in Threads : ProcessResult(th)) \/ (\E th \in Reapers : DiscardQueue(th))
    BY <2>1, TakesRefine DEF Life!Next
  <2>2. CASE (\E th \in Threads : SettleResult(th)) \/ (\E th \in Reapers : FailLost(th))
    BY <2>2, SettlesRefine DEF Life!Next
  <2>3. CASE \E th \in Reapers : RetryLost(th)
    BY <2>3, RetryRefines DEF Life!Next
  <2> QED
    BY <1>2, <2>1, <2>2, <2>3 DEF Handovers
<1>3. ASSUME NEW u \in Tasks, SubmitEnter(u) \/ SubmitAppend(u)
      PROVE  [Life!Next]_(Life!life)
  BY <1>3, SubmitRefines DEF Life!Next
<1>4. ASSUME NEW u \in Tasks, Cancel(u) PROVE Life!Next
  BY <1>4, CancelRefines DEF Life!Next
<1>5. ASSUME NEW u \in Tasks, ShipTask(u) PROVE Life!Next
  BY <1>5, ShipRefines DEF Life!Next
<1>6. ASSUME NEW u \in Tasks, HandleTimeout(u) PROVE [Life!Next]_(Life!life)
  BY <1>6, TakesRefine DEF Life!Next
<1>7. CASE SettleTimeout
  BY <1>7, SettlesRefine DEF Life!Next
<1>8. CASE FailPendingFutures \/ MaybeDispatch
  BY <1>8, RefuseRefines, DispatchRefines DEF Life!Next
<1>9. CASE DropCancelled
  BY <1>0, <1>9, DropRefines
<1> QED
  BY <1>1, <1>2, <1>3, <1>4, <1>5, <1>6, <1>7, <1>8, <1>9 DEF Movers

(* The executor implements the life cycle it promises each task: whatever *)
(* its threads, workers, crashes, timeouts and cancellations do, a task   *)
(* moves only from new to queued, in flight, held and settled or back to  *)
(* the queue, within the worker limit and alone once it was retried       *)
(* (adaptive_executor.py 224-310, 318-406, 949-988, 1006-1045, 1120-1216).*)
THEOREM ExecutorImplementsLife == Spec => ImplementsTaskLifecycle
<1>1. ExecutorInv /\ PenaltyInv /\ [Next]_vars => [Life!Next]_(Life!life)
  BY LifeStep DEF ExecutorInv
<1> QED
  BY <1>1, LifeAtInit, ExecutorInvariant, PenaltyInvariant, PTL
     DEF Spec, Life!Spec, ImplementsTaskLifecycle
==============================================================================
