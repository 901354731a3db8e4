--------------------------- MODULE ExecutorProofs ----------------------------
(***************************************************************************)
(* Proofs about Executor, for every number of tasks, workers, crashes and  *)
(* retries: futures settle once, a cancelled task never runs, a retried    *)
(* one keeps its penalty.  Then the types of Executor in parts, and what   *)
(* MaybeDispatch does with a plan: the queue it leaves, the tasks it puts  *)
(* in flight, and that these fit the machine.                              *)
(***************************************************************************)
EXTENDS Executor, CycleProofs

-----------------------------------------------------------------------------
(* Futures.                                                                 *)

\* What a future may be once the running handshake of its task succeeded.
Begun == {"running"} \cup (Settled \ {"cancelled"})

\* g is what may become of the futures f: what is settled stays, what has begun
\* is never cancelled, what was submitted was submitted.
Later(f, g) ==
  \A t \in Tasks : /\ f[t] \in Settled => g[t] = f[t]
                   /\ f[t] \in Begun => g[t] \in Begun
                   /\ f[t] # "new" => g[t] # "new"

FuturesType == future \in [Tasks -> Outcomes]

(* Nothing may happen to the futures.                                     *)
LEMMA LaterReflexive == Later(future, future)
BY DEF Later

(* Settling some futures moves them forward only.                         *)
LEMMA SettlingIsLater ==
  ASSUME FuturesType, NEW S, NEW outcome \in Settled \ {"cancelled"}
  PROVE  LET g == SettleFutures(future, S, outcome)
         IN  g \in [Tasks -> Outcomes] /\ Later(future, g)
BY DEF FuturesType, SettleFutures, Later, Begun, Outcomes, Settled, Waiting

\* The threads that run _check_workers.
Reapers == Threads \ {"collector"}

\* The actions that touch no future.
FutureIsKept ==
  \/ \E t \in Tasks : Overdue(t) \/ HandleTimeout(t)
  \/ Shutdown \/ WaitForInFlight \/ StopThreads \/ StopAllWorkers \/ JoinWorkers \/ Close
  \/ \E th \in Reapers :
       \/ CheckWorkers(th) \/ DiscardQueue(th) \/ RetryLost(th)
       \/ \E w \in Workers : DrainQueue(th, w)
  \/ \E th \in Threads : ProcessResult(th)
  \/ Sweep \/ ReadQueue \/ NextQueue \/ ScanTimeouts \/ EscalateKill
  \/ ReuseWorker \/ SpawnWorker \/ ReplaceWorker \/ LeaveQueued \/ DropCancelled
  \/ \E w \in Workers : CheckQueue(w) \/ RunWorker(w) \/ Crash(w)

\* The actions that do.
FutureMoves ==
  \/ \E t \in Tasks : Submit(t) \/ Cancel(t) \/ ShipTask(t)
  \/ FailPendingFutures \/ SettleTimeout \/ MaybeDispatch
  \/ \E th \in Threads : SettleResult(th)
  \/ \E th \in Reapers : FailLost(th)

(* Every action of the executor is on one of the two lists.               *)
LEMMA NextSplits == Next => FutureIsKept \/ FutureMoves
BY DEF Next, FutureIsKept, FutureMoves, ShutDown, CollectResults, DispatchLoop, CheckTimeouts,
       Reap, Threads, Reapers

(* The actions of the first list keep every future.                       *)
LEMMA KeepingFutures == FutureIsKept => UNCHANGED future
<1> USE DEF taskVars, poolVars, procVars, queueVars
<1>1. (\E t \in Tasks : Overdue(t) \/ HandleTimeout(t)) => UNCHANGED future
  BY DEF Overdue, HandleTimeout
<1>2. Shutdown \/ WaitForInFlight \/ StopThreads \/ StopAllWorkers \/ JoinWorkers \/ Close
      => UNCHANGED future
  BY DEF Shutdown, WaitForInFlight, StopThreads, StopAllWorkers, JoinWorkers, Close
<1>3. ASSUME NEW th
      PROVE  CheckWorkers(th) \/ ProcessResult(th) \/ DiscardQueue(th) \/ RetryLost(th)
             => UNCHANGED future
  BY DEF CheckWorkers, ProcessResult, DiscardQueue, RetryLost
<1>4. ASSUME NEW th, NEW w PROVE DrainQueue(th, w) => UNCHANGED future
  BY DEF DrainQueue
<1>5. Sweep \/ ReadQueue \/ NextQueue \/ ScanTimeouts \/ EscalateKill => UNCHANGED future
  BY DEF Sweep, ReadQueue, NextQueue, ScanTimeouts, EscalateKill
<1>6. ReuseWorker \/ SpawnWorker \/ ReplaceWorker \/ LeaveQueued \/ DropCancelled
      => UNCHANGED future
  BY DEF ReuseWorker, SpawnWorker, ReplaceWorker, LeaveQueued, DropCancelled
<1>7. (\E w \in Workers : CheckQueue(w) \/ RunWorker(w) \/ Crash(w)) => UNCHANGED future
  BY DEF CheckQueue, RunWorker, TakeWork, TakeStop, Finish, Crash
<1> QED
  BY <1>1, <1>2, <1>3, <1>4, <1>5, <1>6, <1>7 DEF FutureIsKept

(* A step moves futures forward only.                                     *)
LEMMA FuturesStep ==
  FuturesType /\ [Next]_vars => FuturesType' /\ Later(future, future')
<1> SUFFICES ASSUME FuturesType, [Next]_vars
             PROVE  FuturesType' /\ Later(future, future')
  OBVIOUS
<1> USE DEF FuturesType
<1>1. CASE UNCHANGED future
  BY <1>1, LaterReflexive
<1>2. CASE \E t \in Tasks : Submit(t) \/ Cancel(t)
  BY <1>2 DEF Submit, SubmitEnter, SubmitAppend, Cancel, Later, Begun, Outcomes, Settled, Waiting
<1>3. ASSUME NEW u \in Tasks, ShipTask(u) PROVE FuturesType' /\ Later(future, future')
  <2>1. \A t \in Tasks : future'[t] = future[t] \/ (future[t] = "pending" /\ future'[t] = "running")
    BY <1>3 DEF ShipTask
  <2>2. future' \in [Tasks -> Outcomes]
    BY <1>3 DEF ShipTask, Outcomes, Waiting
  <2> QED
    BY <2>1, <2>2 DEF Later, Begun, Settled
<1>4. CASE FailPendingFutures
  BY <1>4, SettlingIsLater DEF FailPendingFutures, Settled
<1>5. CASE SettleTimeout
  BY <1>5, SettlingIsLater DEF SettleTimeout, Settled
<1>6. CASE MaybeDispatch
  <2>1. \E S : future' = SettleFutures(future, S, "infeasible")
    BY <1>6 DEF MaybeDispatch
  <2> QED
    BY <2>1, SettlingIsLater DEF Settled
<1>7. ASSUME NEW th, SettleResult(th) PROVE FuturesType' /\ Later(future, future')
  <2>1. future' = SettleFutures(future, {thread[th].hand.task},
                                IF thread[th].hand.ok THEN "result" ELSE "raised")
    BY <1>7 DEF SettleResult
  <2> QED
    BY <2>1, SettlingIsLater DEF Settled
<1>8. ASSUME NEW th, FailLost(th) PROVE FuturesType' /\ Later(future, future')
  BY <1>8, SettlingIsLater DEF FailLost, Settled
<1> QED
  BY <1>1, <1>2, <1>3, <1>4, <1>5, <1>6, <1>7, <1>8, NextSplits, KeepingFutures
     DEF FutureMoves, vars, taskVars

(* A settled future never changes, whichever of result, timeout, crash,     *)
(* shutdown and cancel comes second, for any number of tasks and workers    *)
(* (adaptive_executor.py 1220-1267).                                        *)
THEOREM SettledForGood == Spec => SettledOnce
<1>1. Init => FuturesType
  BY DEF Init, FuturesType, Outcomes
<1>2. FuturesType /\ [Next]_vars => FuturesType'
  BY FuturesStep
<1>3. FuturesType /\ [Next]_vars => [\A t \in Tasks : Done(t) => future'[t] = future[t]]_vars
  BY FuturesStep DEF Later, Done
<1> QED
  BY <1>1, <1>2, <1>3, PTL DEF Spec, SettledOnce

-----------------------------------------------------------------------------
(* Who has begun.  A task reaches a work queue only after its future left   *)
(* "pending" for good, and only a work queue feeds a worker.                *)

MarksType == DOMAIN work = Tasks /\ \A t \in Tasks : "notified" \in DOMAIN work[t]

MarkedHasBegun == \A t \in Tasks : work[t].notified => future[t] \in Begun

QueuedHasBegun ==
  /\ DOMAIN workQueue = Workers
  /\ \A w \in Workers :
       /\ Queue(workQueue[w])
       /\ \A x \in Range(workQueue[w]) \ {Stop} : x \in Tasks => future[x] \in Begun

RanHasBegun == \A t \in Tasks : t \in ran => future[t] \in Begun

OnlyBegunRun == FuturesType /\ MarksType /\ MarkedHasBegun /\ QueuedHasBegun /\ RanHasBegun

(* At the start no task has begun.                                        *)
LEMMA BegunAtInit == Init => OnlyBegunRun
<1> SUFFICES ASSUME Init PROVE OnlyBegunRun
  OBVIOUS
<1>1. FuturesType
  BY DEF Init, FuturesType, Outcomes
<1>2. MarksType /\ MarkedHasBegun
  <2>1. \A t \in Tasks : "notified" \in DOMAIN NewWork(t) /\ NewWork(t).notified = FALSE
    BY DEF NewWork
  <2> QED
    BY <2>1 DEF Init, MarksType, MarkedHasBegun
<1>3. QueuedHasBegun
  BY EmptyQueue DEF Init, QueuedHasBegun
<1>4. RanHasBegun
  BY DEF Init, RanHasBegun
<1> QED
  BY <1>1, <1>2, <1>3, <1>4 DEF OnlyBegunRun

\* A step that ships nothing keeps the marks, or takes them from new tasks.
LEMMA MarksStep ==
  OnlyBegunRun /\ [Next]_vars => (MarksType /\ MarkedHasBegun)'
<1> SUFFICES ASSUME OnlyBegunRun, [Next]_vars PROVE (MarksType /\ MarkedHasBegun)'
  OBVIOUS
<1> USE DEF taskVars, poolVars, procVars, queueVars
<1>0. FuturesType' /\ Later(future, future')
  BY FuturesStep DEF OnlyBegunRun
<1>1. SUFFICES \/ UNCHANGED work
               \/ /\ DOMAIN work' = Tasks
                  /\ \A t \in Tasks :
                       /\ "notified" \in DOMAIN work'[t]
                       /\ \/ work'[t].notified = work[t].notified
                          \/ work'[t].notified = FALSE
                          \/ future'[t] \in Begun
  <2>1. MarksType'
    BY <1>1 DEF OnlyBegunRun, MarksType
  <2>2. MarkedHasBegun'
    <3> SUFFICES ASSUME NEW t \in Tasks, work'[t].notified PROVE future'[t] \in Begun
      BY DEF MarkedHasBegun
    <3>1. work[t].notified => future[t] \in Begun
      BY DEF OnlyBegunRun, MarkedHasBegun
    <3>2. future[t] \in Begun => future'[t] \in Begun
      BY <1>0 DEF Later
    <3>3. work'[t].notified = work[t].notified \/ future'[t] \in Begun
      BY <1>1
    <3> QED
      BY <3>1, <3>2, <3>3
  <2> QED
    BY <2>1, <2>2
<1>2. DOMAIN work = Tasks /\ \A t \in Tasks : "notified" \in DOMAIN work[t]
  BY DEF OnlyBegunRun, MarksType
<1>3. ASSUME NEW t \in Tasks, Submit(t) \/ Cancel(t) \/ Overdue(t) \/ HandleTimeout(t)
      PROVE  \/ UNCHANGED work
             \/ /\ DOMAIN work' = Tasks
                /\ \A u \in Tasks : /\ "notified" \in DOMAIN work'[u]
                                     /\ \/ work'[u].notified = work[u].notified
                                        \/ work'[u].notified = FALSE
  <2>1. CASE SubmitEnter(t)
    <3>1. "notified" \in DOMAIN NewWork(t) /\ NewWork(t).notified = FALSE
      BY DEF NewWork
    <3>2. work' = [work EXCEPT ![t] = NewWork(t)]
      BY <2>1 DEF SubmitEnter
    <3> QED
      BY <1>2, <3>1, <3>2
  <2>2. CASE SubmitAppend(t)
    BY <1>2, <2>2 DEF SubmitAppend
  <2>3. CASE Cancel(t) \/ Overdue(t)
    BY <2>3 DEF Cancel, Overdue
  <2>4. CASE HandleTimeout(t)
    BY <1>2, <2>4 DEF HandleTimeout
  <2> QED
    BY <1>3, <2>1, <2>2, <2>3, <2>4 DEF Submit
<1>4. CASE MaybeDispatch
  <2>1. PICK S, q : work' = Planned(Reestimated(S), q)
    BY <1>4 DEF MaybeDispatch
  <2>2. \A t \in Tasks : /\ "notified" \in DOMAIN Reestimated(S)[t]
                         /\ Reestimated(S)[t].notified = work[t].notified
    BY <1>2 DEF Reestimated
  <2> QED
    BY <2>1, <2>2 DEF Planned
<1>5. ASSUME NEW th, RetryLost(th)
      PROVE  /\ DOMAIN work' = Tasks
             /\ \A t \in Tasks : /\ "notified" \in DOMAIN work'[t]
                                  /\ work'[t].notified = work[t].notified
  BY <1>2, <1>5 DEF RetryLost, Retried, Penalized
<1>6. ASSUME NEW t \in Tasks, ShipTask(t)
      PROVE  /\ DOMAIN work' = Tasks
             /\ \A u \in Tasks : /\ "notified" \in DOMAIN work'[u]
                                  /\ \/ work'[u].notified = work[u].notified
                                     \/ future'[u] \in Begun
  <2>1. /\ work' = [work EXCEPT ![t].notified = TRUE, ![t].gpu = Decision.gpu,
                                ![t].worker = thread["dispatch"].slot]
        /\ future' = [future EXCEPT ![t] = IF @ = "pending" THEN "running" ELSE @]
        /\ Starts(t)
    BY <1>6 DEF ShipTask
  <2>2. future'[t] \in Begun
    BY <2>1, <1>0 DEF Starts, OnlyBegunRun, MarkedHasBegun, FuturesType, Begun
  <2> QED
    BY <1>2, <2>1, <2>2
<1>7. CASE Shutdown \/ WaitForInFlight \/ StopThreads \/ StopAllWorkers \/ JoinWorkers \/ Close
           \/ FailPendingFutures
  BY <1>7 DEF Shutdown, WaitForInFlight, StopThreads, StopAllWorkers, JoinWorkers, Close,
              FailPendingFutures
<1>8. ASSUME NEW th
      PROVE  CheckWorkers(th) \/ ProcessResult(th) \/ DiscardQueue(th) \/ SettleResult(th)
             \/ FailLost(th) => UNCHANGED work
  BY DEF CheckWorkers, ProcessResult, DiscardQueue, SettleResult, FailLost
<1>9. ASSUME NEW th, NEW w PROVE DrainQueue(th, w) => UNCHANGED work
  BY DEF DrainQueue
<1>10. Sweep \/ ReadQueue \/ NextQueue \/ ScanTimeouts \/ EscalateKill \/ SettleTimeout
       => UNCHANGED work
  BY DEF Sweep, ReadQueue, NextQueue, ScanTimeouts, EscalateKill, SettleTimeout
<1>11. ReuseWorker \/ SpawnWorker \/ ReplaceWorker \/ LeaveQueued \/ DropCancelled
       => UNCHANGED work
  BY DEF ReuseWorker, SpawnWorker, ReplaceWorker, LeaveQueued, DropCancelled
<1>12. (\E w \in Workers : CheckQueue(w) \/ RunWorker(w) \/ Crash(w)) => UNCHANGED work
  BY DEF CheckQueue, RunWorker, TakeWork, TakeStop, Finish, Crash
<1>13. UNCHANGED vars => UNCHANGED work
  BY DEF vars
<1> QED
  BY <1>3, <1>4, <1>5, <1>6, <1>7, <1>8, <1>9, <1>10, <1>11, <1>12, <1>13, NextSplits
     DEF FutureIsKept, FutureMoves

\* Every work queue grows at its end by Stop or a begun task, loses its head, or stays.
LEMMA QueuesStep == OnlyBegunRun /\ [Next]_vars => QueuedHasBegun'
<1> SUFFICES ASSUME OnlyBegunRun, [Next]_vars PROVE QueuedHasBegun'
  OBVIOUS
<1> USE DEF taskVars, poolVars, procVars, queueVars
<1>0. FuturesType' /\ Later(future, future')
  BY FuturesStep DEF OnlyBegunRun
<1> DEFINE Fed(w, x) == /\ workQueue'[w] = Append(workQueue[w], x)
                        /\ x = Stop \/ (x \in Tasks => future'[x] \in Begun)
           Eaten(w) == workQueue[w] # <<>> /\ workQueue'[w] = Tail(workQueue[w])
           Moves == /\ DOMAIN workQueue' = Workers
                    /\ \A w \in Workers :
                         workQueue'[w] = workQueue[w] \/ (\E x : Fed(w, x)) \/ Eaten(w)
<1>1. SUFFICES Moves
  <2> SUFFICES ASSUME NEW w \in Workers
               PROVE  /\ Queue(workQueue'[w])
                      /\ \A x \in Range(workQueue'[w]) \ {Stop} : x \in Tasks => future'[x] \in Begun
    BY <1>1 DEF QueuedHasBegun
  <2>1. /\ Queue(workQueue[w])
        /\ \A x \in Range(workQueue[w]) \ {Stop} : x \in Tasks => future'[x] \in Begun
    BY <1>0 DEF OnlyBegunRun, QueuedHasBegun, Later
  <2>2. CASE workQueue'[w] = workQueue[w]
    BY <2>1, <2>2
  <2>3. ASSUME NEW x, Fed(w, x)
        PROVE  /\ Queue(workQueue'[w])
               /\ \A y \in Range(workQueue'[w]) \ {Stop} : y \in Tasks => future'[y] \in Begun
    <3>1. /\ Queue(Append(workQueue[w], x))
          /\ Range(Append(workQueue[w], x)) = Range(workQueue[w]) \cup {x}
      BY <2>1, AppendQueue
    <3> QED
      BY <2>1, <2>3, <3>1
  <2>4. CASE Eaten(w)
    BY <2>1, <2>4, TailQueue
  <2> QED
    BY <1>1, <2>2, <2>3, <2>4
<1>2. DOMAIN workQueue = Workers
  BY DEF OnlyBegunRun, QueuedHasBegun
<1>3. UNCHANGED workQueue => Moves
  BY <1>2
<1>4. ASSUME NEW w, workQueue' = [workQueue EXCEPT ![w] = Append(@, Stop)] PROVE Moves
  BY <1>2, <1>4
<1>5. ASSUME NEW t \in Tasks, ShipTask(t) PROVE Moves
  <2> DEFINE w == thread["dispatch"].slot
  <2>1. /\ workQueue' = [workQueue EXCEPT ![w] = Append(@, t)]
        /\ future' = [future EXCEPT ![t] = IF @ = "pending" THEN "running" ELSE @]
        /\ Starts(t)
    BY <1>5 DEF ShipTask
  <2>2. future'[t] \in Begun
    BY <2>1, <1>0 DEF Starts, OnlyBegunRun, MarkedHasBegun, FuturesType, Begun
  <2> QED
    BY <1>2, <2>1, <2>2
<1>6. CASE StopAllWorkers
  BY <1>2, <1>6 DEF StopAllWorkers
<1>7. CASE \E w \in Workers : TakeWork(w) \/ TakeStop(w)
  BY <1>2, <1>7 DEF TakeWork, TakeStop
<1>8. ASSUME NEW th, ProcessResult(th) PROVE Moves
  <2>1. UNCHANGED workQueue \/ \E w : workQueue' = [workQueue EXCEPT ![w] = Append(@, Stop)]
    BY <1>8 DEF ProcessResult, RetireWorker
  <2> QED
    BY <1>3, <1>4, <2>1
<1>9. CASE ReplaceWorker
  <2>1. \E w : workQueue' = [workQueue EXCEPT ![w] = Append(@, Stop)]
    BY <1>9 DEF ReplaceWorker
  <2> QED
    BY <1>4, <2>1
<1>10. ASSUME NEW t, Submit(t) \/ Cancel(t) \/ Overdue(t) \/ HandleTimeout(t)
       PROVE  UNCHANGED workQueue
  BY <1>10 DEF Submit, SubmitEnter, SubmitAppend, Cancel, Overdue, HandleTimeout
<1>11. Shutdown \/ WaitForInFlight \/ StopThreads \/ JoinWorkers \/ Close \/ FailPendingFutures
       => UNCHANGED workQueue
  BY DEF Shutdown, WaitForInFlight, StopThreads, JoinWorkers, Close, FailPendingFutures
<1>12. ASSUME NEW th
       PROVE  CheckWorkers(th) \/ DiscardQueue(th) \/ SettleResult(th) \/ RetryLost(th)
              \/ FailLost(th) => UNCHANGED workQueue
  BY DEF CheckWorkers, DiscardQueue, SettleResult, RetryLost, FailLost
<1>13. ASSUME NEW th, NEW w PROVE DrainQueue(th, w) => UNCHANGED workQueue
  BY DEF DrainQueue
<1>14. Sweep \/ ReadQueue \/ NextQueue \/ ScanTimeouts \/ EscalateKill \/ SettleTimeout
       => UNCHANGED workQueue
  BY DEF Sweep, ReadQueue, NextQueue, ScanTimeouts, EscalateKill, SettleTimeout
<1>15. MaybeDispatch \/ ReuseWorker \/ SpawnWorker \/ LeaveQueued \/ DropCancelled
       => UNCHANGED workQueue
  BY DEF MaybeDispatch, ReuseWorker, SpawnWorker, LeaveQueued, DropCancelled
<1>16. ASSUME NEW w PROVE CheckQueue(w) \/ Finish(w) \/ Crash(w) => UNCHANGED workQueue
  BY DEF CheckQueue, Finish, Crash
<1>17. UNCHANGED vars => UNCHANGED workQueue
  BY DEF vars
<1>18. CASE FutureMoves
  BY <1>3, <1>5, <1>10, <1>11, <1>12, <1>14, <1>15, <1>18 DEF FutureMoves
<1>19. CASE FutureIsKept
  BY <1>3, <1>6, <1>7, <1>8, <1>9, <1>10, <1>11, <1>12, <1>13, <1>14, <1>15, <1>16, <1>19
     DEF FutureIsKept, RunWorker
<1> QED
  BY <1>3, <1>17, <1>18, <1>19, NextSplits

(* A worker begins a task that has begun for its future.                  *)
LEMMA RanStep == OnlyBegunRun /\ [Next]_vars => RanHasBegun'
<1> SUFFICES ASSUME OnlyBegunRun, [Next]_vars PROVE RanHasBegun'
  OBVIOUS
<1> USE DEF taskVars, poolVars, procVars, queueVars
<1>0. FuturesType' /\ Later(future, future')
  BY FuturesStep DEF OnlyBegunRun
<1>1. CASE UNCHANGED ran
  BY <1>0, <1>1 DEF OnlyBegunRun, RanHasBegun, Later
<1>2. ASSUME NEW w \in Workers, TakeWork(w) PROVE RanHasBegun'
  <2>1. /\ workQueue[w] # <<>> /\ Head(workQueue[w]) # Stop
        /\ ran' = ran \cup {Head(workQueue[w])}
        /\ UNCHANGED future
    BY <1>2 DEF TakeWork
  <2>2. Head(workQueue[w]) \in Range(workQueue[w]) \ {Stop}
    BY <2>1, TailQueue DEF OnlyBegunRun, QueuedHasBegun
  <2>3. Head(workQueue[w]) \in Tasks => future[Head(workQueue[w])] \in Begun
    BY <2>2 DEF OnlyBegunRun, QueuedHasBegun
  <2> QED
    BY <2>1, <2>3 DEF OnlyBegunRun, RanHasBegun
<1>3. ASSUME NEW t, Submit(t) \/ Cancel(t) \/ Overdue(t) \/ HandleTimeout(t) \/ ShipTask(t)
      PROVE  UNCHANGED ran
  BY <1>3 DEF Submit, SubmitEnter, SubmitAppend, Cancel, Overdue, HandleTimeout, ShipTask
<1>4. Shutdown \/ WaitForInFlight \/ StopThreads \/ StopAllWorkers \/ JoinWorkers \/ Close
      \/ FailPendingFutures => UNCHANGED ran
  BY DEF Shutdown, WaitForInFlight, StopThreads, StopAllWorkers, JoinWorkers, Close,
         FailPendingFutures
<1>5. ASSUME NEW th
      PROVE  CheckWorkers(th) \/ ProcessResult(th) \/ DiscardQueue(th) \/ SettleResult(th)
             \/ RetryLost(th) \/ FailLost(th) => UNCHANGED ran
  BY DEF CheckWorkers, ProcessResult, DiscardQueue, SettleResult, RetryLost, FailLost
<1>6. ASSUME NEW th, NEW w PROVE DrainQueue(th, w) => UNCHANGED ran
  BY DEF DrainQueue
<1>7. Sweep \/ ReadQueue \/ NextQueue \/ ScanTimeouts \/ EscalateKill \/ SettleTimeout
      => UNCHANGED ran
  BY DEF Sweep, ReadQueue, NextQueue, ScanTimeouts, EscalateKill, SettleTimeout
<1>8. MaybeDispatch \/ ReuseWorker \/ SpawnWorker \/ ReplaceWorker \/ LeaveQueued
      \/ DropCancelled => UNCHANGED ran
  BY DEF MaybeDispatch, ReuseWorker, SpawnWorker, ReplaceWorker, LeaveQueued, DropCancelled
<1>9. ASSUME NEW w PROVE CheckQueue(w) \/ TakeStop(w) \/ Finish(w) \/ Crash(w) => UNCHANGED ran
  BY DEF CheckQueue, TakeStop, Finish, Crash
<1>10. UNCHANGED vars => UNCHANGED ran
  BY DEF vars
<1>11. CASE FutureMoves
  BY <1>1, <1>3, <1>4, <1>5, <1>7, <1>8, <1>11 DEF FutureMoves
<1>12. CASE FutureIsKept
  BY <1>1, <1>2, <1>3, <1>4, <1>5, <1>6, <1>7, <1>8, <1>9, <1>12 DEF FutureIsKept, RunWorker
<1> QED
  BY <1>1, <1>10, <1>11, <1>12, NextSplits

(* "exactly one of cancelled or dispatched wins": a cancelled task is begun *)
(* by no worker, however submits, cancels, retries and workers interleave,  *)
(* and whatever the planner decides (adaptive_executor.py 370-386).         *)
THEOREM CancelledStaysOut == Spec => []CancelledNeverRuns
<1>1. Init => OnlyBegunRun
  BY BegunAtInit
<1>2. OnlyBegunRun /\ [Next]_vars => OnlyBegunRun'
  BY FuturesStep, MarksStep, QueuesStep, RanStep DEF OnlyBegunRun
<1>3. OnlyBegunRun => CancelledNeverRuns
  BY DEF OnlyBegunRun, RanHasBegun, CancelledNeverRuns, Begun
<1> QED
  BY <1>1, <1>2, <1>3, PTL DEF Spec

-----------------------------------------------------------------------------
(* The penalty of a crash-retried task is never weakened.  What could       *)
(* weaken it is a new submit of the task, which its future excludes because *)
(* only a task that has begun can be lost in a crash, and a re-estimate,    *)
(* which passes over retried tasks.                                         *)

-----------------------------------------------------------------------------
(* Only a task that has begun is some worker's current task, and so only    *)
(* such a task is found lost.                                               *)

SlotsType == DOMAIN slot = Workers /\ \A w \in Workers : "current" \in DOMAIN slot[w]
ThreadsType ==
  DOMAIN thread = Threads /\ \A th \in Threads : {"pc", "slot", "lost"} \subseteq DOMAIN thread[th]

CurrentHasBegun ==
  \A w \in Workers :
    slot[w].current = None \/ (slot[w].current \in Tasks /\ future[slot[w].current] \in Begun)

LostHasBegun ==
  \A th \in Threads :
    /\ thread[th].lost = None \/ (thread[th].lost \in Tasks /\ future[thread[th].lost] \in Begun)
    /\ th \in Reapers /\ thread[th].pc = "lost" => thread[th].lost # None

\* The worker whose loss is examined.
DrainsWorker ==
  \A th \in Reapers : thread[th].pc = "drain" => thread[th].slot \in Workers

OnlyBegunAreLost ==
  OnlyBegunRun /\ SlotsType /\ ThreadsType /\ CurrentHasBegun /\ LostHasBegun /\ DrainsWorker

(* At the start no task is lost.                                          *)
LEMMA LostAtInit == Init => OnlyBegunAreLost
<1> SUFFICES ASSUME Init PROVE SlotsType /\ ThreadsType /\ CurrentHasBegun /\ LostHasBegun /\ DrainsWorker
  BY BegunAtInit DEF OnlyBegunAreLost
<1>1. "current" \in DOMAIN NewSlot(None) /\ NewSlot(None).current = None
  BY DEF NewSlot
<1>2. \A pc : {"pc", "slot", "lost"} \subseteq DOMAIN AtRest(pc)
              /\ AtRest(pc).lost = None /\ AtRest(pc).pc = pc
  BY DEF AtRest
<1>3. DOMAIN slot = Workers /\ \A w \in Workers : slot[w] = NewSlot(None)
  BY DEF Init
<1>4. DOMAIN thread = Threads /\ \A th \in Threads : \E pc \in {"idle", "top", "up"} : thread[th] = AtRest(pc)
  <2>1. thread = [th \in Threads |-> AtRest(CASE th = "collector" -> "idle"
                                             [] th = "dispatch"  -> "top"
                                             [] th = "caller"    -> "up")]
    BY DEF Init
  <2>2. \A th \in Threads : (CASE th = "collector" -> "idle"
                               [] th = "dispatch"  -> "top"
                               [] th = "caller"    -> "up") \in {"idle", "top", "up"}
    BY DEF Threads
  <2> QED
    BY <2>1, <2>2
<1>5. SlotsType /\ ThreadsType
  BY <1>1, <1>2, <1>3, <1>4 DEF SlotsType, ThreadsType
<1>6. CurrentHasBegun
  BY <1>1, <1>3, TasksAssumption DEF CurrentHasBegun
<1>7. LostHasBegun
  BY <1>2, <1>4, TasksAssumption DEF LostHasBegun
<1>8. DrainsWorker
  BY <1>2, <1>4 DEF DrainsWorker, Reapers
<1> QED
  BY <1>5, <1>6, <1>7, <1>8

\* A worker's current task stays, ends, or is a task that was just shipped.
LEMMA CurrentStep == OnlyBegunAreLost /\ [Next]_vars => SlotsType' /\ CurrentHasBegun'
<1> SUFFICES ASSUME OnlyBegunAreLost, [Next]_vars PROVE SlotsType' /\ CurrentHasBegun'
  OBVIOUS
<1> USE DEF taskVars, poolVars, procVars, queueVars
<1>0. FuturesType' /\ Later(future, future')
  BY FuturesStep DEF OnlyBegunAreLost, OnlyBegunRun
<1> DEFINE Ok(x) == x = None \/ (x \in Tasks /\ future'[x] \in Begun)
           Moves == /\ DOMAIN slot' = Workers
                    /\ \A w \in Workers :
                         /\ "current" \in DOMAIN slot'[w]
                         /\ slot'[w].current = slot[w].current \/ Ok(slot'[w].current)
<1>1. SUFFICES Moves
  <2>1. SlotsType'
    BY <1>1 DEF SlotsType
  <2>2. ASSUME NEW w \in Workers PROVE Ok(slot'[w].current)
    <3>1. slot'[w].current = slot[w].current \/ Ok(slot'[w].current)
      BY <1>1
    <3>2. Ok(slot[w].current)
      BY <1>0 DEF OnlyBegunAreLost, CurrentHasBegun, Later
    <3> QED
      BY <3>1, <3>2
  <2> QED
    BY <2>1, <2>2 DEF CurrentHasBegun
<1>2. DOMAIN slot = Workers /\ \A w \in Workers : "current" \in DOMAIN slot[w]
  BY DEF OnlyBegunAreLost, SlotsType
<1>3. UNCHANGED slot => Moves
  BY <1>2
<1>4. \A gpu : "current" \in DOMAIN NewSlot(gpu) /\ NewSlot(gpu).current = None
  BY DEF NewSlot
<1>5. ASSUME NEW t \in Tasks, ShipTask(t) PROVE Moves
  <2> DEFINE w == thread["dispatch"].slot
  <2>1. /\ slot' = [slot EXCEPT ![w].current = t]
        /\ future' = [future EXCEPT ![t] = IF @ = "pending" THEN "running" ELSE @]
        /\ Starts(t)
    BY <1>5 DEF ShipTask
  <2>2. future'[t] \in Begun
    BY <2>1, <1>0 DEF Starts, OnlyBegunAreLost, OnlyBegunRun, MarkedHasBegun, FuturesType, Begun
  <2> QED
    BY <1>2, <2>1, <2>2
<1>6. CASE StopAllWorkers
  BY <1>2, <1>6 DEF StopAllWorkers
<1>7. ASSUME NEW th, ProcessResult(th) PROVE Moves
  <2>1. UNCHANGED slot \/ \E w : slot' =
          [slot EXCEPT ![w].current = None, ![w].completed = @ + 1, ![w].stopped = @ \/ Recycles(w)]
    BY <1>7 DEF ProcessResult
  <2> QED
    BY <1>2, <1>3, <2>1
<1>8. ASSUME NEW th, DiscardQueue(th) PROVE Moves
  <2>1. slot' = [slot EXCEPT ![thread[th].slot].discarded = TRUE]
    BY <1>8 DEF DiscardQueue
  <2> QED
    BY <1>2, <2>1
<1>9. CASE SpawnWorker
  <2>1. slot' = [slot EXCEPT ![spawned + 1] = NewSlot(Decision.gpu)]
    BY <1>9 DEF SpawnWorker
  <2> QED
    BY <1>2, <1>4, <2>1
<1>10. CASE ReplaceWorker
  <2>1. PICK v : slot' = [slot EXCEPT ![v].stopped = TRUE, ![spawned + 1] = NewSlot(Decision.gpu)]
    BY <1>10 DEF ReplaceWorker
  <2> QED
    BY <1>2, <1>4, <2>1
<1>11. ASSUME NEW t, HandleTimeout(t) PROVE Moves
  <2>1. \/ UNCHANGED slot
        \/ \E w : slot' = [slot EXCEPT ![w].stopped = TRUE, ![w].poisoned = TRUE,
                                       ![w].current = None]
        \/ \E w : slot' = [slot EXCEPT ![w].current = None]
    BY <1>11 DEF HandleTimeout
  <2> QED
    BY <1>2, <1>3, <2>1
<1>12. ASSUME NEW t, Submit(t) \/ Cancel(t) \/ Overdue(t) PROVE UNCHANGED slot
  BY <1>12 DEF Submit, SubmitEnter, SubmitAppend, Cancel, Overdue
<1>13. Shutdown \/ WaitForInFlight \/ StopThreads \/ JoinWorkers \/ Close \/ FailPendingFutures
       => UNCHANGED slot
  BY DEF Shutdown, WaitForInFlight, StopThreads, JoinWorkers, Close, FailPendingFutures
<1>14. ASSUME NEW th
       PROVE  CheckWorkers(th) \/ SettleResult(th) \/ RetryLost(th) \/ FailLost(th)
              => UNCHANGED slot
  BY DEF CheckWorkers, SettleResult, RetryLost, FailLost
<1>15. ASSUME NEW th, NEW w PROVE DrainQueue(th, w) => UNCHANGED slot
  BY DEF DrainQueue
<1>16. Sweep \/ ReadQueue \/ NextQueue \/ ScanTimeouts \/ EscalateKill \/ SettleTimeout
       => UNCHANGED slot
  BY DEF Sweep, ReadQueue, NextQueue, ScanTimeouts, EscalateKill, SettleTimeout
<1>17. MaybeDispatch \/ ReuseWorker \/ LeaveQueued \/ DropCancelled => UNCHANGED slot
  BY DEF MaybeDispatch, ReuseWorker, LeaveQueued, DropCancelled
<1>18. ASSUME NEW w PROVE CheckQueue(w) \/ RunWorker(w) \/ Crash(w) => UNCHANGED slot
  BY DEF CheckQueue, RunWorker, TakeWork, TakeStop, Finish, Crash
<1>19. UNCHANGED vars => UNCHANGED slot
  BY DEF vars
<1>20. CASE FutureMoves
  BY <1>3, <1>5, <1>12, <1>13, <1>14, <1>16, <1>17, <1>20 DEF FutureMoves
<1>21. CASE FutureIsKept
  BY <1>3, <1>6, <1>7, <1>8, <1>9, <1>10, <1>11, <1>12, <1>13, <1>14, <1>15, <1>16, <1>17, <1>18,
     <1>21 DEF FutureIsKept
<1> QED
  BY <1>3, <1>19, <1>20, <1>21, NextSplits

\* r is the record of a thread th that examines no worker and has no lost task.
AtEase(th, r) ==
  /\ {"pc", "slot", "lost"} \subseteq DOMAIN r
  /\ r.lost = None /\ (th \in Reapers => r.pc \notin {"drain", "lost"})

\* A thread keeps its lost task, is done with it, or takes a worker's current one.
LEMMA LostStep == OnlyBegunAreLost /\ [Next]_vars => (ThreadsType /\ LostHasBegun /\ DrainsWorker)'
<1> SUFFICES ASSUME OnlyBegunAreLost, [Next]_vars 
             PROVE  (ThreadsType /\ LostHasBegun /\ DrainsWorker)'
  OBVIOUS
<1> USE DEF taskVars, poolVars, procVars, queueVars, planVars
<1>0. FuturesType' /\ Later(future, future')
  BY FuturesStep DEF OnlyBegunAreLost, OnlyBegunRun
<1> DEFINE Kept(th) == \/ thread'[th].lost \in {thread[th].lost, None}
                       \/ \E w \in Workers : thread'[th].lost = slot[w].current
           Loses(th) == \/ th \notin Reapers
                        \/ thread'[th].pc # "lost" \/ thread'[th].lost # None
                        \/ thread'[th].pc = thread[th].pc /\ thread'[th].lost = thread[th].lost
           Walks(th)  == \/ th \notin Reapers
                         \/ thread'[th].pc # "drain" \/ thread'[th].slot \in Workers
                         \/ thread'[th].pc = thread[th].pc /\ thread'[th].slot = thread[th].slot
           Parts(r) == {"pc", "slot", "lost"} \subseteq DOMAIN r
           Moves == /\ DOMAIN thread' = Threads
                    /\ \A th \in Threads : 
                         Parts(thread'[th]) /\ Kept(th) /\ Loses(th) /\ Walks(th)
<1>1. SUFFICES Moves
  <2>1. ThreadsType'
    BY <1>1 DEF ThreadsType
  <2>2. ASSUME NEW th \in Threads
        PROVE  /\ \/ thread'[th].lost = None
                  \/ thread'[th].lost \in Tasks /\ future'[thread'[th].lost] \in Begun
               /\ th \in Reapers /\ thread'[th].pc = "lost" => thread'[th].lost # None
    <3> DEFINE Ok(x) == x = None \/ (x \in Tasks /\ future'[x] \in Begun)
    <3>1. Ok(thread[th].lost)
      BY <1>0 DEF OnlyBegunAreLost, LostHasBegun, Later
    <3>2. \A w \in Workers : Ok(slot[w].current)
      BY <1>0 DEF OnlyBegunAreLost, CurrentHasBegun, Later
    <3>3. Ok(thread'[th].lost)
      BY <1>1, <3>1, <3>2
    <3>4. Loses(th) /\ (th \in Reapers /\ thread[th].pc = "lost" => thread[th].lost # None)
      BY <1>1 DEF OnlyBegunAreLost, LostHasBegun
    <3> QED
      BY <3>3, <3>4
  <2>3. DrainsWorker'
    BY <1>1 DEF DrainsWorker, OnlyBegunAreLost, Reapers
  <2> QED
    BY <2>1, <2>2, <2>3 DEF LostHasBegun
<1>2. DOMAIN thread = Threads /\ \A th \in Threads : Parts(thread[th])
  BY DEF OnlyBegunAreLost, ThreadsType
<1>3. UNCHANGED thread => Moves
  BY <1>2
<1>4. \A pc : Parts(AtRest(pc)) /\ AtRest(pc).lost = None /\ AtRest(pc).pc = pc
  BY DEF AtRest
<1>5. ASSUME NEW th, NEW r, thread' = [thread EXCEPT ![th] = r], AtEase(th, r) PROVE Moves
  BY <1>2, <1>5 DEF AtEase
<1>6. ASSUME NEW th \in Reapers PROVE Onward(th) \notin {"drain", "lost"}
  BY DEF Onward, Threads, Reapers
<1>7. ASSUME NEW th \in Threads PROVE AtEase(th, Proceed(th))
  BY <1>4, <1>6 DEF Proceed, AtEase
<1>8. CASE Shutdown \/ WaitForInFlight \/ StopThreads \/ FailPendingFutures
  <2>1. ASSUME NEW pc, thread' = [thread EXCEPT !["caller"].pc = pc], pc \notin {"drain", "lost"} PROVE Moves
    BY <1>2, <2>1
  <2>2. CASE Shutdown \/ StopThreads
    BY <2>1, <2>2 DEF Shutdown, StopThreads
  <2>3. CASE WaitForInFlight
    <3>1. (IF Quiet THEN "stop" ELSE "top") \notin {"drain", "lost"}
      OBVIOUS
    <3> QED
      BY <2>1, <2>3, <3>1 DEF WaitForInFlight
  <2>4. CASE FailPendingFutures
    <3>1. (IF wait THEN "top" ELSE "stop") \notin {"drain", "lost"}
      OBVIOUS
    <3> QED
      BY <2>1, <2>4, <3>1 DEF FailPendingFutures
  <2> QED
    BY <1>8, <2>2, <2>3, <2>4
<1>9. CASE StopAllWorkers \/ JoinWorkers \/ Close
  BY <1>2, <1>9 DEF StopAllWorkers, JoinWorkers, Close
<1>10. ASSUME NEW th \in Reapers, CheckWorkers(th) PROVE Moves
  <2> DEFINE r(S, T) == IF S = {} THEN AtRest(Onward(th))
                        ELSE [AtRest("reap") EXCEPT !.todo = S, !.dead = T]
  <2>1. thread' = [thread EXCEPT ![th] = r(Dead \cup Exited, Dead)]
    BY <1>10 DEF CheckWorkers
  <2>2. AtEase(th, r(Dead \cup Exited, Dead))
    <3>1. ASSUME NEW S, NEW T PROVE AtEase(th, r(S, T))
      BY <1>4, <1>6 DEF AtEase
    <3> QED
      BY <3>1
  <2> QED
    BY <1>5, <2>1, <2>2
<1>11. ASSUME NEW th, ProcessResult(th) PROVE Moves
  <2>1. PICK q, hand : thread' = [thread EXCEPT ![th].buf = q, ![th].hand = hand]
    BY <1>11 DEF ProcessResult
  <2> QED
    BY <1>2, <2>1
<1>12. ASSUME NEW th, SettleResult(th) PROVE Moves
  BY <1>2, <1>12 DEF SettleResult
<1>13. ASSUME NEW th, NEW w \in Workers, DrainQueue(th, w) PROVE Moves
  BY <1>2, <1>13 DEF DrainQueue
<1>14. ASSUME NEW th \in Reapers, RetryLost(th) \/ FailLost(th) PROVE Moves
  <2>1. thread' = [thread EXCEPT ![th] = Proceed(th)]
    BY <1>14 DEF RetryLost, FailLost
  <2> QED
    BY <1>5, <1>7, <2>1 DEF Reapers
<1>15. ASSUME NEW th \in Reapers, DiscardQueue(th) PROVE Moves
  <2> DEFINE w == thread[th].slot
  <2>1. w \in Workers
    BY <1>15 DEF DiscardQueue, Drained, OnlyBegunAreLost, DrainsWorker
  <2>2. CASE thread' = [thread EXCEPT ![th] = Proceed(th)]
    BY <1>5, <1>7, <2>2 DEF Reapers
  <2>3. CASE /\ slot[w].current # None
             /\ thread' = [thread EXCEPT ![th] = [@ EXCEPT !.pc = "lost", !.lost = slot[w].current]]
    BY <1>2, <2>1, <2>3
  <2> QED
    BY <1>15, <2>2, <2>3 DEF DiscardQueue
<1>16. CASE Sweep \/ ReadQueue
  BY <1>2, <1>16 DEF Sweep, ReadQueue, Reapers
<1>17. CASE NextQueue
  <2> DEFINE r(pc, S) == [AtRest(pc) EXCEPT !.todo = S]
  <2>1. PICK pc, S : thread' = [thread EXCEPT !["collector"] = r(pc, S)]
    BY <1>17 DEF NextQueue
  <2>2. AtEase("collector", r(pc, S))
    BY <1>4 DEF AtEase, Reapers
  <2> QED
    BY <1>5, <2>1, <2>2
<1>18. ASSUME NEW w, CheckQueue(w) PROVE Moves
  BY <1>2, <1>18 DEF CheckQueue
<1>19. CASE MaybeDispatch
  <2>1. PICK decisions : thread' = [thread EXCEPT !["dispatch"].pc =
                                      IF decisions = <<>> THEN "top" ELSE "ship"]
    BY <1>19 DEF MaybeDispatch
  <2> QED
    BY <1>2, <2>1
<1>20. CASE ReuseWorker \/ SpawnWorker \/ ReplaceWorker
  <2>1. \E w : thread' = [thread EXCEPT !["dispatch"].slot = w]
    BY <1>20 DEF ReuseWorker, SpawnWorker, ReplaceWorker, Spawn, Secure
  <2>2. thread["dispatch"].pc = "ship"
    BY <1>20 DEF ReuseWorker, SpawnWorker, ReplaceWorker, Securing
  <2> QED
    BY <1>2, <2>1, <2>2
<1>21. CASE LeaveQueued \/ DropCancelled \/ \E t \in Tasks : ShipTask(t)
  <2>1. thread' = [thread EXCEPT !["dispatch"] = AtRest(IF Len(plan) = 1 THEN "top" ELSE "ship")]
    BY <1>21 DEF LeaveQueued, DropCancelled, ShipTask, NextDecision
  <2>2. AtEase("dispatch", AtRest(IF Len(plan) = 1 THEN "top" ELSE "ship"))
    BY <1>4 DEF AtEase, Reapers
  <2> QED
    BY <1>5, <2>1, <2>2
<1>22. ASSUME NEW t, Submit(t) \/ Cancel(t) \/ Overdue(t) \/ HandleTimeout(t)
       PROVE  UNCHANGED thread
  BY <1>22 DEF Submit, SubmitEnter, SubmitAppend, Cancel, Overdue, HandleTimeout
<1>23. ScanTimeouts \/ EscalateKill \/ SettleTimeout => UNCHANGED thread
  BY DEF ScanTimeouts, EscalateKill, SettleTimeout
<1>24. ASSUME NEW w PROVE RunWorker(w) \/ Crash(w) => UNCHANGED thread
  BY DEF RunWorker, TakeWork, TakeStop, Finish, Crash
<1>25. UNCHANGED vars => UNCHANGED thread
  BY DEF vars
<1>26. CASE FutureMoves
  BY <1>3, <1>8, <1>12, <1>14, <1>19, <1>21, <1>22, <1>23, <1>26 DEF FutureMoves
<1>27. CASE FutureIsKept
  BY <1>3, <1>8, <1>9, <1>10, <1>11, <1>13, <1>14, <1>15, <1>16, <1>17, <1>18, <1>20, <1>21,
     <1>22,
     <1>23, <1>24, <1>27 DEF FutureIsKept
<1> QED
  BY <1>3, <1>25, <1>26, <1>27, NextSplits

-----------------------------------------------------------------------------
(* What a task weighs: its estimate, its retries, whether it must be alone. *)

Weighed(w) ==
  /\ {"est", "retries", "excl"} \subseteq DOMAIN w /\ "mem" \in DOMAIN w.est
  /\ w.est.mem \in Nat /\ w.retries \in Nat

ProfileType == profile \in [Fns -> [samples : 0 .. 1, floor : Nat \cup {None}]]

WorkWeighed == DOMAIN work = Tasks /\ \A t \in Tasks : Weighed(work[t])

\* A retried task has begun, and it will be alone.
RetriedIsPenalized ==
  \A t \in Tasks : work[t].retries > 0 => future[t] \in Begun /\ work[t].excl

PenaltyInv == OnlyBegunAreLost /\ ProfileType /\ WorkWeighed /\ RetriedIsPenalized

\* The ways a task's record changes from v to w: what weighs stays, the task is estimated
\* before its first retry, or it is penalized.
SameWeight(v, w) == w.est = v.est /\ w.retries = v.retries /\ w.excl = v.excl
Estimated(v, w) == v.retries = 0 /\ w.retries = 0
Heavier(v, w) == w.est.mem = 2 * v.est.mem /\ w.retries = v.retries + 1 /\ w.excl = TRUE

(* An estimate's memory is a number.                                      *)
LEMMA EstimateIsNat ==
  ASSUME ProfileType, NEW t \in Tasks
  PROVE  "mem" \in DOMAIN Estimate(t) /\ Estimate(t).mem \in Nat
<1> DEFINE prof == profile[Fn[t]]
           base == IF prof.samples > 0 THEN Learned[t] ELSE Unlearned[t]
<1>1. prof.floor \in Nat \cup {None}
  BY DEF ProfileType, Fns
<1>2. base \in EstimateType
  BY EstimatesAssumption
<1>3. "mem" \in DOMAIN base /\ base.mem \in Nat
  BY <1>2 DEF EstimateType
<1>4. (IF prof.floor = None THEN base.mem ELSE Larger(base.mem, prof.floor)) \in Nat
  BY <1>1, <1>3 DEF Larger
<1>5. Estimate(t) = [base EXCEPT !.mem = IF prof.floor = None THEN base.mem
                                         ELSE Larger(base.mem, prof.floor)]
  BY DEF Estimate
<1> QED
  BY <1>3, <1>4, <1>5

(* A new task's record carries no penalty.                                *)
LEMMA NewWorkIsWeighed ==
  ASSUME ProfileType, NEW t \in Tasks
  PROVE  Weighed(NewWork(t)) /\ NewWork(t).retries = 0
BY EstimateIsNat DEF Weighed, NewWork

(* At the start no task carries a penalty.                                *)
LEMMA PenaltyAtInit == Init => PenaltyInv
<1> SUFFICES ASSUME Init PROVE PenaltyInv
  OBVIOUS
<1>1. ProfileType
  BY DEF Init, ProfileType
<1>2. WorkWeighed
  BY <1>1, NewWorkIsWeighed DEF Init, WorkWeighed
<1>3. RetriedIsPenalized
  BY <1>1, NewWorkIsWeighed DEF Init, RetriedIsPenalized
<1> QED
  BY <1>1, <1>2, <1>3, LostAtInit DEF PenaltyInv

(* Every step keeps the profiles' type.                                   *)
LEMMA ProfileStep == PenaltyInv /\ [Next]_vars => ProfileType'
<1> SUFFICES ASSUME PenaltyInv, [Next]_vars PROVE ProfileType'
  OBVIOUS
<1> USE DEF taskVars, poolVars, procVars, queueVars, planVars
<1>1. UNCHANGED profile => ProfileType'
  BY DEF PenaltyInv, ProfileType
<1>2. ASSUME NEW th, SettleResult(th) PROVE ProfileType'
  <2>1. profile' = [profile EXCEPT ![Fn[thread[th].hand.task]].samples = 1]
    BY <1>2 DEF SettleResult
  <2> DEFINE f == Fn[thread[th].hand.task]
  <2>2. f \in Fns => [profile[f] EXCEPT !.samples = 1] \in [samples : 0 .. 1, floor : Nat \cup {None}]
    BY DEF PenaltyInv, ProfileType
  <2> QED
    BY <2>1, <2>2 DEF PenaltyInv, ProfileType
<1>3. ASSUME NEW th \in Reapers, RetryLost(th) PROVE ProfileType'
  <2> DEFINE t == thread[th].lost
             f == Fn[t]
  <2>1. profile' = [profile EXCEPT ![f] = FloorRaised(@, work[t].est.mem)]
    BY <1>3 DEF RetryLost
  <2>2. t \in Tasks
    BY <1>3 DEF RetryLost, PenaltyInv, OnlyBegunAreLost, LostHasBegun, Reapers
  <2>3. f \in Fns /\ work[t].est.mem \in Nat
    BY <2>2 DEF Fns, PenaltyInv, WorkWeighed, Weighed
  <2>4. profile[f] \in [samples : 0 .. 1, floor : Nat \cup {None}]
    BY <2>3 DEF PenaltyInv, ProfileType
  <2>5. FloorRaised(profile[f], work[t].est.mem) \in [samples : 0 .. 1, floor : Nat \cup {None}]
    BY <2>3, <2>4 DEF FloorRaised, Larger
  <2> QED
    BY <2>1, <2>5 DEF PenaltyInv, ProfileType
<1>4. ASSUME NEW t, \/ Submit(t) \/ Cancel(t) \/ Overdue(t) \/ HandleTimeout(t) \/ ShipTask(t)
      PROVE  UNCHANGED profile
  BY <1>4 DEF Submit, SubmitEnter, SubmitAppend, Cancel, Overdue, HandleTimeout, ShipTask
<1>5. Shutdown \/ WaitForInFlight \/ StopThreads \/ StopAllWorkers \/ JoinWorkers \/ Close
      \/ FailPendingFutures => UNCHANGED profile
  BY DEF Shutdown, WaitForInFlight, StopThreads, StopAllWorkers, JoinWorkers, Close,
         FailPendingFutures
<1>6. ASSUME NEW th
      PROVE  CheckWorkers(th) \/ ProcessResult(th) \/ DiscardQueue(th) \/ FailLost(th)
             => UNCHANGED profile
  BY DEF CheckWorkers, ProcessResult, DiscardQueue, FailLost
<1>7. ASSUME NEW th, NEW w PROVE DrainQueue(th, w) => UNCHANGED profile
  BY DEF DrainQueue
<1>8. Sweep \/ ReadQueue \/ NextQueue \/ ScanTimeouts \/ EscalateKill \/ SettleTimeout
      => UNCHANGED profile
  BY DEF Sweep, ReadQueue, NextQueue, ScanTimeouts, EscalateKill, SettleTimeout
<1>9. MaybeDispatch \/ ReuseWorker \/ SpawnWorker \/ ReplaceWorker \/ LeaveQueued
      \/ DropCancelled => UNCHANGED profile
  BY DEF MaybeDispatch, ReuseWorker, SpawnWorker, ReplaceWorker, LeaveQueued, DropCancelled
<1>10. ASSUME NEW w PROVE CheckQueue(w) \/ RunWorker(w) \/ Crash(w) => UNCHANGED profile
  BY DEF CheckQueue, RunWorker, TakeWork, TakeStop, Finish, Crash
<1>11. UNCHANGED vars => UNCHANGED profile
  BY DEF vars
<1>12. CASE FutureMoves
  BY <1>1, <1>2, <1>4, <1>5, <1>6, <1>8, <1>9, <1>12 DEF FutureMoves
<1>13. CASE FutureIsKept
  BY <1>1, <1>3, <1>4, <1>5, <1>6, <1>7, <1>8, <1>9, <1>10, <1>13 DEF FutureIsKept
<1> QED
  BY <1>1, <1>11, <1>12, <1>13, NextSplits

\* How one step changes what a task weighs.
Reweighed(t) ==
  \/ SameWeight(work[t], work'[t])
  \/ future[t] = "new" /\ work'[t].retries = 0 /\ future'[t] # "new"
  \/ Estimated(work[t], work'[t])
  \/ Heavier(work[t], work'[t]) /\ future[t] \in Begun

(* Every step keeps what a retried task weighs, or adds to it.            *)
LEMMA WorkStep ==
  PenaltyInv /\ [Next]_vars => WorkWeighed' /\ \A t \in Tasks : Reweighed(t)
<1> SUFFICES ASSUME PenaltyInv, [Next]_vars
             PROVE  WorkWeighed' /\ \A t \in Tasks : Reweighed(t)
  OBVIOUS
<1> USE DEF taskVars, poolVars, procVars, queueVars, planVars
<1> DEFINE Goal == WorkWeighed' /\ \A t \in Tasks : Reweighed(t)
           Rest(w) == {"est", "retries", "excl"} \subseteq DOMAIN w
<1>1. DOMAIN work = Tasks /\ \A t \in Tasks : Weighed(work[t])
  BY DEF PenaltyInv, WorkWeighed
<1>2. UNCHANGED work => Goal
  BY <1>1 DEF WorkWeighed, Reweighed, SameWeight
<1>3. ASSUME DOMAIN work' = Tasks,
             \A t \in Tasks : Rest(work'[t]) /\ SameWeight(work[t], work'[t])
      PROVE  Goal
  BY <1>1, <1>3 DEF WorkWeighed, Weighed, Reweighed, SameWeight
<1>4. ASSUME NEW t \in Tasks, SubmitEnter(t) PROVE Goal
  <2>1. /\ future[t] = "new" /\ work' = [work EXCEPT ![t] = NewWork(t)]
        /\ future' = [future EXCEPT ![t] = IF Infeasible(Estimate(t)) THEN "rejected"
                                           ELSE "entering"]
    BY <1>4 DEF SubmitEnter
  <2>2. Weighed(NewWork(t)) /\ NewWork(t).retries = 0
    BY NewWorkIsWeighed DEF PenaltyInv
  <2>3. WorkWeighed'
    BY <1>1, <2>1, <2>2 DEF WorkWeighed
  <2>4. ASSUME NEW u \in Tasks PROVE Reweighed(u)
    <3>1. CASE u = t
      BY <1>1, <2>1, <2>2, <3>1
         DEF Reweighed, PenaltyInv, OnlyBegunAreLost, OnlyBegunRun, FuturesType
    <3>2. CASE u # t
      BY <1>1, <2>1, <3>2 DEF Reweighed, SameWeight
    <3> QED
      BY <3>1, <3>2
  <2> QED
    BY <2>3, <2>4
<1>5. ASSUME NEW t \in Tasks, SubmitAppend(t) PROVE Goal
  <2>1. \E b : work' = [work EXCEPT ![t].late = b]
    BY <1>5 DEF SubmitAppend
  <2> QED
    BY <1>1, <1>3, <2>1 DEF Weighed, SameWeight
<1>6. ASSUME NEW t \in Tasks, HandleTimeout(t) PROVE Goal
  <2>1. UNCHANGED work \/ work' = [work EXCEPT ![t].ignored = TRUE]
    BY <1>6 DEF HandleTimeout
  <2> QED
    BY <1>1, <1>2, <1>3, <2>1 DEF Weighed, SameWeight
<1>7. ASSUME NEW t \in Tasks, ShipTask(t) PROVE Goal
  <2>1. \E g, w : work' = [work EXCEPT ![t].notified = TRUE, ![t].gpu = g, ![t].worker = w]
    BY <1>7 DEF ShipTask
  <2> QED
    BY <1>1, <1>3, <2>1 DEF Weighed, SameWeight
<1>8. ASSUME NEW th \in Reapers, RetryLost(th) PROVE Goal
  <2> DEFINE t == thread[th].lost
  <2>1. work' = [work EXCEPT ![t] = Retried(@)]
    BY <1>8 DEF RetryLost
  <2>2. t \in Tasks /\ future[t] \in Begun
    BY <1>8 DEF RetryLost, PenaltyInv, OnlyBegunAreLost, LostHasBegun, Reapers
  <2> DEFINE p == Penalized(work[t])
  <2>3. /\ Weighed(p) /\ p.est.mem = 2 * work[t].est.mem
        /\ p.retries = work[t].retries /\ p.excl = TRUE
    <3>1. Weighed(work[t])
      BY <1>1, <2>2
    <3>2. 2 * work[t].est.mem \in Nat
      BY <3>1 DEF Weighed
    <3>3. /\ {"est", "retries", "excl"} \subseteq DOMAIN p /\ "mem" \in DOMAIN p.est
          /\ p.est.mem = 2 * work[t].est.mem /\ p.retries = work[t].retries /\ p.excl = TRUE
      BY <3>1 DEF Weighed, Penalized
    <3> QED
      BY <3>1, <3>2, <3>3 DEF Weighed
  <2>4. work'[t] = [p EXCEPT !.retries = @ + 1, !.gpu = None, !.worker = None, !.ignored = FALSE]
    <3>1. work'[t] = Retried(work[t])
      BY <1>1, <2>1, <2>2
    <3> QED
      BY <3>1, Zenon DEF Retried
  <2>5. Weighed(work'[t]) /\ Heavier(work[t], work'[t])
    <3> HIDE DEF p
    <3>1. {"est", "retries", "excl"} \subseteq DOMAIN p /\ "mem" \in DOMAIN p.est
          /\ p.est.mem \in Nat /\ p.retries \in Nat
      BY <2>3 DEF Weighed
    <3>2. /\ DOMAIN work'[t] = DOMAIN p /\ work'[t].est = p.est
          /\ work'[t].retries = p.retries + 1
      BY <2>4, <3>1
    <3>3. work'[t].excl = p.excl
      BY <2>4, <3>1
    <3>4. Weighed(work'[t])
      BY <3>1, <3>2 DEF Weighed
    <3> QED
      BY <2>3, <3>2, <3>3, <3>4 DEF Heavier
  <2> QED
    BY <1>1, <2>1, <2>2, <2>5 DEF WorkWeighed, Reweighed, SameWeight
<1>9. CASE MaybeDispatch
  <2>1. PICK S, q : /\ S \subseteq {t \in Range(pending) : Stale(t)}
                    /\ work' = Planned(Reestimated(S), q)
    BY <1>9 DEF MaybeDispatch
  <2>2. ASSUME NEW t \in Tasks
        PROVE  /\ Weighed(Reestimated(S)[t])
               /\ \/ SameWeight(work[t], Reestimated(S)[t])
                  \/ Estimated(work[t], Reestimated(S)[t])
    <3>1. CASE t \in S
      <4>1. work[t].retries = 0
        BY <2>1, <3>1 DEF Stale
      <4> QED
        BY <1>1, <3>1, <4>1, EstimateIsNat DEF Reestimated, Weighed, Estimated, PenaltyInv
    <3>2. CASE t \notin S
      BY <1>1, <3>2 DEF Reestimated, SameWeight
    <3> QED
      BY <3>1, <3>2
  <2>3. ASSUME NEW t \in Tasks
        PROVE  Rest(work'[t]) /\ SameWeight(Reestimated(S)[t], work'[t])
    BY <2>1, <2>2 DEF Planned, Weighed, SameWeight
  <2>4. DOMAIN work' = Tasks
    BY <2>1 DEF Planned
  <2> QED
    BY <2>2, <2>3, <2>4 DEF WorkWeighed, Weighed, Reweighed, SameWeight, Estimated
<1>10. ASSUME NEW t PROVE Cancel(t) \/ Overdue(t) => UNCHANGED work
  BY DEF Cancel, Overdue
<1>11. Shutdown \/ WaitForInFlight \/ StopThreads \/ StopAllWorkers \/ JoinWorkers \/ Close
       \/ FailPendingFutures => UNCHANGED work
  BY DEF Shutdown, WaitForInFlight, StopThreads, StopAllWorkers, JoinWorkers, Close,
         FailPendingFutures
<1>12. ASSUME NEW th
       PROVE  CheckWorkers(th) \/ ProcessResult(th) \/ DiscardQueue(th) \/ SettleResult(th)
              \/ FailLost(th) => UNCHANGED work
  BY DEF CheckWorkers, ProcessResult, DiscardQueue, SettleResult, FailLost
<1>13. ASSUME NEW th, NEW w PROVE DrainQueue(th, w) => UNCHANGED work
  BY DEF DrainQueue
<1>14. Sweep \/ ReadQueue \/ NextQueue \/ ScanTimeouts \/ EscalateKill \/ SettleTimeout
       => UNCHANGED work
  BY DEF Sweep, ReadQueue, NextQueue, ScanTimeouts, EscalateKill, SettleTimeout
<1>15. ReuseWorker \/ SpawnWorker \/ ReplaceWorker \/ LeaveQueued \/ DropCancelled
       => UNCHANGED work
  BY DEF ReuseWorker, SpawnWorker, ReplaceWorker, LeaveQueued, DropCancelled
<1>16. ASSUME NEW w PROVE CheckQueue(w) \/ RunWorker(w) \/ Crash(w) => UNCHANGED work
  BY DEF CheckQueue, RunWorker, TakeWork, TakeStop, Finish, Crash
<1>17. UNCHANGED vars => UNCHANGED work
  BY DEF vars
<1>18. CASE FutureMoves
  BY <1>2, <1>4, <1>5, <1>7, <1>9, <1>10, <1>11, <1>12, <1>14, <1>18 DEF FutureMoves, Submit
<1>19. CASE FutureIsKept
  BY <1>2, <1>6, <1>8, <1>10, <1>11, <1>12, <1>13, <1>14, <1>15, <1>16, <1>19 DEF FutureIsKept
<1> QED
  BY <1>2, <1>17, <1>18, <1>19, NextSplits

(* A step keeps the penalties, and weakens none of them.                  *)
LEMMA PenaltyStep ==
  ASSUME PenaltyInv, [Next]_vars
  PROVE  /\ PenaltyInv'
         /\ \A t \in Tasks : work[t].retries > 0 =>
              /\ work'[t].retries > 0 /\ work'[t].excl
              /\ work'[t].est.mem >= work[t].est.mem
<1>1. WorkWeighed' /\ \A t \in Tasks : Weighed(work[t]) /\ Weighed(work'[t]) /\ Reweighed(t)
  BY WorkStep DEF PenaltyInv, WorkWeighed
<1>2. OnlyBegunAreLost'
  BY FuturesStep, MarksStep, QueuesStep, RanStep, CurrentStep, LostStep
     DEF PenaltyInv, OnlyBegunAreLost, OnlyBegunRun
<1>3. FuturesType /\ Later(future, future')
  BY FuturesStep DEF PenaltyInv, OnlyBegunAreLost, OnlyBegunRun
<1>4. ASSUME NEW t \in Tasks, work'[t].retries > 0 PROVE future'[t] \in Begun /\ work'[t].excl
  <2>1. work[t].retries > 0 => future[t] \in Begun /\ work[t].excl
    BY DEF PenaltyInv, RetriedIsPenalized
  <2>2. CASE SameWeight(work[t], work'[t])
    BY <1>3, <1>4, <2>1, <2>2 DEF SameWeight, Later
  <2>3. CASE Heavier(work[t], work'[t]) /\ future[t] \in Begun
    <3>1. work'[t].excl = TRUE
      BY <2>3 DEF Heavier
    <3>2. future'[t] \in Begun
      BY <1>3, <2>3 DEF Later
    <3> QED
      BY <3>1, <3>2
  <2> QED
    BY <1>1, <1>4, <2>2, <2>3 DEF Reweighed, Estimated
<1>5. ASSUME NEW t \in Tasks, work[t].retries > 0
      PROVE  /\ work'[t].retries > 0 /\ work'[t].excl
             /\ work'[t].est.mem >= work[t].est.mem
  <2>1. future[t] # "new" /\ work[t].excl
    BY <1>5 DEF PenaltyInv, RetriedIsPenalized, Begun, Settled
  <2>2. CASE SameWeight(work[t], work'[t])
    BY <1>1, <1>5, <2>1, <2>2 DEF SameWeight, Weighed
  <2>3. CASE Heavier(work[t], work'[t])
    <3>1. work'[t].excl = TRUE
      BY <2>3 DEF Heavier
    <3>2. work'[t].retries > 0 /\ work'[t].est.mem >= work[t].est.mem
      BY <1>1, <2>3 DEF Heavier, Weighed
    <3> QED
      BY <3>1, <3>2
  <2> QED
    BY <1>1, <1>5, <2>1, <2>2, <2>3 DEF Reweighed, Estimated
<1>6. PenaltyInv'
  BY <1>1, <1>2, <1>4, ProfileStep DEF PenaltyInv, RetriedIsPenalized
<1> QED
  BY <1>5, <1>6

(* The penalties hold in every reachable state.                           *)
LEMMA PenaltyInvariant == Spec => []PenaltyInv
<1>1. PenaltyInv /\ [Next]_vars => PenaltyInv'
  BY PenaltyStep
<1> QED
  BY <1>1, PenaltyAtInit, PTL DEF Spec

(* A crash penalty is never weakened, for every number of siblings,         *)
(* retries and crashes, whatever the profile learns meanwhile and whatever  *)
(* the planner decides (adaptive_executor.py 408-456, "guarantees").        *)
THEOREM PenaltyIsForGood == Spec => PenaltyIsKept
<1>1. PenaltyInv /\ [Next]_vars => [\A t \in Tasks : work[t].retries > 0 =>
                                     /\ work'[t].retries > 0 /\ work'[t].excl
                                     /\ work'[t].est.mem >= work[t].est.mem]_vars
  BY PenaltyStep
<1> QED
  BY <1>1, PenaltyInvariant, PTL DEF Spec, PenaltyIsKept

-----------------------------------------------------------------------------
(* Types, in the parts the steps of the proof are about.                    *)

WorkType == work \in [Tasks -> PendingWorkType]
QueueType == Queue(pending) /\ Range(pending) \subseteq Tasks /\ inFlight \subseteq Tasks
Seen == 1 .. spawned
PoolType == spawned \in 0 .. MaxSpawns /\ pool \subseteq Seen /\ retiring \subseteq Seen
SlotFits == slot \in [Workers -> SlotType]
ProcFits == proc \in [Workers -> ProcType]
PipesType ==
  workQueue \in [Workers -> Seq(Tasks \cup {Stop})] /\ resultQueue \in [Workers -> Seq(ResultType)]
PlanType == plan \in Seq([task : Tasks, gpu : Gpus \cup {None}]) /\ rr \in 0 .. Len(GpuOrder)
TimerType ==
  timer \in [todo : SUBSET Tasks, task : Tasks \cup {None}, victim : Seen \cup {None}]
FlagsType ==
  /\ overdue \subseteq Tasks /\ ran \subseteq Tasks /\ crashes \in 0 .. MaxCrashes
  /\ accepting \in BOOLEAN /\ stopping \in BOOLEAN /\ wait \in BOOLEAN
  /\ onTimeout \in {"fail_future", "kill_worker"}

\* Where a thread may be.
Pcs(th) ==
  CASE th = "collector" -> {"idle", "sweep", "read", "drain"}
    [] th = "dispatch"  -> {"top", "reap", "drain", "lost", "plan", "ship"}
    [] th = "caller"    -> {"up", "failing", "top", "reap", "drain", "lost", "check", "stop",
                            "stopAll", "join", "close", "closed"}

\* r holds no more than its pc calls for: a result to settle and a buffer while it drains, a
\* lost task while it looks into one, workers to visit while it reaps.
ThreadFits(th, r) ==
  /\ r.pc \in Pcs(th)
  /\ r.pc # "drain" => r.hand = None /\ r.buf = <<>>
  /\ r.lost # None <=> r.pc = "lost"
  /\ r.pc \in {"read", "drain"} => r.slot # None
  /\ r.pc \notin {"sweep", "read", "reap", "drain", "lost"} => r.todo = {} /\ r.dead = {}
  /\ th = "collector" => r.dead = {}

\* n workers were ever spawned.
ThreadSees(r, n) ==
  r.todo \subseteq 1 .. n /\ r.dead \subseteq 1 .. n /\ r.slot \in 1 .. n \cup {None}

ThreadInv ==
  /\ thread \in [Threads -> ThreadType]
  /\ \A th \in Threads : ThreadFits(th, thread[th]) /\ ThreadSees(thread[th], spawned)
  /\ plan # <<>> <=> thread["dispatch"].pc = "ship"

TypeInv ==
  /\ FuturesType /\ WorkType /\ QueueType /\ PoolType /\ SlotFits /\ ProcFits /\ PipesType
  /\ ProfileType /\ PlanType /\ TimerType /\ FlagsType /\ ThreadInv

-----------------------------------------------------------------------------
(* The records the actions build.                                           *)

(* An estimate is one, floor and margin included.                         *)
LEMMA EstimateFits ==
  ASSUME ProfileType, NEW t \in Tasks
  PROVE  Estimate(t) \in EstimateType
<1> DEFINE prof == profile[Fn[t]]
           base == IF prof.samples > 0 THEN Learned[t] ELSE Unlearned[t]
           mem == IF prof.floor = None THEN base.mem ELSE Larger(base.mem, prof.floor)
<1>1. prof.floor \in Nat \cup {None}
  BY DEF ProfileType, Fns
<1>2. base \in EstimateType
  BY EstimatesAssumption
<1>3. mem \in Nat
  BY <1>1, <1>2 DEF Larger, EstimateType
<1>4. Estimate(t) = [base EXCEPT !.mem = mem]
  BY DEF Estimate
<1> HIDE DEF base, mem
<1> QED
  BY <1>2, <1>3, <1>4 DEF EstimateType

(* The record of a new task.                                              *)
LEMMA NewWorkFits ==
  ASSUME ProfileType, NEW t \in Tasks
  PROVE  NewWork(t) \in PendingWorkType
<1>1. Fn[t] \in Fns
  BY DEF Fns
<1>2. profile[Fn[t]].samples \in 0 .. 1 /\ profile[Fn[t]].floor \in Nat \cup {None}
  BY <1>1 DEF ProfileType
<1>3. Estimate(t) \in EstimateType /\ 0 \in 0 .. MaxRetries
  BY EstimateFits, BoundsAssumption
<1> QED
  BY <1>2, <1>3 DEF NewWork, PendingWorkType

(* The record of a task that is queued again after a crash.               *)
LEMMA RetriedFits ==
  ASSUME NEW w \in PendingWorkType, w.retries < MaxRetries
  PROVE  Retried(w) \in PendingWorkType
<1> DEFINE est == [w.est EXCEPT !.mem = 2 * w.est.mem, !.vram = 2 * w.est.vram, !.dur = None]
<1>1. w.est \in EstimateType /\ w.retries \in 0 .. MaxRetries
  BY DEF PendingWorkType
<1>2. 2 * w.est.mem \in Nat /\ 2 * w.est.vram \in Nat /\ w.est.cpu \in Nat
  BY <1>1 DEF EstimateType
<1>3. est \in EstimateType
  BY <1>1, <1>2 DEF EstimateType
<1>4. w.retries + 1 \in 0 .. MaxRetries
  BY <1>1, BoundsAssumption
<1> HIDE DEF est
<1>5. Penalized(w) = [w EXCEPT !.est = est, !.excl = TRUE]
  BY DEF Penalized, est, PendingWorkType
<1>6. Penalized(w) \in PendingWorkType /\ Penalized(w).retries = w.retries
  BY <1>3, <1>5 DEF PendingWorkType
<1> QED
  BY <1>4, <1>6 DEF Retried, PendingWorkType

(* The slot of a new worker.                                              *)
LEMMA SpawnedSlotFits ==
  ASSUME NEW gpu \in Gpus \cup {None}
  PROVE  NewSlot(gpu) \in SlotType
BY DEF NewSlot, SlotType

\* A thread at rest has nothing in hand and nobody to visit.
LEMMA RestFits ==
  ASSUME NEW th \in Threads, NEW pc \in Pcs(th) \ {"read", "drain", "lost", "reap"}
  PROVE  AtRest(pc) \in ThreadType /\ ThreadFits(th, AtRest(pc))
<1>1. pc \in {"idle", "sweep", "read", "drain", "top", "reap", "lost", "plan", "ship", "up",
              "failing", "check", "stop", "stopAll", "join", "close", "closed"}
  BY DEF Pcs, Threads
<1>2. AtRest(pc) \in ThreadType
  BY <1>1 DEF AtRest, ThreadType
<1>3. ThreadFits(th, AtRest(pc))
  BY <1>1 DEF AtRest, ThreadFits
<1> QED
  BY <1>2, <1>3

(* A thread at rest knows no worker.                                      *)
LEMMA RestSees ==
  ASSUME NEW pc, NEW n \in Nat
  PROVE  ThreadSees(AtRest(pc), n)
BY DEF AtRest, ThreadSees

(* The parts amount to the type invariant that the runs check.            *)
LEMMA TypesAreKept == TypeInv => TypeOK
<1> SUFFICES ASSUME TypeInv PROVE TypeOK
  OBVIOUS
<1>1. Seen \subseteq Workers
  BY BoundsAssumption DEF TypeInv, PoolType, Seen, Workers
<1>2. pending \in Seq(Tasks)
  BY SeqMonotonic DEF TypeInv, QueueType, Queue
<1>3. timer \in [todo : SUBSET Tasks, task : Tasks \cup {None}, victim : Workers \cup {None}]
  BY <1>1 DEF TypeInv, TimerType
<1>4. pool \subseteq Workers /\ retiring \subseteq Workers /\ spawned \in 0 .. MaxSpawns
  BY <1>1 DEF TypeInv, PoolType
<1>5. plan # <<>> <=> thread["dispatch"].pc = "ship"
  BY DEF TypeInv, ThreadInv
<1>6. thread \in [Threads -> ThreadType]
  BY DEF TypeInv, ThreadInv
<1>7. /\ future \in [Tasks -> Outcomes] /\ work \in [Tasks -> PendingWorkType]
      /\ inFlight \subseteq Tasks
      /\ slot \in [Workers -> SlotType] /\ proc \in [Workers -> ProcType]
  BY DEF TypeInv, FuturesType, WorkType, QueueType, SlotFits, ProcFits
<1>8. /\ workQueue \in [Workers -> Seq(Tasks \cup {Stop})]
      /\ resultQueue \in [Workers -> Seq(ResultType)]
      /\ profile \in [Fns -> [samples : 0 .. 1, floor : Nat \cup {None}]]
      /\ plan \in Seq([task : Tasks, gpu : Gpus \cup {None}]) /\ rr \in 0 .. Len(GpuOrder)
  BY DEF TypeInv, PipesType, ProfileType, PlanType
<1>9. FlagsType
  BY DEF TypeInv
<1> QED
  BY <1>2, <1>3, <1>4, <1>5, <1>6, <1>7, <1>8, <1>9 DEF TypeOK, FlagsType

(* The types hold at the start.                                           *)
LEMMA TypesAtInit == Init => TypeInv
<1> SUFFICES ASSUME Init PROVE TypeInv
  OBVIOUS
<1>1. FuturesType
  BY DEF Init, FuturesType, Outcomes
<1>2. ProfileType
  BY DEF Init, ProfileType
<1>3. WorkType
  BY <1>2, NewWorkFits DEF Init, WorkType
<1>4. QueueType
  BY EmptyQueue DEF Init, QueueType
<1>5. PoolType
  BY BoundsAssumption DEF Init, PoolType
<1>6. SlotFits
  BY SpawnedSlotFits DEF Init, SlotFits
<1>7. ProcFits
  BY DEF Init, ProcFits, ProcType
<1>8. PipesType
  BY DEF Init, PipesType
<1>9. PlanType
  BY DEF Init, PlanType
<1>10. TimerType
  BY DEF Init, TimerType
<1>11. FlagsType
  <2>1. overdue \subseteq Tasks /\ ran \subseteq Tasks /\ onTimeout \in {"fail_future", "kill_worker"}
    BY ModesAssumption DEF Init
  <2>2. crashes \in 0 .. MaxCrashes
    BY BoundsAssumption DEF Init
  <2>3. accepting \in BOOLEAN /\ stopping \in BOOLEAN /\ wait \in BOOLEAN
    BY DEF Init
  <2> QED
    BY <2>1, <2>2, <2>3 DEF FlagsType
<1>12. ThreadInv
  <2> DEFINE first(th) == CASE th = "collector" -> "idle"
                            [] th = "dispatch"  -> "top"
                            [] th = "caller"    -> "up"
  <2>1. thread = [th \in Threads |-> AtRest(first(th))]
    BY Zenon DEF Init
  <2>6. spawned \in Nat
    BY DEF Init
  <2>2. \A th \in Threads : first(th) \in Pcs(th) /\ first(th) \in {"idle", "top", "up"}
    BY DEF Threads, Pcs
  <2> HIDE DEF first
  <2>3. ASSUME NEW th \in Threads
        PROVE  /\ thread[th] \in ThreadType /\ ThreadFits(th, thread[th])
               /\ ThreadSees(thread[th], spawned) /\ thread[th].pc # "ship"
    <3>1. AtRest(first(th)) \in ThreadType /\ ThreadFits(th, AtRest(first(th)))
      BY <2>2, RestFits
    <3>2. AtRest(first(th)).pc # "ship"
      BY <2>2 DEF AtRest
    <3> QED
      BY <2>1, <2>6, <3>1, <3>2, RestSees
  <2>4. thread \in [Threads -> ThreadType]
    BY <2>1, <2>3
  <2>5. plan # <<>> <=> thread["dispatch"].pc = "ship"
    BY <2>3 DEF Init, Threads
  <2> QED
    BY <2>3, <2>4, <2>5 DEF ThreadInv
<1> QED
  BY <1>1, <1>2, <1>3, <1>4, <1>5, <1>6, <1>7, <1>8, <1>9, <1>10, <1>11, <1>12 DEF TypeInv

-----------------------------------------------------------------------------
(* What is committed.                                                       *)

\* What each task of the system is estimated to need.
MemOf(w) == [t \in Tasks |-> w[t].est.mem]
VramOf(w) == [t \in Tasks |-> w[t].est.vram]

\* The recursive function of Committed, and of CommittedVram.
SumsMem(w, S, it) ==
  it = [s \in SUBSET S |-> IF s = {} THEN 0 ELSE w[Some(s)].est.mem + it[s \ {Some(s)}]]
SumsVram(w, S, it) ==
  it = [s \in SUBSET S |-> IF s = {} THEN 0 ELSE w[Some(s)].est.vram + it[s \ {Some(s)}]]

(* The model's recursions are those of Total.                             *)
LEMMA SumsAreTotals ==
  ASSUME NEW w, NEW S \in SUBSET Tasks, NEW it
  PROVE  /\ SumsMem(w, S, it) <=> Summed(MemOf(w), S, it)
         /\ SumsVram(w, S, it) <=> Summed(VramOf(w), S, it)
<1>1. ASSUME NEW s \in SUBSET S
      PROVE  /\ (IF s = {} THEN 0 ELSE w[Some(s)].est.mem + it[s \ {Some(s)}])
                = (IF s = {} THEN 0 ELSE MemOf(w)[Some(s)] + it[s \ {Some(s)}])
             /\ (IF s = {} THEN 0 ELSE w[Some(s)].est.vram + it[s \ {Some(s)}])
                = (IF s = {} THEN 0 ELSE VramOf(w)[Some(s)] + it[s \ {Some(s)}])
  <2>1. CASE s = {}
    BY <2>1
  <2>2. CASE s # {}
    <3>1. Some(s) \in s
      BY <2>2 DEF Some
    <3>2. MemOf(w)[Some(s)] = w[Some(s)].est.mem /\ VramOf(w)[Some(s)] = w[Some(s)].est.vram
      BY <3>1 DEF MemOf, VramOf
    <3> QED
      BY <2>2, <3>2
  <2> QED
    BY <2>1, <2>2
<1>2. SumsMem(w, S, it) <=> Summed(MemOf(w), S, it)
  BY <1>1, Zenon DEF SumsMem, Summed
<1>3. SumsVram(w, S, it) <=> Summed(VramOf(w), S, it)
  BY <1>1, Zenon DEF SumsVram, Summed
<1> QED
  BY <1>2, <1>3

(* The memory committed to a set of tasks is the total of their           *)
(* estimates.                                                             *)
LEMMA CommittedIsTotal ==
  ASSUME NEW S \in SUBSET Tasks, IsFiniteSet(S)
  PROVE  Committed(S) = Total(MemOf(work), S)
<1> DEFINE it == CHOOSE f : SumsMem(work, S, f)
<1>1. \E f : SumsMem(work, S, f)
  BY SummedExists, SumsAreTotals
<1>2. SumsMem(work, S, it)
  BY <1>1
<1>3. Committed(S) = it[S]
  BY DEF Committed, MapThenSumSet, MapThenFoldSet, SumsMem, Some
<1> HIDE DEF it
<1>4. Summed(MemOf(work), S, it)
  BY <1>2, SumsAreTotals
<1> QED
  BY <1>3, <1>4, TotalIsSummed

(* So is the VRAM committed on a GPU.                                     *)
LEMMA CommittedVramIsTotal ==
  ASSUME NEW S \in SUBSET Tasks, IsFiniteSet(S), NEW g
  PROVE  CommittedVram(S, g) = Total(VramOf(work), {t \in S : work[t].gpu = g})
<1> DEFINE T == {t \in S : work[t].gpu = g}
           it == CHOOSE f : SumsVram(work, T, f)
<1>0. IsFiniteSet(T) /\ T \in SUBSET Tasks
  BY FS_Subset
<1>1. \E f : SumsVram(work, T, f)
  BY <1>0, SummedExists, SumsAreTotals
<1>2. SumsVram(work, T, it)
  BY <1>1
<1>3. CommittedVram(S, g) = it[T]
  BY DEF CommittedVram, MapThenSumSet, MapThenFoldSet, SumsVram, Some
<1> HIDE DEF it
<1>4. Summed(VramOf(work), T, it)
  BY <1>0, <1>2, SumsAreTotals
<1> QED
  BY <1>0, <1>3, <1>4, TotalIsSummed

-----------------------------------------------------------------------------
(* What _maybe_dispatch plans.                                              *)

\* The tasks the sweep fails, the queue that is left and the planner's view of it, when the
\* tasks of S were re-estimated and the running ones have left[t] to go.
Dropped(S) == {t \in Range(pending) : Infeasible(Reestimated(S)[t].est)}
Feasible(S) == Without(pending, Dropped(S))
EntriesOf(S) ==
  [i \in DOMAIN Feasible(S) |-> PendingOf(Feasible(S)[i], Reestimated(S)[Feasible(S)[i]])]
OccupantsOf(left) ==
  [i \in DOMAIN SetToSeq(inFlight) |->
     RunningOf(SetToSeq(inFlight)[i], left[SetToSeq(inFlight)[i]])]
PlanOf(S, left) == PlanDispatch(EntriesOf(S), OccupantsOf(left), Capacity)

Dispatches(S, left) ==
  /\ future' = SettleFutures(future, Dropped(S), "infeasible")
  /\ pending' = Feasible(S)
  /\ work' = Planned(Reestimated(S), Feasible(S))
  /\ plan' = [i \in DOMAIN PlanOf(S, left).decisions |->
       [task |-> PlanOf(S, left).decisions[i].task.task, gpu |-> PlanOf(S, left).decisions[i].gpu]]
  /\ rr' = PlanOf(S, left).rr
  /\ thread' = [thread EXCEPT !["dispatch"].pc =
       IF PlanOf(S, left).decisions = <<>> THEN "top" ELSE "ship"]

(* _maybe_dispatch is such a dispatch, for some sweep and some durations. *)
LEMMA DispatchUnfolds ==
  MaybeDispatch => \E S, left : S \subseteq {t \in Range(pending) : Stale(t)} /\ Dispatches(S, left)
<1> SUFFICES ASSUME MaybeDispatch
             PROVE  \E S, left : S \subseteq {t \in Range(pending) : Stale(t)} /\ Dispatches(S, left)
  OBVIOUS
<1>1. PICK S \in SUBSET {t \in Range(pending) : Stale(t)},
           left \in [inFlight -> UNION {Remaining(t) : t \in inFlight}] : Dispatches(S, left)
  BY DEF MaybeDispatch, Dispatches, PlanOf, OccupantsOf, EntriesOf, Feasible, Dropped
<1> QED
  BY <1>1

\* A re-estimate changes an estimate, of a task that was never retried, and its version.
LEMMA Reestimates ==
  ASSUME WorkType, ProfileType, NEW S, S \subseteq {t \in Range(pending) : Stale(t)},
         Range(pending) \subseteq Tasks, NEW t \in Tasks
  PROVE  /\ Reestimated(S)[t] \in PendingWorkType
         /\ t \notin S => Reestimated(S)[t] = work[t]
         /\ Reestimated(S)[t] = [work[t] EXCEPT !.est = Reestimated(S)[t].est,
                                  !.samples = Reestimated(S)[t].samples,
                                  !.floor = Reestimated(S)[t].floor]
<1>0. work[t] \in PendingWorkType
  BY DEF WorkType
<1>1. CASE t \in S
  <2> DEFINE prof == profile[Fn[t]]
  <2>1. prof.samples \in 0 .. 1 /\ prof.floor \in Nat \cup {None} /\ Estimate(t) \in EstimateType
    BY EstimateFits DEF ProfileType, Fns
  <2>2. Reestimated(S)[t] =
          [work[t] EXCEPT !.est = Estimate(t), !.samples = prof.samples, !.floor = prof.floor]
    BY <1>1 DEF Reestimated
  <2> HIDE DEF prof
  <2> QED
    BY <1>0, <1>1, <2>1, <2>2 DEF PendingWorkType
<1>2. CASE t \notin S
  <2>1. Reestimated(S)[t] = work[t]
    BY <1>2 DEF Reestimated
  <2> QED
    BY <1>0, <1>2, <2>1 DEF PendingWorkType
<1> QED
  BY <1>1, <1>2

\* The fields a dispatch leaves alone.
Carried4(v, w) ==
  /\ v.gpu = w.gpu /\ v.worker = w.worker /\ v.retries = w.retries
  /\ v.excl = w.excl /\ v.ignored = w.ignored /\ v.notified = w.notified /\ v.late = w.late

\* And the plan marks the tasks of the queue that are planned cold.
LEMMA PlannedWork ==
  ASSUME WorkType, ProfileType, NEW S, S \subseteq {t \in Range(pending) : Stale(t)},
         Range(pending) \subseteq Tasks, NEW q, Range(q) \subseteq Range(pending)
  PROVE  LET w == Planned(Reestimated(S), q) IN
           /\ w \in [Tasks -> PendingWorkType]
           /\ \A t \in Tasks \ Range(pending) : w[t] = work[t]
           /\ \A t \in Tasks : w[t].est = Reestimated(S)[t].est /\ Carried4(w[t], work[t])
           /\ \A t \in Tasks : t \in Range(q) =>
                w[t].cold = (profile[Fn[t]].samples = 0 /\ t \notin Hinted)
<1> DEFINE w == Planned(Reestimated(S), q)
<1>1. ASSUME NEW t \in Tasks
      PROVE  /\ w[t] \in PendingWorkType
             /\ t \notin Range(pending) => w[t] = work[t]
             /\ w[t].est = Reestimated(S)[t].est /\ Carried4(w[t], work[t])
             /\ t \in Range(q) => w[t].cold = (profile[Fn[t]].samples = 0 /\ t \notin Hinted)
  <2> DEFINE v == Reestimated(S)[t]
             cold == PendingOf(t, v).cold
  <2>0. work[t] \in PendingWorkType
    BY DEF WorkType
  <2>1. /\ v \in PendingWorkType /\ (t \notin S => v = work[t])
        /\ v = [work[t] EXCEPT !.est = v.est, !.samples = v.samples, !.floor = v.floor]
    BY Reestimates
  <2>2. cold = (profile[Fn[t]].samples = 0 /\ t \notin Hinted)
    BY DEF PendingOf
  <2>3. cold \in BOOLEAN
    BY <2>2
  <2>4. w[t] = IF t \in Range(q) THEN [v EXCEPT !.cold = cold] ELSE v
    BY DEF Planned
  <2> HIDE DEF v, cold, w
  <2>7. Carried4(v, work[t])
    BY <2>0, <2>1 DEF PendingWorkType, Carried4
  <2>5. CASE t \in Range(q)
    <3>1. w[t] = [v EXCEPT !.cold = cold]
      BY <2>4, <2>5
    <3>2. w[t] \in PendingWorkType /\ w[t].est = v.est /\ Carried4(w[t], v)
      BY <2>1, <2>3, <3>1 DEF PendingWorkType, Carried4
    <3>3. w[t].cold = cold
      BY <2>1, <3>1 DEF PendingWorkType
    <3>4. Carried4(w[t], work[t])
      BY <2>7, <3>2 DEF Carried4
    <3> QED
      BY <2>2, <2>5, <3>2, <3>3, <3>4 DEF v
  <2>6. CASE t \notin Range(q)
    BY <2>1, <2>4, <2>6, <2>7 DEF v
  <2> QED
    BY <2>5, <2>6
<1>2. w = [t \in Tasks |-> w[t]]
  BY DEF Planned
<1> HIDE DEF w
<1> QED
  BY <1>1, <1>2 DEF w

(* The planner's view of the queue, of the running set and of the capacity. *)
LEMMA PendingFields ==
  ASSUME NEW t, NEW w
  PROVE  /\ PendingOf(t, w).task = t /\ PendingOf(t, w).mem = w.est.mem
         /\ PendingOf(t, w).vram = w.est.vram /\ PendingOf(t, w).cpu = w.est.cpu
         /\ PendingOf(t, w).excl = w.excl /\ PendingOf(t, w).ident = Fn[t]
BY DEF PendingOf

(* The planner's view of the queue: one entry per task that is left, in   *)
(* order.                                                                 *)
LEMMA EntriesFit ==
  ASSUME WorkType, ProfileType, QueueType, NoDup(pending),
         NEW S, S \subseteq {t \in Range(pending) : Stale(t)}
  PROVE  /\ Queue(Feasible(S)) /\ Range(Feasible(S)) = Range(pending) \ Dropped(S)
         /\ NoDup(Feasible(S)) /\ Len(EntriesOf(S)) = Len(Feasible(S))
         /\ EntriesOk(EntriesOf(S)) /\ Distinct(EntriesOf(S))
         /\ \A i \in 1 .. Len(EntriesOf(S)) :
              /\ EntriesOf(S)[i] =
                   PendingOf(Feasible(S)[i], Reestimated(S)[Feasible(S)[i]])
              /\ Feasible(S)[i] \in Tasks /\ Feasible(S)[i] \in Range(Feasible(S))
<1> DEFINE q == Feasible(S)
           e == EntriesOf(S)
<1>1. Queue(q) /\ Range(q) = Range(pending) \ Dropped(S) /\ NoDup(q)
  BY WithoutLeaves DEF QueueType, Feasible
<1>2. Len(q) \in Nat /\ DOMAIN q = 1 .. Len(q) /\ q \in Seq(Range(q)) /\ Range(q) \subseteq Tasks
  BY <1>1 DEF Queue, QueueType
<1>3. e = [i \in 1 .. Len(q) |-> PendingOf(q[i], Reestimated(S)[q[i]])]
  BY <1>2 DEF EntriesOf
<1> HIDE DEF q, e
<1>4. Len(e) = Len(q) /\ DOMAIN e = 1 .. Len(e)
  BY <1>2, <1>3
<1>5. \A i \in 1 .. Len(e) : q[i] \in Tasks /\ q[i] \in Range(q)
  BY <1>2, <1>4 DEF Range
<1>6. \A i \in 1 .. Len(e) : e[i] = PendingOf(q[i], Reestimated(S)[q[i]])
  BY <1>3, <1>4
<1>7. \A i \in 1 .. Len(e) : e[i].mem \in Nat /\ e[i].vram \in Nat /\ e[i].cpu \in Nat
  <2> SUFFICES ASSUME NEW i \in 1 .. Len(e)
               PROVE  e[i].mem \in Nat /\ e[i].vram \in Nat /\ e[i].cpu \in Nat
    OBVIOUS
  <2>1. Reestimated(S)[q[i]] \in PendingWorkType
    BY <1>5, Reestimates DEF QueueType
  <2>2. Reestimated(S)[q[i]].est \in EstimateType
    BY <2>1 DEF PendingWorkType
  <2> QED
    BY <1>6, <2>2, PendingFields DEF EstimateType
<1>8. e \in Seq(Range(e))
  <2>1. \A i \in 1 .. Len(e) : e[i] \in Range(e)
    BY <1>4 DEF Range
  <2>2. e = [i \in 1 .. Len(q) |-> e[i]]
    BY <1>3
  <2>3. e \in [1 .. Len(q) -> Range(e)]
    BY <1>4, <2>1, <2>2
  <2> QED
    BY <1>2, <2>3
<1>9. EntriesOk(e)
  BY <1>7, <1>8 DEF EntriesOk
<1>10. Distinct(e)
  <2>1. \A i \in 1 .. Len(e) : e[i].task = q[i]
    BY <1>6, PendingFields
  <2>2. \A i, j \in 1 .. Len(e) : q[i] = q[j] => i = j
    BY <1>1, <1>4 DEF NoDup
  <2> QED
    BY <2>1, <2>2 DEF Distinct
<1> QED
  BY <1>1, <1>4, <1>5, <1>6, <1>9, <1>10 DEF q, e

(* The planner's view of the running set: one occupant per task in        *)
(* flight.                                                                *)
LEMMA OccupantsFit ==
  ASSUME IsFiniteSet(inFlight), NEW left
  PROVE  /\ Len(OccupantsOf(left)) = Cardinality(inFlight) /\ Cardinality(inFlight) \in Nat
         /\ \A t \in inFlight : \E i \in 1 .. Len(OccupantsOf(left)) :
              OccupantsOf(left)[i] = RunningOf(t, left[t])
<1> DEFINE q == SetToSeq(inFlight)
           o == OccupantsOf(left)
<1>1. /\ q \in Seq(inFlight) /\ Len(q) = Cardinality(inFlight) /\ Cardinality(inFlight) \in Nat
      /\ \A x \in inFlight : \E i \in 1 .. Cardinality(inFlight) : q[i] = x
  BY OrderedOnce
<1>2. o = [i \in DOMAIN q |-> RunningOf(q[i], left[q[i]])]
  BY DEF OccupantsOf
<1>3. DOMAIN q = 1 .. Len(q)
  BY <1>1
<1> HIDE DEF q, o
<1>4. Len(o) = Len(q) /\ \A i \in 1 .. Len(o) : o[i] = RunningOf(q[i], left[q[i]])
  BY <1>1, <1>2, <1>3
<1> QED
  BY <1>1, <1>4 DEF o

(* What is committed is a number.                                         *)
LEMMA CommitmentsAreNumbers ==
  ASSUME WorkType, NEW S \in SUBSET Tasks, IsFiniteSet(S)
  PROVE  /\ \A x \in Tasks : MemOf(work)[x] \in Nat /\ VramOf(work)[x] \in Nat
         /\ Committed(S) \in Nat /\ \A g : CommittedVram(S, g) \in Nat
<1>1. \A x \in Tasks : MemOf(work)[x] \in Nat /\ VramOf(work)[x] \in Nat
  <2> SUFFICES ASSUME NEW x \in Tasks PROVE MemOf(work)[x] \in Nat /\ VramOf(work)[x] \in Nat
    OBVIOUS
  <2>1. work[x].est \in EstimateType
    BY DEF WorkType, PendingWorkType
  <2> QED
    BY <2>1 DEF MemOf, VramOf, EstimateType
<1>2. Committed(S) \in Nat
  BY <1>1, CommittedIsTotal, TotalRemoves
<1>3. ASSUME NEW g PROVE CommittedVram(S, g) \in Nat
  <2>1. IsFiniteSet({t \in S : work[t].gpu = g})
    BY FS_Subset
  <2>2. Total(VramOf(work), {t \in S : work[t].gpu = g}) \in Nat
    BY <1>1, <2>1, TotalRemoves
  <2> QED
    BY <2>2, CommittedVramIsTotal
<1> QED
  BY <1>1, <1>2, <1>3

(* The capacity is one the planner may be given.                          *)
LEMMA CapacityFits ==
  ASSUME WorkType, QueueType, PlanType, IsFiniteSet(inFlight)
  PROVE  CapOk(Capacity) /\ Capacity.gated = TRUE /\ Capacity.slots = Cardinality(inFlight)
<1>1. Committed(inFlight) \in Nat /\ \A g : CommittedVram(inFlight, g) \in Nat
  BY CommitmentsAreNumbers DEF QueueType
<1>2. Cardinality(inFlight) \in Nat /\ rr \in 0 .. Len(GpuOrder)
  BY FS_CardinalityType DEF PlanType
<1>3. /\ Capacity.slots \in Nat /\ Capacity.rr \in 0 .. Len(GpuOrder) /\ DOMAIN Capacity.gpu = DOMAIN Vram
      /\ Capacity.mem = Memory - Committed(inFlight)
  BY <1>2 DEF Capacity
<1>4. \A g \in DOMAIN Vram : Capacity.gpu[g] = Vram[g] - CommittedVram(inFlight, g)
  BY DEF Capacity
<1>5. Capacity.mem \in Int
  BY <1>1, <1>3, MachineAssumption
<1>6. \A g \in DOMAIN Vram : Capacity.gpu[g] \in Int
  BY <1>1, <1>4, MachineAssumption
<1>7. DOMAIN Capacity.gpu \subseteq Gpus
  BY <1>3, MachineAssumption
<1>8. CapOk(Capacity)
  BY <1>3, <1>5, <1>6, <1>7 DEF CapOk
<1> QED
  BY <1>8 DEF Capacity

\* So the cycle that _maybe_dispatch runs is sound.
LEMMA DispatchIsSound ==
  ASSUME WorkType, ProfileType, QueueType, PlanType, NoDup(pending), IsFiniteSet(inFlight),
         NEW S, S \subseteq {t \in Range(pending) : Stale(t)}, NEW left
  PROVE  /\ CycleOk(PlanOf(S, left), EntriesOf(S), OccupantsOf(left), Capacity, Len(EntriesOf(S)))
         /\ BudgetOk(PlanOf(S, left), EntriesOf(S), Capacity)
<1>1. EntriesOk(EntriesOf(S)) /\ Distinct(EntriesOf(S))
  BY EntriesFit
<1>2. Len(OccupantsOf(left)) = Cardinality(inFlight) /\ Cardinality(inFlight) \in Nat
  BY OccupantsFit
<1>3. CapOk(Capacity) /\ Capacity.gated = TRUE /\ Capacity.slots = Cardinality(inFlight)
  BY CapacityFits
<1> QED
  BY <1>1, <1>2, <1>3, PlanIsSound DEF PlanOf

-----------------------------------------------------------------------------
(* A plan and the running set, while the plan is shipped.                   *)

PlanTasks == {plan[i].task : i \in 1 .. Len(plan)}
Ahead(g) == {plan[i].task : i \in {j \in 1 .. Len(plan) : plan[j].gpu = g}}
RunningOn(g) == {t \in inFlight : work[t].gpu = g}

\* Every planned task waits in the queue, and is planned once.
PlanQueued ==
  /\ PlanTasks \subseteq Range(pending)
  /\ \A i, j \in 1 .. Len(plan) : plan[i].task = plan[j].task => i = j

\* There is a slot for every planned task.
PlanSlots == IsFiniteSet(inFlight) /\ Cardinality(inFlight) + Len(plan) <= MaxWorkers

\* An exclusive task is planned alone and for an empty machine, and runs alone.
PlanAlone ==
  /\ \A i \in 1 .. Len(plan) : work[plan[i].task].excl = TRUE => Len(plan) = 1 /\ inFlight = {}
  /\ \A t \in inFlight : work[t].excl = TRUE => plan = <<>> /\ inFlight = {t}

\* Nothing of the profile of a cold planned task runs or is planned before it.
PlanCanary ==
  /\ \A i \in 1 .. Len(plan) : work[plan[i].task].cold = TRUE =>
       /\ \A u \in inFlight : Fn[u] # Fn[plan[i].task]
       /\ \A j \in 1 .. i - 1 : Fn[plan[j].task] # Fn[plan[i].task]
  /\ \A t, u \in inFlight :
       t # u /\ Fn[t] = Fn[u] => ~ (work[t].cold = TRUE /\ work[u].cold = TRUE)

\* What runs and what is planned fits the machine, and each GPU.
PlanMemory ==
  inFlight \cup PlanTasks # {} => Total(MemOf(work), inFlight \cup PlanTasks) < Memory

PlanVram ==
  \A g \in Gpus : RunningOn(g) \cup Ahead(g) # {} =>
    g \in DOMAIN Vram /\ Total(VramOf(work), RunningOn(g) \cup Ahead(g)) < Vram[g]

PlanInv == PlanQueued /\ PlanSlots /\ PlanAlone /\ PlanCanary /\ PlanMemory /\ PlanVram

-----------------------------------------------------------------------------
\* The decisions of a cycle, as the plan it leaves.
DecisionsMatch(S, left) ==
  LET d == PlanOf(S, left).decisions IN
    /\ Len(plan') = Len(d) /\ Len(d) \in Nat
    /\ \A k \in 1 .. Len(d) : \E i \in 1 .. Len(EntriesOf(S)) :
         /\ d[k].task = EntriesOf(S)[i] /\ plan'[k].task = Feasible(S)[i] /\ plan'[k].gpu = d[k].gpu

(* The plan is that of the cycle's decisions, in order.                   *)
LEMMA PlanIsMade ==
  ASSUME WorkType, ProfileType, QueueType, PlanType, NoDup(pending), IsFiniteSet(inFlight),
         NEW S, S \subseteq {t \in Range(pending) : Stale(t)}, NEW left, Dispatches(S, left)
  PROVE  /\ DecisionsMatch(S, left)
         /\ plan' \in Seq([task : Tasks, gpu : Gpus \cup {None}]) /\ rr' \in 0 .. Len(GpuOrder)
         /\ plan' = <<>> <=> PlanOf(S, left).decisions = <<>>
<1> DEFINE p == PlanOf(S, left)
           d == p.decisions
           e == EntriesOf(S)
           n == Len(e)
<1>1. Shape(p, e, Capacity, n)
  BY DispatchIsSound DEF CycleOk
<1>2. /\ Fields(p) /\ d \in Seq(DecisionsOf(FirstOf(e, n)))
  BY <1>1 DEF Shape
<1>3. rr' \in 0 .. Len(GpuOrder)
  BY <1>2 DEF Dispatches, Fields
<1>4. Len(d) \in Nat /\ DOMAIN d = 1 .. Len(d)
      /\ \A k \in 1 .. Len(d) : d[k] \in DecisionsOf(FirstOf(e, n))
  BY <1>2
<1>5. plan' = [k \in 1 .. Len(d) |-> [task |-> d[k].task.task, gpu |-> d[k].gpu]]
  BY <1>4 DEF Dispatches
<1> HIDE DEF p, d, e, n
<1>6. ASSUME NEW k \in 1 .. Len(d)
      PROVE  d[k].gpu \in Gpus \cup {None} /\ \E i \in 1 .. n : d[k].task = e[i]
  BY <1>4 DEF DecisionsOf, FirstOf
<1>7. ASSUME NEW k \in 1 .. Len(d)
      PROVE  /\ plan'[k] \in [task : Tasks, gpu : Gpus \cup {None}]
             /\ plan'[k].task = d[k].task.task /\ plan'[k].gpu = d[k].gpu
             /\ \E i \in 1 .. n : d[k].task = e[i] /\ plan'[k].task = Feasible(S)[i]
  <2>1. PICK i \in 1 .. n : d[k].task = e[i]
    BY <1>6
  <2>2. e[i] = PendingOf(Feasible(S)[i], Reestimated(S)[Feasible(S)[i]]) /\ Feasible(S)[i] \in Tasks
    BY EntriesFit DEF e, n
  <2>3. e[i].task = Feasible(S)[i]
    BY <2>2, PendingFields
  <2>4. plan'[k] = [task |-> d[k].task.task, gpu |-> d[k].gpu]
    BY <1>5
  <2>5. d[k].task.task = Feasible(S)[i] /\ d[k].gpu \in Gpus \cup {None}
    BY <1>6, <2>1, <2>3
  <2> QED
    BY <2>1, <2>2, <2>4, <2>5
<1>8. plan' \in Seq([task : Tasks, gpu : Gpus \cup {None}]) /\ Len(plan') = Len(d)
  <2>1. plan' = [k \in 1 .. Len(d) |-> plan'[k]]
    BY <1>5
  <2> DEFINE T == [task : Tasks, gpu : Gpus \cup {None}]
  <2>2. \A k \in 1 .. Len(d) : plan'[k] \in T
    BY <1>7
  <2> HIDE DEF T
  <2>3. plan' \in [1 .. Len(d) -> T]
    BY <2>1, <2>2
  <2>4. plan' \in Seq(T) /\ Len(plan') = Len(d)
    BY <1>4, <2>3
  <2> QED
    BY <2>4 DEF T
<1>9. DecisionsMatch(S, left)
  BY <1>4, <1>7, <1>8 DEF DecisionsMatch, p, d, e, n
<1>10. plan' = <<>> <=> d = <<>>
  <2>1. Len(plan') = Len(d) /\ plan' \in Seq([task : Tasks, gpu : Gpus \cup {None}])
        /\ d \in Seq(DecisionsOf(FirstOf(e, n)))
    BY <1>2, <1>8 DEF d, e, n
  <2> QED
    BY <2>1
<1> QED
  BY <1>3, <1>8, <1>9, <1>10 DEF p, d

\* What the plan's invariants need of the state a cycle starts from.
PlansFrom ==
  /\ WorkType /\ ProfileType /\ QueueType /\ PlanType /\ NoDup(pending)
  /\ Range(pending) \cap inFlight = {} /\ PlanInv

\* What a decision of the cycle is about: a task of the queue that is left, and its needs.
LEMMA DecisionIsQueued ==
  ASSUME PlansFrom, NEW S, S \subseteq {t \in Range(pending) : Stale(t)}, NEW left,
         Dispatches(S, left), NEW k \in 1 .. Len(plan')
  PROVE  /\ k \in 1 .. Len(PlanOf(S, left).decisions)
         /\ PlanOf(S, left).decisions[k].task = PendingOf(plan'[k].task, Reestimated(S)[plan'[k].task])
         /\ PlanOf(S, left).decisions[k].gpu = plan'[k].gpu
         /\ plan'[k].task \in Range(pending') /\ plan'[k].task \in Range(pending)
         /\ plan'[k].task \in Tasks /\ plan'[k].task \notin inFlight
<1> DEFINE d == PlanOf(S, left).decisions[k]
           t == plan'[k].task
<1>1. DecisionsMatch(S, left)
  BY PlanIsMade DEF PlansFrom, PlanInv, PlanSlots
<1>2. k \in 1 .. Len(PlanOf(S, left).decisions)
  BY <1>1 DEF DecisionsMatch
<1>3. PICK i \in 1 .. Len(EntriesOf(S)) :
        d.task = EntriesOf(S)[i] /\ t = Feasible(S)[i] /\ plan'[k].gpu = d.gpu
  BY <1>1, <1>2 DEF DecisionsMatch
<1> HIDE DEF d, t
<1>4. /\ EntriesOf(S)[i] = PendingOf(t, Reestimated(S)[t]) /\ t \in Tasks
      /\ t \in Range(Feasible(S)) /\ Range(Feasible(S)) = Range(pending) \ Dropped(S)
  BY <1>3, EntriesFit DEF PlansFrom
<1>5. t \in Range(pending) /\ t \notin inFlight
  BY <1>4 DEF PlansFrom
<1>6. pending' = Feasible(S) /\ work' = Planned(Reestimated(S), Feasible(S))
  BY DEF Dispatches
<1>7. d.task = PendingOf(t, Reestimated(S)[t])
  BY <1>3, <1>4
<1>8. t \in Range(pending')
  BY <1>4, <1>6
<1> QED
  BY <1>2, <1>3, <1>4, <1>5, <1>7, <1>8 DEF d, t

(* A decision names the task of the plan and its profile.                 *)
LEMMA DecisionFields ==
  ASSUME PlansFrom, NEW S, S \subseteq {t \in Range(pending) : Stale(t)}, NEW left,
         Dispatches(S, left), NEW k \in 1 .. Len(plan')
  PROVE  /\ PlanOf(S, left).decisions[k].task.task = plan'[k].task
         /\ PlanOf(S, left).decisions[k].task.ident = Fn[plan'[k].task]
<1> DEFINE e == PlanOf(S, left).decisions[k].task
           t == plan'[k].task
           v == Reestimated(S)[t]
<1>1. e = PendingOf(t, v)
  BY DecisionIsQueued
<1> HIDE DEF e, t, v
<1>2. PendingOf(t, v).task = t /\ PendingOf(t, v).ident = Fn[t]
  BY PendingFields
<1>3. e.task = t /\ e.ident = Fn[t]
  BY <1>1, <1>2
<1> QED
  BY <1>3 DEF e, t

(* A decision is exclusive, or cold, if its task is.                      *)
LEMMA DecisionMarks ==
  ASSUME PlansFrom, NEW S, S \subseteq {t \in Range(pending) : Stale(t)}, NEW left,
         Dispatches(S, left), NEW k \in 1 .. Len(plan')
  PROVE  /\ work'[plan'[k].task].excl = TRUE => PlanOf(S, left).decisions[k].task.excl
         /\ work'[plan'[k].task].cold = TRUE => PlanOf(S, left).decisions[k].task.cold
<1> DEFINE e == PlanOf(S, left).decisions[k].task
           t == plan'[k].task
<1>1. e = PendingOf(t, Reestimated(S)[t]) /\ t \in Range(pending') /\ t \in Range(pending)
      /\ t \in Tasks
  BY DecisionIsQueued
<1> HIDE DEF e, t
<1>2. pending' = Feasible(S) /\ work' = Planned(Reestimated(S), Feasible(S))
  BY DEF Dispatches
<1>3. Range(Feasible(S)) \subseteq Range(pending)
  BY EntriesFit DEF PlansFrom
<1>4. /\ Carried4(work'[t], work[t])
      /\ work'[t].cold = (profile[Fn[t]].samples = 0 /\ t \notin Hinted)
  BY <1>1, <1>2, <1>3, PlannedWork DEF PlansFrom, QueueType
<1>5. work'[t].cold = TRUE => e.cold
  <2>1. e.cold = (profile[Fn[t]].samples = 0 /\ t \notin Hinted)
    BY <1>1 DEF PendingOf
  <2> QED
    BY <1>4, <2>1
<1>6. Reestimated(S)[t].excl = work[t].excl
  <2>1. work[t] \in PendingWorkType
    BY <1>1 DEF PlansFrom, WorkType
  <2>2. Reestimated(S)[t] = [work[t] EXCEPT !.est = Reestimated(S)[t].est,
                               !.samples = Reestimated(S)[t].samples,
                               !.floor = Reestimated(S)[t].floor]
    BY <1>1, Reestimates DEF PlansFrom, QueueType
  <2> QED
    BY <2>1, <2>2 DEF PendingWorkType
<1>7. work'[t].excl = TRUE => e.excl
  <2>1. e.excl = Reestimated(S)[t].excl
    BY <1>1, PendingFields
  <2>2. work'[t].excl = work[t].excl
    BY <1>4 DEF Carried4
  <2> QED
    BY <1>6, <2>1, <2>2
<1> QED
  BY <1>5, <1>7 DEF e, t

\* Nothing changes for a task that runs.
LEMMA RunningIsKept ==
  ASSUME PlansFrom, NEW S, S \subseteq {t \in Range(pending) : Stale(t)}, NEW left,
         Dispatches(S, left), NEW t \in inFlight
  PROVE  t \in Tasks /\ work'[t] = work[t]
<1>1. t \in Tasks /\ t \notin Range(pending)
  BY DEF PlansFrom, QueueType
<1>2. Range(Feasible(S)) \subseteq Range(pending)
  BY EntriesFit DEF PlansFrom
<1> QED
  BY <1>1, <1>2, PlannedWork DEF PlansFrom, QueueType, Dispatches

(* A new plan is made of queued tasks and fits the slots.                 *)
LEMMA DispatchQueued ==
  ASSUME PlansFrom, NEW S, S \subseteq {t \in Range(pending) : Stale(t)}, NEW left,
         Dispatches(S, left), inFlight' = inFlight
  PROVE  PlanQueued' /\ PlanSlots'
<1> DEFINE p == PlanOf(S, left)
<1>1. /\ CycleOk(p, EntriesOf(S), OccupantsOf(left), Capacity, Len(EntriesOf(S)))
      /\ Capacity.slots = Cardinality(inFlight) /\ Cardinality(inFlight) \in Nat
  BY DispatchIsSound, CapacityFits, OccupantsFit DEF PlansFrom, PlanInv, PlanSlots
<1>2. /\ p.live.slots = Capacity.slots + Len(p.decisions)
      /\ p.decisions # <<>> => p.live.slots <= MaxWorkers
      /\ \A k, l \in 1 .. Len(p.decisions) :
           p.decisions[k].task.task = p.decisions[l].task.task => k = l
  BY <1>1 DEF CycleOk, Shape, Apart
<1>3. /\ Len(plan') = Len(p.decisions) /\ Len(plan') \in Nat
      /\ plan' = <<>> <=> p.decisions = <<>>
      /\ plan' \in Seq([task : Tasks, gpu : Gpus \cup {None}])
  BY PlanIsMade DEF PlansFrom, PlanInv, PlanSlots, DecisionsMatch
<1> HIDE DEF p
<1>4. PlanQueued'
  <2>1. \A i, j \in 1 .. Len(plan') : plan'[i].task = plan'[j].task => i = j
    <3> SUFFICES ASSUME NEW i \in 1 .. Len(plan'), NEW j \in 1 .. Len(plan'),
                        plan'[i].task = plan'[j].task
                 PROVE  i = j
      OBVIOUS
    <3>1. p.decisions[i].task.task = plan'[i].task /\ p.decisions[j].task.task = plan'[j].task
      BY DecisionFields DEF p
    <3> QED
      BY <1>2, <1>3, <3>1
  <2>2. \A i \in 1 .. Len(plan') : plan'[i].task \in Range(pending')
    BY DecisionIsQueued
  <2> QED
    BY <2>1, <2>2 DEF PlanQueued, PlanTasks
<1>5. PlanSlots'
  <2>1. Cardinality(inFlight) + Len(plan') <= MaxWorkers
    <3>1. CASE plan' = <<>>
      <4>1. Len(plan') = 0 /\ Len(plan) \in Nat /\ Cardinality(inFlight) + Len(plan) <= MaxWorkers
        BY <3>1 DEF PlansFrom, PlanInv, PlanSlots, PlanType
      <4> QED
        BY <1>1, <4>1, MaxWorkersAssumption
    <3>2. CASE plan' # <<>>
      BY <1>1, <1>2, <1>3, <3>2
    <3> QED
      BY <3>1, <3>2
  <2> QED
    BY <2>1 DEF PlanSlots, PlansFrom, PlanInv
<1> QED
  BY <1>4, <1>5

(* A new plan leaves exclusive tasks alone.                               *)
LEMMA DispatchAlone ==
  ASSUME PlansFrom, NEW S, S \subseteq {t \in Range(pending) : Stale(t)}, NEW left,
         Dispatches(S, left), inFlight' = inFlight
  PROVE  PlanAlone'
<1> DEFINE p == PlanOf(S, left)
           o == OccupantsOf(left)
<1>1. /\ CycleOk(p, EntriesOf(S), o, Capacity, Len(EntriesOf(S)))
      /\ Capacity.slots = Cardinality(inFlight) /\ Cardinality(inFlight) \in Nat
      /\ \A t \in inFlight : \E i \in 1 .. Len(o) : o[i] = RunningOf(t, left[t])
  BY DispatchIsSound, CapacityFits, OccupantsFit DEF PlansFrom, PlanInv, PlanSlots
<1>2. /\ (\E j \in 1 .. Len(o) : o[j].excl) => p.decisions = <<>>
      /\ (\E k \in 1 .. Len(p.decisions) : p.decisions[k].task.excl) =>
           Len(p.decisions) = 1 /\ Capacity.slots = 0
  BY <1>1 DEF CycleOk, AloneOk
<1>3. /\ Len(plan') = Len(p.decisions) /\ (plan' = <<>> <=> p.decisions = <<>>)
  BY PlanIsMade DEF PlansFrom, PlanInv, PlanSlots, DecisionsMatch
<1> HIDE DEF p, o
<1>4. ASSUME NEW i \in 1 .. Len(plan'), work'[plan'[i].task].excl = TRUE
      PROVE  Len(plan') = 1 /\ inFlight = {}
  <2>1. i \in 1 .. Len(p.decisions) /\ p.decisions[i].task.excl
    BY <1>4, DecisionIsQueued, DecisionMarks DEF p
  <2>2. Len(plan') = 1 /\ Cardinality(inFlight) = 0
    BY <1>1, <1>2, <1>3, <2>1
  <2> QED
    BY <2>2, FS_EmptySet DEF PlansFrom, PlanInv, PlanSlots
<1>5. ASSUME NEW t \in inFlight, work'[t].excl = TRUE
      PROVE  plan' = <<>> /\ inFlight = {t}
  <2>1. work[t].excl = TRUE
    BY <1>5, RunningIsKept
  <2>2. PICK i \in 1 .. Len(o) : o[i] = RunningOf(t, left[t])
    BY <1>1
  <2>3. o[i].excl
    BY <2>1, <2>2 DEF RunningOf
  <2> QED
    BY <1>2, <1>3, <2>1, <2>3 DEF PlansFrom, PlanInv, PlanAlone
<1> QED
  BY <1>4, <1>5 DEF PlanAlone

(* A new plan sends one canary per profile.                               *)
LEMMA DispatchCanary ==
  ASSUME PlansFrom, NEW S, S \subseteq {t \in Range(pending) : Stale(t)}, NEW left,
         Dispatches(S, left), inFlight' = inFlight
  PROVE  PlanCanary'
<1> DEFINE p == PlanOf(S, left)
           o == OccupantsOf(left)
<1>1. /\ CycleOk(p, EntriesOf(S), o, Capacity, Len(EntriesOf(S)))
      /\ \A t \in inFlight : \E i \in 1 .. Len(o) : o[i] = RunningOf(t, left[t])
  BY DispatchIsSound, OccupantsFit DEF PlansFrom, PlanInv, PlanSlots
<1>2. \A k \in 1 .. Len(p.decisions) :
        p.decisions[k].task.cold /\ p.decisions[k].task.ident # None =>
          /\ \A j \in 1 .. Len(o) : o[j].ident # p.decisions[k].task.ident
          /\ \A l \in 1 .. k - 1 : p.decisions[l].task.ident # p.decisions[k].task.ident
  BY <1>1 DEF CycleOk, Canary
<1> HIDE DEF p, o
<1>3. ASSUME NEW i \in 1 .. Len(plan'), work'[plan'[i].task].cold = TRUE
      PROVE  /\ \A u \in inFlight : Fn[u] # Fn[plan'[i].task]
             /\ \A j \in 1 .. i - 1 : Fn[plan'[j].task] # Fn[plan'[i].task]
  <2>0. i \in 1 .. Len(p.decisions) /\ p.decisions[i].task.cold
    BY <1>3, DecisionIsQueued, DecisionMarks DEF p
  <2>1. p.decisions[i].task.ident = Fn[plan'[i].task] /\ plan'[i].task \in Tasks
    <3>1. p.decisions[i].task.ident = Fn[plan'[i].task]
      BY DecisionFields DEF p
    <3>2. plan'[i].task \in Tasks
      BY DecisionIsQueued
    <3> QED
      BY <3>1, <3>2
  <2>2. p.decisions[i].task.ident # None
    BY <2>1, ApartAssumption DEF Fns
  <2>3. ASSUME NEW u \in inFlight PROVE Fn[u] # Fn[plan'[i].task]
    <3>1. PICK j \in 1 .. Len(o) : o[j] = RunningOf(u, left[u])
      BY <1>1
    <3>2. o[j].ident = Fn[u]
      BY <3>1 DEF RunningOf
    <3> QED
      BY <1>2, <2>0, <2>1, <2>2, <3>2
  <2>4. ASSUME NEW j \in 1 .. i - 1 PROVE Fn[plan'[j].task] # Fn[plan'[i].task]
    <3>0. Len(plan') \in Nat
      BY PlanIsMade DEF PlansFrom, PlanInv, PlanSlots, DecisionsMatch
    <3>1. j \in 1 .. Len(plan')
      BY <3>0
    <3>2. p.decisions[j].task.ident = Fn[plan'[j].task]
      BY <3>1, DecisionFields DEF p
    <3> QED
      BY <1>2, <2>0, <2>1, <2>2, <3>2
  <2> QED
    BY <2>3, <2>4
<1>4. \A t \in inFlight : work'[t] = work[t]
  BY RunningIsKept
<1>5. \A t, u \in inFlight :
        t # u /\ Fn[t] = Fn[u] => ~ (work[t].cold = TRUE /\ work[u].cold = TRUE)
  BY DEF PlansFrom, PlanInv, PlanCanary
<1>6. \A t, u \in inFlight :
        t # u /\ Fn[t] = Fn[u] => ~ (work'[t].cold = TRUE /\ work'[u].cold = TRUE)
  BY <1>4, <1>5
<1> QED
  BY <1>3, <1>6 DEF PlanCanary

\* The memory and the VRAM the cycle reckoned with are those of the new estimates.
LEMMA DispatchNeeds ==
  ASSUME PlansFrom, NEW S, S \subseteq {t \in Range(pending) : Stale(t)}, NEW left,
         Dispatches(S, left)
  PROVE  /\ MemOk(PlanOf(S, left), Capacity, MemOf(work'))
         /\ VramOk(PlanOf(S, left), Capacity, VramOf(work'))
<1> DEFINE e == EntriesOf(S)
           w == work'
<1>1. ASSUME NEW i \in 1 .. Len(e)
      PROVE  MemOf(w)[e[i].task] = e[i].mem /\ VramOf(w)[e[i].task] = e[i].vram
  <2> DEFINE t == Feasible(S)[i]
             v == Reestimated(S)[t]
  <2>1. e[i] = PendingOf(t, v) /\ t \in Tasks /\ t \in Range(Feasible(S))
    BY EntriesFit DEF PlansFrom
  <2>2. Range(Feasible(S)) \subseteq Range(pending)
    BY EntriesFit DEF PlansFrom
  <2>3. w = Planned(Reestimated(S), Feasible(S))
    BY DEF Dispatches
  <2> HIDE DEF e, w
  <2>4. w[t].est = v.est
    BY <2>1, <2>2, <2>3, PlannedWork DEF PlansFrom, QueueType
  <2> HIDE DEF t, v
  <2>5. PendingOf(t, v).task = t /\ PendingOf(t, v).mem = v.est.mem
        /\ PendingOf(t, v).vram = v.est.vram
    BY PendingFields
  <2>6. e[i].task = t /\ e[i].mem = v.est.mem /\ e[i].vram = v.est.vram
    BY <2>1, <2>5
  <2>7. MemOf(w)[t] = w[t].est.mem /\ VramOf(w)[t] = w[t].est.vram
    BY <2>1 DEF MemOf, VramOf
  <2> QED
    BY <2>4, <2>6, <2>7
<1>2. Needs(e, MemOf(w), VramOf(w))
  BY <1>1 DEF Needs
<1>3. BudgetOk(PlanOf(S, left), e, Capacity)
  BY DispatchIsSound DEF PlansFrom, PlanInv, PlanSlots
<1> HIDE DEF e, w
<1> QED
  BY <1>2, <1>3 DEF BudgetOk, w

\* The planned tasks are the tasks of the decisions, on every GPU.
LEMMA PlannedIds ==
  ASSUME PlansFrom, NEW S, S \subseteq {t \in Range(pending) : Stale(t)}, NEW left,
         Dispatches(S, left)
  PROVE  /\ PlanTasks' = Ids(PlanOf(S, left)) /\ \A g : Ahead(g)' = IdsOn(PlanOf(S, left), g)
         /\ \A g : Ahead(g)' # {} => On(PlanOf(S, left), g) # {}
         /\ IsFiniteSet(PlanTasks') /\ PlanTasks' \subseteq Tasks /\ PlanTasks' \cap inFlight = {}
         /\ \A g : Ahead(g)' \subseteq PlanTasks'
         /\ PlanTasks' # {} => PlanOf(S, left).decisions # <<>>
<1> DEFINE p == PlanOf(S, left)
           d == p.decisions
<1>1. Len(plan') = Len(d) /\ Len(d) \in Nat
  BY PlanIsMade DEF PlansFrom, PlanInv, PlanSlots, DecisionsMatch
<1>2. ASSUME NEW k \in 1 .. Len(plan')
      PROVE  d[k].task.task = plan'[k].task /\ d[k].gpu = plan'[k].gpu
  <2>1. d[k].task.task = plan'[k].task
    BY DecisionFields
  <2>2. d[k].gpu = plan'[k].gpu
    BY DecisionIsQueued
  <2> QED
    BY <2>1, <2>2
<1>3. ASSUME NEW k \in 1 .. Len(plan') PROVE plan'[k].task \in Tasks \ inFlight
  BY DecisionIsQueued
<1> HIDE DEF p
<1>4. PlanTasks' = Ids(p)
  BY <1>1, <1>2 DEF PlanTasks, Ids
<1>5. ASSUME NEW g PROVE Ahead(g)' = IdsOn(p, g) /\ (Ahead(g)' # {} => On(p, g) # {})
  BY <1>1, <1>2 DEF Ahead, IdsOn, On
<1>6. IsFiniteSet(Ids(p))
  BY <1>1, IdsAreFinite
<1>7. PlanTasks' \subseteq Tasks /\ PlanTasks' \cap inFlight = {}
  BY <1>3 DEF PlanTasks
<1>8. \A g : Ahead(g)' \subseteq PlanTasks'
  BY DEF Ahead, PlanTasks
<1>9. PlanTasks' # {} => d # <<>>
  BY <1>1 DEF PlanTasks
<1> QED
  BY <1>4, <1>5, <1>6, <1>7, <1>8, <1>9 DEF p

(* A plan is about finitely many tasks.                                   *)
LEMMA PlanIsFinite ==
  ASSUME PlanType
  PROVE  IsFiniteSet(PlanTasks) /\ \A g : Ahead(g) \subseteq PlanTasks /\ IsFiniteSet(Ahead(g))
<1>1. Len(plan) \in Nat
  BY DEF PlanType
<1>2. IsFiniteSet(1 .. Len(plan))
  BY <1>1, FS_Interval
<1> DEFINE task == [i \in 1 .. Len(plan) |-> plan[i].task]
<1>3. PlanTasks = {task[i] : i \in 1 .. Len(plan)} /\ DOMAIN task = 1 .. Len(plan)
      /\ task = [i \in 1 .. Len(plan) |-> task[i]]
  BY DEF PlanTasks
<1> HIDE DEF task
<1>4. IsFiniteSet(PlanTasks)
  BY <1>2, <1>3, ImageIsFinite
<1>5. \A g : Ahead(g) \subseteq PlanTasks
  BY DEF Ahead, PlanTasks
<1> QED
  BY <1>4, <1>5, FS_Subset

(* A new plan fits the memory that is left.                               *)
LEMMA DispatchMemory ==
  ASSUME PlansFrom, NEW S, S \subseteq {t \in Range(pending) : Stale(t)}, NEW left,
         Dispatches(S, left), inFlight' = inFlight, work' \in [Tasks -> PendingWorkType]
  PROVE  PlanMemory'
<1> DEFINE p == PlanOf(S, left)
           f == MemOf(work)
           h == MemOf(work')
           T == PlanTasks'
<1>1. /\ T = Ids(p) /\ IsFiniteSet(T) /\ T \subseteq Tasks /\ T \cap inFlight = {}
      /\ T # {} => p.decisions # <<>>
  BY PlannedIds
<1>2. \A x \in Tasks : f[x] \in Nat /\ h[x] \in Nat
  <2>1. \A x \in Tasks : f[x] \in Nat
    BY CommitmentsAreNumbers, FS_EmptySet DEF PlansFrom
  <2>2. \A x \in Tasks : h[x] \in Nat
    BY DEF MemOf, PendingWorkType, EstimateType
  <2> QED
    BY <2>1, <2>2
<1>3. IsFiniteSet(inFlight) /\ inFlight \subseteq Tasks
  BY DEF PlansFrom, PlanInv, PlanSlots, QueueType
<1>4. \A x \in inFlight : h[x] = f[x]
  BY RunningIsKept DEF MemOf
<1> HIDE DEF T, f, h, p
<1>5. Total(h, inFlight) = Total(f, inFlight) /\ Total(f, inFlight) \in Nat
      /\ Total(h, T) \in Nat
  BY <1>1, <1>2, <1>3, <1>4, TotalsAgree, TotalRemoves
<1>6. Total(h, inFlight \cup T) = Total(h, inFlight) + Total(h, T)
  <2> DEFINE U == inFlight \cup T
  <2>1. IsFiniteSet(U)
    BY <1>1, <1>3, FS_Union
  <2>2. inFlight \in SUBSET U /\ T \in SUBSET U /\ inFlight \cap T = {}
        /\ \A x \in U : h[x] \in Nat
    BY <1>1, <1>2, <1>3
  <2> HIDE DEF U
  <2>3. Total(h, inFlight \cup T) = Total(h, inFlight) + Total(h, T)
    BY <2>1, <2>2, TotalOfUnion
  <2> QED
    BY <2>3
<1>7. ASSUME inFlight \cup T # {} PROVE Total(h, inFlight \cup T) < Memory
  <2>1. CASE T # {}
    <3>1. p.live.mem = Capacity.mem - Total(h, Ids(p)) /\ p.live.mem > 0
      <4>1. MemOk(p, Capacity, h)
        BY DispatchNeeds DEF p, h
      <4> QED
        BY <1>1, <2>1, <4>1 DEF MemOk
    <3>2. Capacity.mem = Memory - Committed(inFlight)
      BY DEF Capacity
    <3>3. Committed(inFlight) = Total(f, inFlight)
      BY <1>3, CommittedIsTotal DEF f
    <3> QED
      BY <1>1, <1>5, <1>6, <3>1, <3>2, <3>3, MachineAssumption
  <2>2. CASE T = {}
    <3> DEFINE A == inFlight \cup PlanTasks
    <3>1. Total(f, A) < Memory
      BY <1>7, <2>2 DEF PlansFrom, PlanInv, PlanMemory, f
    <3>2. PlanTasks \subseteq Range(pending) /\ IsFiniteSet(PlanTasks)
      BY PlanIsFinite DEF PlansFrom, PlanInv, PlanQueued
    <3>3. IsFiniteSet(A) /\ A \subseteq Tasks
      BY <1>3, <3>2, FS_Union DEF PlansFrom, QueueType
    <3>4. Total(f, inFlight) <= Total(f, A) /\ Total(f, A) \in Nat
      <4>1. \A x \in A : f[x] \in Nat
        BY <1>2, <3>3
      <4>2. inFlight \in SUBSET A
        OBVIOUS
      <4> HIDE DEF A
      <4> QED
        BY <3>3, <4>1, <4>2, TotalGrows, TotalRemoves
    <3>5. inFlight \cup T = inFlight
      BY <2>2
    <3> QED
      BY <1>5, <3>1, <3>4, <3>5, MachineAssumption
  <2> QED
    BY <2>1, <2>2
<1> QED
  BY <1>7 DEF PlanMemory, T, h

(* A new plan fits the VRAM that is left on each GPU.                     *)
LEMMA DispatchVram ==
  ASSUME PlansFrom, NEW S, S \subseteq {t \in Range(pending) : Stale(t)}, NEW left,
         Dispatches(S, left), inFlight' = inFlight, work' \in [Tasks -> PendingWorkType]
  PROVE  PlanVram'
<1> DEFINE p == PlanOf(S, left)
           f == VramOf(work)
           h == VramOf(work')
<1>1. \A x \in Tasks : f[x] \in Nat /\ h[x] \in Nat
  <2>1. \A x \in Tasks : f[x] \in Nat
    BY CommitmentsAreNumbers, FS_EmptySet DEF PlansFrom
  <2>2. \A x \in Tasks : h[x] \in Nat
    BY DEF VramOf, PendingWorkType, EstimateType
  <2> QED
    BY <2>1, <2>2
<1>2. IsFiniteSet(inFlight) /\ inFlight \subseteq Tasks
  BY DEF PlansFrom, PlanInv, PlanSlots, QueueType
<1>3. \A x \in inFlight : h[x] = f[x]
  BY RunningIsKept DEF VramOf
<1>4. VramOk(p, Capacity, h)
  BY DispatchNeeds
<1>5. \A g : RunningOn(g)' = RunningOn(g)
  BY RunningIsKept DEF RunningOn
<1> HIDE DEF f, h
<1> SUFFICES ASSUME NEW g \in Gpus, RunningOn(g) \cup Ahead(g)' # {}
             PROVE  g \in DOMAIN Vram /\ Total(h, RunningOn(g) \cup Ahead(g)') < Vram[g]
  BY <1>5 DEF PlanVram, h
<1> DEFINE R == RunningOn(g)
           T == Ahead(g)'
<1>6. /\ T = IdsOn(p, g) /\ T \subseteq PlanTasks' /\ IsFiniteSet(PlanTasks')
      /\ PlanTasks' \subseteq Tasks /\ PlanTasks' \cap inFlight = {} /\ (T # {} => On(p, g) # {})
  BY PlannedIds
<1>7. R \subseteq inFlight
  BY DEF RunningOn
<1>8. R = {t \in inFlight : work[t].gpu = g}
  BY DEF RunningOn
<1> HIDE DEF R, T, p
<1>9. /\ IsFiniteSet(T) /\ T \subseteq Tasks /\ T \cap R = {} /\ IsFiniteSet(R)
      /\ R \subseteq Tasks
  BY <1>2, <1>6, <1>7, FS_Subset
<1>10. Total(h, R) = Total(f, R) /\ Total(f, R) \in Nat /\ Total(h, T) \in Nat
  <2>1. \A x \in R : f[x] \in Nat /\ h[x] = f[x]
    BY <1>1, <1>3, <1>7, <1>9
  <2> QED
    BY <1>1, <1>9, <2>1, TotalsAgree, TotalRemoves
<1>11. Total(h, R \cup T) = Total(h, R) + Total(h, T)
  <2> DEFINE U == R \cup T
  <2>1. IsFiniteSet(U)
    BY <1>9, FS_Union
  <2>2. R \in SUBSET U /\ T \in SUBSET U /\ R \cap T = {} /\ \A x \in U : h[x] \in Nat
    BY <1>1, <1>9
  <2> HIDE DEF U
  <2> QED
    BY <2>1, <2>2, TotalOfUnion
<1>12. CASE T # {}
  <2>1. g \in DOMAIN Capacity.gpu
    <3>1. PICK k \in 1 .. Len(p.decisions) : p.decisions[k].gpu = g
      BY <1>6, <1>12 DEF On
    <3>2. p.decisions[k].gpu \in DOMAIN Capacity.gpu \cup {None}
      BY <1>4 DEF VramOk
    <3> QED
      BY <3>1, <3>2, NoneAssumption
  <2>2. DOMAIN Capacity.gpu = DOMAIN Vram
    BY DEF Capacity
  <2>3. p.live.gpu[g] = Capacity.gpu[g] - Total(h, T) /\ p.live.gpu[g] > 0
    BY <1>4, <1>6, <1>12, <2>1 DEF VramOk
  <2>4. Capacity.gpu[g] = Vram[g] - CommittedVram(inFlight, g)
    BY <2>1, <2>2 DEF Capacity
  <2>5. CommittedVram(inFlight, g) = Total(f, R)
    BY <1>2, <1>8, CommittedVramIsTotal DEF f
  <2>6. Vram[g] \in Int
    BY <2>1, <2>2, MachineAssumption
  <2> QED
    BY <1>10, <1>11, <2>1, <2>2, <2>3, <2>4, <2>5, <2>6 DEF R, T
<1>13. CASE T = {}
  <2> DEFINE A == R \cup Ahead(g)
  <2>1. R # {}
    BY <1>13 DEF R, T
  <2>2. g \in DOMAIN Vram /\ Total(f, A) < Vram[g]
    BY <2>1 DEF PlansFrom, PlanInv, PlanVram, f, R
  <2>3. IsFiniteSet(Ahead(g)) /\ Ahead(g) \subseteq Tasks
    BY PlanIsFinite DEF PlansFrom, PlanInv, PlanQueued, QueueType
  <2>4. IsFiniteSet(A) /\ R \in SUBSET A /\ \A x \in A : f[x] \in Nat
    BY <1>1, <1>9, <2>3, FS_Union
  <2> HIDE DEF A
  <2>5. Total(f, R) <= Total(f, A) /\ Total(f, A) \in Nat
    BY <2>4, TotalGrows, TotalRemoves
  <2>6. R \cup T = R /\ Vram[g] \in Int
    BY <1>13, <2>2, MachineAssumption
  <2>7. Total(h, R \cup T) = Total(f, R)
    BY <1>10, <2>6
  <2>8. Total(f, R) < Vram[g]
    BY <1>10, <2>2, <2>5, <2>6
  <2>9. Total(h, R \cup T) < Vram[g]
    BY <2>7, <2>8
  <2> QED
    BY <2>2, <2>9 DEF R, T
<1> QED
  BY <1>12, <1>13

(* So a new plan is sound.                                                *)
LEMMA DispatchKeepsPlan ==
  ASSUME PlansFrom, NEW S, S \subseteq {t \in Range(pending) : Stale(t)}, NEW left,
         Dispatches(S, left), inFlight' = inFlight, work' \in [Tasks -> PendingWorkType]
  PROVE  PlanInv'
<1>1. PlanQueued' /\ PlanSlots'
  BY DispatchQueued
<1>2. PlanAlone'
  BY DispatchAlone
<1>3. PlanCanary'
  BY DispatchCanary
<1>4. PlanMemory'
  BY DispatchMemory
<1>5. PlanVram'
  BY DispatchVram
<1> QED
  BY <1>1, <1>2, <1>3, <1>4, <1>5 DEF PlanInv
==============================================================================
