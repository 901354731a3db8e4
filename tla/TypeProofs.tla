----------------------------- MODULE TypeProofs ------------------------------
(***************************************************************************)
(* Every action of Executor keeps the types, and every task in one home:   *)
(* the queue, the flight, the timer or a thread about to queue it again.   *)
(***************************************************************************)
EXTENDS ExecutorProofs

FutureChanges ==
  \/ \E t \in Tasks : SubmitEnter(t) \/ SubmitAppend(t) \/ Cancel(t) \/ ShipTask(t)
  \/ \E th \in Reapers : FailLost(th)
  \/ \E th \in Threads : SettleResult(th)
  \/ FailPendingFutures \/ SettleTimeout \/ MaybeDispatch

WorkChanges ==
  \/ \E t \in Tasks : SubmitEnter(t) \/ SubmitAppend(t) \/ HandleTimeout(t) \/ ShipTask(t)
  \/ \E th \in Reapers : RetryLost(th)
  \/ MaybeDispatch

PendingChanges ==
  \/ \E t \in Tasks : SubmitAppend(t) \/ ShipTask(t)
  \/ \E th \in Reapers : RetryLost(th)
  \/ FailPendingFutures \/ MaybeDispatch \/ DropCancelled

InFlightChanges ==
  \/ \E t \in Tasks : HandleTimeout(t) \/ ShipTask(t)
  \/ \E th \in Reapers : DiscardQueue(th)
  \/ \E th \in Threads : ProcessResult(th)

PoolChanges ==
  \/ \E t \in Tasks : HandleTimeout(t)
  \/ \E th \in Reapers : CheckWorkers(th)
  \/ \E th \in Threads : ProcessResult(th)
  \/ SpawnWorker \/ ReplaceWorker

RetiringChanges ==
  \/ \E t \in Tasks : HandleTimeout(t)
  \/ \E th \in Reapers : CheckWorkers(th)
  \/ \E th \in Threads : ProcessResult(th)
  \/ Close \/ ReplaceWorker

SlotChanges ==
  \/ \E t \in Tasks : HandleTimeout(t) \/ ShipTask(t)
  \/ \E th \in Reapers : DiscardQueue(th)
  \/ \E th \in Threads : ProcessResult(th)
  \/ StopAllWorkers \/ SpawnWorker \/ ReplaceWorker

ProcChanges ==
  \/ \E w \in Workers : TakeWork(w) \/ TakeStop(w) \/ Finish(w) \/ Crash(w)
  \/ EscalateKill \/ SpawnWorker \/ ReplaceWorker

WorkQueueChanges ==
  \/ \E t \in Tasks : ShipTask(t)
  \/ \E th \in Threads : ProcessResult(th)
  \/ \E w \in Workers : TakeWork(w) \/ TakeStop(w)
  \/ StopAllWorkers \/ ReplaceWorker

ResultQueueChanges ==
  \/ \E w \in Workers : Finish(w) \/ Crash(w)
  \/ \E th \in Reapers, w \in Workers : DrainQueue(th, w)
  \/ ReadQueue \/ EscalateKill

PlanChanges ==
  \/ \E t \in Tasks : ShipTask(t)
  \/ MaybeDispatch \/ LeaveQueued \/ DropCancelled

ThreadChanges ==
  \/ \E t \in Tasks : ShipTask(t)
  \/ \E th \in Reapers : CheckWorkers(th) \/ DiscardQueue(th) \/ RetryLost(th) \/ FailLost(th)
  \/ \E th \in Threads : ProcessResult(th) \/ SettleResult(th)
  \/ \E w \in Workers : CheckQueue(w)
  \/ \E th \in Reapers, w \in Workers : DrainQueue(th, w)
  \/ Shutdown \/ FailPendingFutures \/ WaitForInFlight \/ StopThreads \/ StopAllWorkers
  \/ JoinWorkers \/ Close \/ Sweep \/ ReadQueue \/ NextQueue
  \/ MaybeDispatch \/ ReuseWorker \/ SpawnWorker \/ ReplaceWorker \/ LeaveQueued
  \/ DropCancelled

TimerChanges ==
  \/ \E t \in Tasks : HandleTimeout(t)
  \/ ScanTimeouts \/ EscalateKill \/ SettleTimeout

Framed ==
  /\ UNCHANGED future \/ FutureChanges
  /\ UNCHANGED work \/ WorkChanges
  /\ UNCHANGED pending \/ PendingChanges
  /\ UNCHANGED inFlight \/ InFlightChanges
  /\ UNCHANGED pool \/ PoolChanges
  /\ UNCHANGED retiring \/ RetiringChanges
  /\ UNCHANGED slot \/ SlotChanges
  /\ UNCHANGED proc \/ ProcChanges
  /\ UNCHANGED workQueue \/ WorkQueueChanges
  /\ UNCHANGED resultQueue \/ ResultQueueChanges
  /\ UNCHANGED plan \/ PlanChanges
  /\ UNCHANGED thread \/ ThreadChanges
  /\ UNCHANGED timer \/ TimerChanges
  /\ UNCHANGED spawned \/ SpawnWorker \/ ReplaceWorker
  /\ UNCHANGED overdue \/ (\E t \in Tasks : Overdue(t)) \/ (\E t \in Tasks : ShipTask(t))
  /\ UNCHANGED rr \/ MaybeDispatch
  /\ UNCHANGED profile \/ (\E th \in Reapers : RetryLost(th)) \/ (\E th \in Threads : SettleResult(th))
  /\ UNCHANGED crashes \/ (\E w \in Workers : Crash(w))
  /\ UNCHANGED ran \/ (\E w \in Workers : TakeWork(w))
  /\ UNCHANGED stopping \/ StopThreads
  /\ UNCHANGED accepting \/ Shutdown
  /\ UNCHANGED wait \/ Shutdown
  /\ UNCHANGED onTimeout

(* Every step changes a variable only by an action of the variable's      *)
(* list.                                                                  *)
LEMMA StepIsFramed == [Next]_vars => Framed
<1> SUFFICES ASSUME [Next]_vars PROVE Framed
  OBVIOUS
<1> USE DEF Framed, FutureChanges, WorkChanges, PendingChanges, InFlightChanges, PoolChanges,
   RetiringChanges, SlotChanges, ProcChanges, WorkQueueChanges, ResultQueueChanges, PlanChanges,
   ThreadChanges, TimerChanges
<1>1. ASSUME NEW t \in Tasks, SubmitEnter(t) PROVE Framed
  <2>1. UNCHANGED <<overdue, pending, inFlight, pool, retiring, slot, spawned, proc, workQueue,
                  resultQueue, crashes, ran, plan, rr, accepting, stopping, wait, onTimeout,
                  profile, thread, timer>>
    BY <1>1 DEF SubmitEnter, queueVars, poolVars, procVars, planVars, ctrlVars
  <2> QED
    BY <1>1, <2>1
<1>2. ASSUME NEW t \in Tasks, SubmitAppend(t) PROVE Framed
  <2>1. UNCHANGED <<overdue, inFlight, pool, retiring, slot, spawned, proc, workQueue,
                  resultQueue, crashes, ran, plan, rr, accepting, stopping, wait, onTimeout,
                  profile, thread, timer>>
    BY <1>2 DEF SubmitAppend, poolVars, procVars, planVars, ctrlVars
  <2> QED
    BY <1>2, <2>1
<1>3. ASSUME NEW t \in Tasks, Cancel(t) PROVE Framed
  <2>1. UNCHANGED <<work, overdue, pending, inFlight, pool, retiring, slot, spawned, proc,
                  workQueue, resultQueue, crashes, ran, plan, rr, accepting, stopping, wait,
                  onTimeout, profile, thread, timer>>
    BY <1>3 DEF Cancel, queueVars, poolVars, procVars, planVars, ctrlVars
  <2> QED
    BY <1>3, <2>1
<1>4. ASSUME NEW t \in Tasks, Overdue(t) PROVE Framed
  <2>1. UNCHANGED <<future, work, pending, inFlight, pool, retiring, slot, spawned, proc,
                  workQueue, resultQueue, crashes, ran, plan, rr, accepting, stopping, wait,
                  onTimeout, profile, thread, timer>>
    BY <1>4 DEF Overdue, queueVars, poolVars, procVars, planVars, ctrlVars
  <2> QED
    BY <1>4, <2>1
<1>5. ASSUME NEW t \in Tasks, HandleTimeout(t) PROVE Framed
  <2>1. UNCHANGED <<future, overdue, pending, spawned, proc, workQueue, resultQueue, crashes,
                  ran, plan, rr, accepting, stopping, wait, onTimeout, profile, thread>>
    BY <1>5 DEF HandleTimeout, procVars, planVars, ctrlVars
  <2> QED
    BY <1>5, <2>1
<1>6. ASSUME NEW t \in Tasks, ShipTask(t) PROVE Framed
  <2>1. UNCHANGED <<pool, retiring, spawned, proc, resultQueue, crashes, ran, rr, accepting,
                  stopping, wait, onTimeout, profile, timer>>
    BY <1>6 DEF ShipTask, ctrlVars
  <2> QED
    BY <1>6, <2>1
<1>7. CASE Shutdown
  <2>1. UNCHANGED <<future, work, overdue, pending, inFlight, pool, retiring, slot, spawned,
                  proc, workQueue, resultQueue, crashes, ran, plan, rr, stopping, onTimeout,
                  profile, timer>>
    BY <1>7 DEF Shutdown, taskVars, queueVars, poolVars, procVars, planVars
  <2> QED
    BY <1>7, <2>1
<1>8. CASE FailPendingFutures
  <2>1. UNCHANGED <<work, overdue, inFlight, pool, retiring, slot, spawned, proc, workQueue,
                  resultQueue, crashes, ran, plan, rr, accepting, stopping, wait, onTimeout,
                  profile, timer>>
    BY <1>8 DEF FailPendingFutures, poolVars, procVars, planVars, ctrlVars
  <2> QED
    BY <1>8, <2>1
<1>9. CASE WaitForInFlight
  <2>1. UNCHANGED <<future, work, overdue, pending, inFlight, pool, retiring, slot, spawned,
                  proc, workQueue, resultQueue, crashes, ran, plan, rr, accepting, stopping,
                  wait, onTimeout, profile, timer>>
    BY <1>9 DEF WaitForInFlight, taskVars, queueVars, poolVars, procVars, planVars, ctrlVars
  <2> QED
    BY <1>9, <2>1
<1>10. CASE StopThreads
  <2>1. UNCHANGED <<future, work, overdue, pending, inFlight, pool, retiring, slot, spawned,
                  proc, workQueue, resultQueue, crashes, ran, plan, rr, accepting, wait,
                  onTimeout, profile, timer>>
    BY <1>10 DEF StopThreads, taskVars, queueVars, poolVars, procVars, planVars
  <2> QED
    BY <1>10, <2>1
<1>11. CASE StopAllWorkers
  <2>1. UNCHANGED <<future, work, overdue, pending, inFlight, pool, retiring, spawned, proc,
                  resultQueue, crashes, ran, plan, rr, accepting, stopping, wait, onTimeout,
                  profile, timer>>
    BY <1>11 DEF StopAllWorkers, taskVars, queueVars, planVars, ctrlVars
  <2> QED
    BY <1>11, <2>1
<1>12. CASE JoinWorkers
  <2>1. UNCHANGED <<future, work, overdue, pending, inFlight, pool, retiring, slot, spawned,
                  proc, workQueue, resultQueue, crashes, ran, plan, rr, accepting, stopping,
                  wait, onTimeout, profile, timer>>
    BY <1>12 DEF JoinWorkers, taskVars, queueVars, poolVars, procVars, planVars, ctrlVars
  <2> QED
    BY <1>12, <2>1
<1>13. CASE Close
  <2>1. UNCHANGED <<future, work, overdue, pending, inFlight, pool, slot, spawned, proc,
                  workQueue, resultQueue, crashes, ran, plan, rr, accepting, stopping, wait,
                  onTimeout, profile, timer>>
    BY <1>13 DEF Close, taskVars, queueVars, procVars, planVars, ctrlVars
  <2> QED
    BY <1>13, <2>1
<1>14. CASE Sweep
  <2>1. UNCHANGED <<future, work, overdue, pending, inFlight, pool, retiring, slot, spawned,
                  proc, workQueue, resultQueue, crashes, ran, plan, rr, accepting, stopping,
                  wait, onTimeout, profile, timer>>
    BY <1>14 DEF Sweep, taskVars, queueVars, poolVars, procVars, planVars, ctrlVars
  <2> QED
    BY <1>14, <2>1
<1>15. CASE ReadQueue
  <2>1. UNCHANGED <<future, work, overdue, pending, inFlight, pool, retiring, slot, spawned,
                  proc, workQueue, crashes, ran, plan, rr, accepting, stopping, wait,
                  onTimeout, profile, timer>>
    BY <1>15 DEF ReadQueue, taskVars, queueVars, poolVars, planVars, ctrlVars
  <2> QED
    BY <1>15, <2>1
<1>16. CASE NextQueue
  <2>1. UNCHANGED <<future, work, overdue, pending, inFlight, pool, retiring, slot, spawned,
                  proc, workQueue, resultQueue, crashes, ran, plan, rr, accepting, stopping,
                  wait, onTimeout, profile, timer>>
    BY <1>16 DEF NextQueue, taskVars, queueVars, poolVars, procVars, planVars, ctrlVars
  <2> QED
    BY <1>16, <2>1
<1>17. CASE ScanTimeouts
  <2>1. UNCHANGED <<future, work, overdue, pending, inFlight, pool, retiring, slot, spawned,
                  proc, workQueue, resultQueue, crashes, ran, plan, rr, accepting, stopping,
                  wait, onTimeout, profile, thread>>
    BY <1>17 DEF ScanTimeouts, taskVars, queueVars, poolVars, procVars, planVars, ctrlVars
  <2> QED
    BY <1>17, <2>1
<1>18. CASE EscalateKill
  <2>1. UNCHANGED <<future, work, overdue, pending, inFlight, pool, retiring, slot, spawned,
                  workQueue, crashes, ran, plan, rr, accepting, stopping, wait, onTimeout,
                  profile, thread>>
    BY <1>18 DEF EscalateKill, taskVars, queueVars, poolVars, planVars, ctrlVars
  <2> QED
    BY <1>18, <2>1
<1>19. CASE SettleTimeout
  <2>1. UNCHANGED <<work, overdue, pending, inFlight, pool, retiring, slot, spawned, proc,
                  workQueue, resultQueue, crashes, ran, plan, rr, accepting, stopping, wait,
                  onTimeout, profile, thread>>
    BY <1>19 DEF SettleTimeout, queueVars, poolVars, procVars, planVars, ctrlVars
  <2> QED
    BY <1>19, <2>1
<1>20. CASE MaybeDispatch
  <2>1. UNCHANGED <<overdue, inFlight, pool, retiring, slot, spawned, proc, workQueue,
                  resultQueue, crashes, ran, accepting, stopping, wait, onTimeout, profile,
                  timer>>
    BY <1>20 DEF MaybeDispatch, poolVars, procVars, ctrlVars
  <2> QED
    BY <1>20, <2>1
<1>21. CASE ReuseWorker
  <2>1. UNCHANGED <<future, work, overdue, pending, inFlight, pool, retiring, slot, spawned,
                  proc, workQueue, resultQueue, crashes, ran, plan, rr, accepting, stopping,
                  wait, onTimeout, profile, timer>>
    BY <1>21 DEF ReuseWorker, taskVars, queueVars, poolVars, procVars, planVars, ctrlVars
  <2> QED
    BY <1>21, <2>1
<1>22. CASE SpawnWorker
  <2>1. UNCHANGED <<future, work, overdue, pending, inFlight, retiring, workQueue, resultQueue,
                  crashes, ran, plan, rr, accepting, stopping, wait, onTimeout, profile,
                  timer>>
    BY <1>22 DEF SpawnWorker, taskVars, queueVars, planVars, ctrlVars
  <2> QED
    BY <1>22, <2>1
<1>23. CASE ReplaceWorker
  <2>1. UNCHANGED <<future, work, overdue, pending, inFlight, resultQueue, crashes, ran, plan,
                  rr, accepting, stopping, wait, onTimeout, profile, timer>>
    BY <1>23 DEF ReplaceWorker, taskVars, queueVars, planVars, ctrlVars
  <2> QED
    BY <1>23, <2>1
<1>24. CASE LeaveQueued
  <2>1. UNCHANGED <<future, work, overdue, pending, inFlight, pool, retiring, slot, spawned,
                  proc, workQueue, resultQueue, crashes, ran, rr, accepting, stopping, wait,
                  onTimeout, profile, timer>>
    BY <1>24 DEF LeaveQueued, taskVars, queueVars, poolVars, procVars, ctrlVars
  <2> QED
    BY <1>24, <2>1
<1>25. CASE DropCancelled
  <2>1. UNCHANGED <<future, work, overdue, inFlight, pool, retiring, slot, spawned, proc,
                  workQueue, resultQueue, crashes, ran, rr, accepting, stopping, wait,
                  onTimeout, profile, timer>>
    BY <1>25 DEF DropCancelled, taskVars, poolVars, procVars, ctrlVars
  <2> QED
    BY <1>25, <2>1
<1>26. ASSUME NEW th \in Reapers, CheckWorkers(th) PROVE Framed
  <2>1. UNCHANGED <<future, work, overdue, pending, inFlight, slot, spawned, proc, workQueue,
                  resultQueue, crashes, ran, plan, rr, accepting, stopping, wait, onTimeout,
                  profile, timer>>
    BY <1>26 DEF CheckWorkers, taskVars, queueVars, procVars, planVars, ctrlVars
  <2> QED
    BY <1>26, <2>1
<1>27. ASSUME NEW th \in Reapers, DiscardQueue(th) PROVE Framed
  <2>1. UNCHANGED <<future, work, overdue, pending, pool, retiring, spawned, proc, workQueue,
                  resultQueue, crashes, ran, plan, rr, accepting, stopping, wait, onTimeout,
                  profile, timer>>
    BY <1>27 DEF DiscardQueue, taskVars, procVars, planVars, ctrlVars
  <2> QED
    BY <1>27, <2>1
<1>28. ASSUME NEW th \in Reapers, RetryLost(th) PROVE Framed
  <2>1. UNCHANGED <<future, overdue, inFlight, pool, retiring, slot, spawned, proc, workQueue,
                  resultQueue, crashes, ran, plan, rr, accepting, stopping, wait, onTimeout,
                  timer>>
    BY <1>28 DEF RetryLost, poolVars, procVars, planVars, ctrlVars
  <2> QED
    BY <1>28, <2>1
<1>29. ASSUME NEW th \in Reapers, FailLost(th) PROVE Framed
  <2>1. UNCHANGED <<work, overdue, pending, inFlight, pool, retiring, slot, spawned, proc,
                  workQueue, resultQueue, crashes, ran, plan, rr, accepting, stopping, wait,
                  onTimeout, profile, timer>>
    BY <1>29 DEF FailLost, queueVars, poolVars, procVars, planVars, ctrlVars
  <2> QED
    BY <1>29, <2>1
<1>30. ASSUME NEW th \in Reapers, NEW w \in Workers, DrainQueue(th, w) PROVE Framed
  <2>1. UNCHANGED <<future, work, overdue, pending, inFlight, pool, retiring, slot, spawned,
                  proc, workQueue, crashes, ran, plan, rr, accepting, stopping, wait,
                  onTimeout, profile, timer>>
    BY <1>30 DEF DrainQueue, taskVars, queueVars, poolVars, planVars, ctrlVars
  <2> QED
    BY <1>30, <2>1
<1>31. ASSUME NEW th \in Threads, ProcessResult(th) PROVE Framed
  <2>1. UNCHANGED <<future, work, overdue, pending, spawned, proc, resultQueue, crashes, ran,
                  plan, rr, accepting, stopping, wait, onTimeout, profile, timer>>
    BY <1>31 DEF ProcessResult, taskVars, planVars, ctrlVars
  <2> QED
    BY <1>31, <2>1
<1>32. ASSUME NEW th \in Threads, SettleResult(th) PROVE Framed
  <2>1. UNCHANGED <<work, overdue, pending, inFlight, pool, retiring, slot, spawned, proc,
                  workQueue, resultQueue, crashes, ran, plan, rr, accepting, stopping, wait,
                  onTimeout, timer>>
    BY <1>32 DEF SettleResult, queueVars, poolVars, procVars, planVars, ctrlVars
  <2> QED
    BY <1>32, <2>1
<1>33. ASSUME NEW w \in Workers, CheckQueue(w) PROVE Framed
  <2>1. UNCHANGED <<future, work, overdue, pending, inFlight, pool, retiring, slot, spawned,
                  proc, workQueue, resultQueue, crashes, ran, plan, rr, accepting, stopping,
                  wait, onTimeout, profile, timer>>
    BY <1>33 DEF CheckQueue, taskVars, queueVars, poolVars, procVars, planVars, ctrlVars
  <2> QED
    BY <1>33, <2>1
<1>34. ASSUME NEW w \in Workers, TakeWork(w) PROVE Framed
  <2>1. UNCHANGED <<future, work, overdue, pending, inFlight, pool, retiring, slot, spawned,
                  resultQueue, crashes, plan, rr, accepting, stopping, wait, onTimeout,
                  profile, thread, timer>>
    BY <1>34 DEF TakeWork, taskVars, queueVars, poolVars, planVars, ctrlVars
  <2> QED
    BY <1>34, <2>1
<1>35. ASSUME NEW w \in Workers, TakeStop(w) PROVE Framed
  <2>1. UNCHANGED <<future, work, overdue, pending, inFlight, pool, retiring, slot, spawned,
                  resultQueue, crashes, ran, plan, rr, accepting, stopping, wait, onTimeout,
                  profile, thread, timer>>
    BY <1>35 DEF TakeStop, taskVars, queueVars, poolVars, planVars, ctrlVars
  <2> QED
    BY <1>35, <2>1
<1>36. ASSUME NEW w \in Workers, Finish(w) PROVE Framed
  <2>1. UNCHANGED <<future, work, overdue, pending, inFlight, pool, retiring, slot, spawned,
                  workQueue, crashes, ran, plan, rr, accepting, stopping, wait, onTimeout,
                  profile, thread, timer>>
    BY <1>36 DEF Finish, taskVars, queueVars, poolVars, planVars, ctrlVars
  <2> QED
    BY <1>36, <2>1
<1>37. ASSUME NEW w \in Workers, Crash(w) PROVE Framed
  <2>1. UNCHANGED <<future, work, overdue, pending, inFlight, pool, retiring, slot, spawned,
                  workQueue, ran, plan, rr, accepting, stopping, wait, onTimeout, profile,
                  thread, timer>>
    BY <1>37 DEF Crash, taskVars, queueVars, poolVars, planVars, ctrlVars
  <2> QED
    BY <1>37, <2>1
<1>38. CASE UNCHANGED vars
  BY <1>38 DEF vars, taskVars, queueVars, poolVars, procVars, planVars, ctrlVars
<1>39. CASE FutureMoves
  BY <1>39, <1>1, <1>2, <1>3, <1>4, <1>5, <1>6, <1>7, <1>8, <1>9, <1>10, <1>11, <1>12, <1>13,
     <1>14, <1>15, <1>16, <1>17, <1>18, <1>19, <1>20, <1>21, <1>22, <1>23, <1>24, <1>25, <1>26,
     <1>27, <1>28, <1>29, <1>30, <1>31, <1>32, <1>33, <1>34, <1>35, <1>36, <1>37 DEF FutureMoves,
     Submit
<1>40. CASE FutureIsKept
  BY <1>40, <1>1, <1>2, <1>3, <1>4, <1>5, <1>6, <1>7, <1>8, <1>9, <1>10, <1>11, <1>12, <1>13,
     <1>14, <1>15, <1>16, <1>17, <1>18, <1>19, <1>20, <1>21, <1>22, <1>23, <1>24, <1>25, <1>26,
     <1>27, <1>28, <1>29, <1>30, <1>31, <1>32, <1>33, <1>34, <1>35, <1>36, <1>37 DEF FutureIsKept,
     RunWorker
<1> QED
  BY <1>38, <1>39, <1>40, NextSplits

-----------------------------------------------------------------------------
(* Threads.  A step of thread th leaves it with the record r.               *)

Turn(th, r) ==
  /\ thread' = [thread EXCEPT ![th] = r]
  /\ r \in ThreadType /\ ThreadFits(th, r) /\ ThreadSees(r, spawned')

\* r is about to settle or to re-queue t.
Carries(r, t) == (r.hand # None /\ r.hand.task = t) \/ r.lost = t

\* The thread th moves to r, still carrying what it carried.
Walks(th, r) == Turn(th, r) /\ \A t \in Tasks : Carries(r, t) <=> Carries(thread[th], t)

\* The thread th moves to r, and carries nothing any more.
Unloads(th, r) == Turn(th, r) /\ \A t \in Tasks : ~ Carries(r, t)

Busy == {"sweep", "read", "reap", "drain", "lost"}

(* What a thread's pc tells of its record.                                *)
LEMMA ThreadFacts ==
  ASSUME ThreadInv, NEW th \in Threads
  PROVE  /\ thread[th] \in ThreadType /\ ThreadFits(th, thread[th])
         /\ ThreadSees(thread[th], spawned)
         /\ thread[th].pc \notin Busy =>
              /\ thread[th].hand = None /\ thread[th].lost = None /\ thread[th].buf = <<>>
              /\ thread[th].todo = {} /\ thread[th].dead = {}
         /\ thread[th].pc # "drain" => thread[th].hand = None /\ thread[th].buf = <<>>
         /\ thread[th].pc # "lost" => thread[th].lost = None
BY DEF ThreadInv, ThreadFits, Busy

(* A thread at rest carries no task.                                      *)
LEMMA RestCarriesNothing ==
  ASSUME NEW pc, NEW t \in Tasks
  PROVE  ~ Carries(AtRest(pc), t)
BY TasksAssumption DEF AtRest, Carries

\* A thread with nothing in hand moves on: its pc alone changes.
LEMMA PcTurns ==
  ASSUME ThreadInv, PoolType, spawned' = spawned, NEW th \in Threads, thread[th].pc \notin Busy,
         NEW pc \in Pcs(th) \ Busy, thread' = [thread EXCEPT ![th].pc = pc]
  PROVE  Walks(th, [thread[th] EXCEPT !.pc = pc])
<1> DEFINE r == [thread[th] EXCEPT !.pc = pc]
<1>1. /\ thread[th] \in ThreadType /\ ThreadFits(th, thread[th]) /\ ThreadSees(thread[th], spawned)
      /\ thread[th].hand = None /\ thread[th].lost = None /\ thread[th].buf = <<>>
      /\ thread[th].todo = {} /\ thread[th].dead = {}
  BY ThreadFacts
<1>2. pc \in {"idle", "top", "plan", "ship", "up", "failing", "check", "stop", "stopAll", "join",
              "close", "closed"}
  BY DEF Pcs, Threads, Busy
<1>3. /\ r.pc = pc /\ r.hand = None /\ r.lost = None /\ r.buf = <<>> /\ r.todo = {} /\ r.dead = {}
      /\ r.slot = thread[th].slot /\ r \in ThreadType
  BY <1>1, <1>2 DEF ThreadType
<1>4. thread' = [thread EXCEPT ![th] = r]
  OBVIOUS
<1> HIDE DEF r
<1>5. ThreadFits(th, r)
  BY <1>2, <1>3 DEF ThreadFits
<1>6. ThreadSees(r, spawned')
  BY <1>1, <1>3 DEF ThreadSees
<1>7. \A t \in Tasks : Carries(r, t) <=> Carries(thread[th], t)
  BY <1>1, <1>3 DEF Carries
<1> QED
  BY <1>3, <1>4, <1>5, <1>6, <1>7 DEF Walks, Turn, r

\* A thread with nothing in hand comes to rest.
LEMMA RestTurns ==
  ASSUME ThreadInv, PoolType, spawned' = spawned, NEW th \in Threads, thread[th].pc \notin Busy,
         NEW pc \in Pcs(th) \ Busy, thread' = [thread EXCEPT ![th] = AtRest(pc)]
  PROVE  Walks(th, AtRest(pc))
<1>1. thread[th].hand = None /\ thread[th].lost = None
  BY ThreadFacts
<1>2. AtRest(pc) \in ThreadType /\ ThreadFits(th, AtRest(pc))
  BY RestFits DEF Busy
<1>3. ThreadSees(AtRest(pc), spawned')
  BY RestSees DEF PoolType
<1>4. \A t \in Tasks : ~ Carries(AtRest(pc), t) /\ ~ Carries(thread[th], t)
  BY <1>1, TasksAssumption, RestCarriesNothing DEF Carries
<1> QED
  BY <1>2, <1>3, <1>4 DEF Walks, Turn

(* The steps of a shutdown that only move its pc.                         *)
LEMMA CallerTurns ==
  ASSUME TypeInv, [Next]_vars,
         \/ Shutdown \/ FailPendingFutures \/ WaitForInFlight \/ StopThreads \/ StopAllWorkers
         \/ Close
  PROVE  \E r : Walks("caller", r)
<1>0. ThreadInv /\ PoolType /\ "caller" \in Threads
  BY DEF TypeInv, Threads
<1>1. /\ spawned' = spawned
      /\ \E pc \in {"failing", "top", "stop", "stopAll", "join", "closed"} :
           thread' = [thread EXCEPT !["caller"].pc = pc]
      /\ thread["caller"].pc \notin Busy
  <2> USE DEF poolVars, Busy
  <2>1. CASE Shutdown
    BY <2>1 DEF Shutdown
  <2>2. CASE FailPendingFutures
    BY <2>2 DEF FailPendingFutures
  <2>3. CASE WaitForInFlight
    BY <2>3 DEF WaitForInFlight
  <2>4. CASE StopThreads
    BY <2>4 DEF StopThreads
  <2>5. CASE StopAllWorkers
    BY <2>5 DEF StopAllWorkers
  <2>6. CASE Close
    BY <2>6 DEF Close
  <2> QED
    BY <2>1, <2>2, <2>3, <2>4, <2>5, <2>6
<1>2. PICK pc \in {"failing", "top", "stop", "stopAll", "join", "closed"} :
        thread' = [thread EXCEPT !["caller"].pc = pc]
  BY <1>1
<1>3. pc \in Pcs("caller") \ Busy
  BY DEF Pcs, Busy
<1>4. Walks("caller", [thread["caller"] EXCEPT !.pc = pc])
  BY <1>0, <1>1, <1>2, <1>3, PcTurns
<1> QED
  BY <1>4

(* Where a reaper goes when it is done with its workers.                  *)
LEMMA OnwardFits ==
  ASSUME FlagsType, NEW th \in Reapers
  PROVE  /\ Onward(th) \in Pcs(th) \ Busy
         /\ th = "dispatch" => Onward(th) = "plan"
         /\ th = "caller" => Onward(th) = IF stopping THEN "close" ELSE "check"
<1>0. stopping \in BOOLEAN
  BY DEF FlagsType
<1>1. CASE th = "dispatch"
  <2>1. Onward(th) = "plan"
    BY <1>1 DEF Onward
  <2> QED
    BY <1>1, <2>1 DEF Pcs, Busy
<1>2. CASE th = "caller"
  <2>1. Onward(th) = IF stopping THEN "close" ELSE "check"
    BY <1>0, <1>2 DEF Onward
  <2> QED
    BY <1>0, <1>2, <2>1 DEF Pcs, Busy
<1> QED
  BY <1>1, <1>2 DEF Reapers, Threads

\* A reaper at rest visits workers.
Reaping(todo, dead) == [AtRest("reap") EXCEPT !.todo = todo, !.dead = dead]

(* A reaper that visits workers has nothing in hand.                      *)
LEMMA ReapingFits ==
  ASSUME PoolType, NEW th \in Reapers, NEW todo \in SUBSET Seen, NEW dead \in SUBSET Seen
  PROVE  /\ Reaping(todo, dead) \in ThreadType /\ ThreadFits(th, Reaping(todo, dead))
         /\ ThreadSees(Reaping(todo, dead), spawned)
         /\ \A t \in Tasks : ~ Carries(Reaping(todo, dead), t)
<1> DEFINE r == Reaping(todo, dead)
<1>1. Seen \subseteq Workers
  BY BoundsAssumption DEF PoolType, Seen, Workers
<1> DEFINE rest == AtRest("reap")
<1>7. rest \in ThreadType /\ rest.pc = "reap" /\ rest.slot = None /\ rest.buf = <<>>
      /\ rest.hand = None /\ rest.lost = None
  BY DEF AtRest, ThreadType
<1>8. r = [rest EXCEPT !.todo = todo, !.dead = dead]
  BY DEF Reaping
<1> HIDE DEF r, rest
<1>2. /\ r.pc = "reap" /\ r.todo = todo /\ r.dead = dead /\ r.slot = None /\ r.buf = <<>>
      /\ r.hand = None /\ r.lost = None
  BY <1>7, <1>8 DEF ThreadType
<1>3. r \in ThreadType
  BY <1>1, <1>7, <1>8 DEF ThreadType
<1>4. ThreadFits(th, r)
  BY <1>2 DEF ThreadFits, Pcs, Reapers, Threads
<1>5. ThreadSees(r, spawned)
  BY <1>2 DEF ThreadSees, Seen
<1>6. \A t \in Tasks : ~ Carries(r, t)
  BY <1>2, TasksAssumption DEF Carries
<1> QED
  BY <1>3, <1>4, <1>5, <1>6 DEF r

(* Nor has one that is done with a worker.                                *)
LEMMA ProceedFits ==
  ASSUME ThreadInv, PoolType, FlagsType, NEW th \in Reapers
  PROVE  /\ Proceed(th) \in ThreadType /\ ThreadFits(th, Proceed(th))
         /\ ThreadSees(Proceed(th), spawned)
         /\ \A t \in Tasks : ~ Carries(Proceed(th), t)
<1>1. th \in Threads /\ thread[th].todo \subseteq Seen /\ thread[th].dead \subseteq Seen
  BY DEF ThreadInv, ThreadSees, Seen, Reapers
<1>2. CASE thread[th].todo = {}
  <2>1. Proceed(th) = AtRest(Onward(th))
    BY <1>2 DEF Proceed
  <2>2. Onward(th) \in Pcs(th) \ Busy
    BY OnwardFits
  <2>3. spawned \in Nat
    BY DEF PoolType
  <2> QED
    BY <1>1, <2>1, <2>2, <2>3, RestFits, RestSees, RestCarriesNothing DEF Busy
<1>3. CASE thread[th].todo # {}
  <2>1. Proceed(th) = Reaping(thread[th].todo, thread[th].dead)
    BY <1>3 DEF Proceed, Reaping
  <2> QED
    BY <1>1, <2>1, ReapingFits
<1> QED
  BY <1>2, <1>3

(* The shutdown turns to the workers that are left.                       *)
LEMMA JoinTurns ==
  ASSUME TypeInv, JoinWorkers
  PROVE  \E r : Walks("caller", r)
<1> DEFINE left == pool \cup retiring
           pc == IF left = {} THEN "close" ELSE "reap"
           c == thread["caller"]
           r == [c EXCEPT !.pc = pc, !.todo = left]
<1>0. ThreadInv /\ PoolType /\ "caller" \in Threads
  BY DEF TypeInv, Threads
<1>1. /\ c \in ThreadType /\ c.pc = "join" /\ ThreadFits("caller", c) /\ ThreadSees(c, spawned)
      /\ c.hand = None /\ c.lost = None /\ c.buf = <<>> /\ c.dead = {}
  BY <1>0, ThreadFacts DEF JoinWorkers, Busy
<1>2. spawned' = spawned /\ thread' = [thread EXCEPT !["caller"] = r]
  BY DEF JoinWorkers, poolVars
<1>3. left \subseteq 1 .. spawned /\ 1 .. spawned \subseteq Workers
  BY <1>0, BoundsAssumption DEF PoolType, Seen, Workers
<1> HIDE DEF left, c
<1>4. /\ r.pc = pc /\ r.todo = left /\ r.dead = {} /\ r.slot = c.slot /\ r.buf = <<>>
      /\ r.hand = None /\ r.lost = None /\ r \in ThreadType
  BY <1>1, <1>3 DEF ThreadType
<1>5. pc \in {"close", "reap"} /\ (pc = "close" => left = {})
  OBVIOUS
<1> HIDE DEF r, pc
<1>6. ThreadFits("caller", r)
  BY <1>4, <1>5 DEF ThreadFits, Pcs
<1>7. ThreadSees(r, spawned')
  BY <1>1, <1>2, <1>3, <1>4 DEF ThreadSees
<1>8. \A t \in Tasks : Carries(r, t) <=> Carries(c, t)
  BY <1>1, <1>4 DEF Carries
<1> QED
  BY <1>2, <1>4, <1>6, <1>7, <1>8 DEF Walks, Turn, c

(* A reaper turns to the dead and the exited.                             *)
LEMMA CheckTurns ==
  ASSUME TypeInv, NEW th \in Reapers, CheckWorkers(th)
  PROVE  \E r : Walks(th, r)
<1>0. ThreadInv /\ PoolType /\ FlagsType /\ th \in Threads
  BY DEF TypeInv, Reapers
<1>1. thread[th].pc = "top" /\ spawned' = spawned
  BY DEF CheckWorkers
<1>2. thread[th].pc \notin Busy
  BY <1>1 DEF Busy
<1>3. CASE Dead \cup Exited = {}
  <2>1. thread' = [thread EXCEPT ![th] = AtRest(Onward(th))]
    BY <1>3 DEF CheckWorkers
  <2>2. Walks(th, AtRest(Onward(th)))
    BY <1>0, <1>1, <1>2, <2>1, OnwardFits, RestTurns
  <2> QED
    BY <2>2
<1>4. CASE Dead \cup Exited # {}
  <2> DEFINE r == Reaping(Dead \cup Exited, Dead)
  <2>1. thread' = [thread EXCEPT ![th] = r]
    BY <1>4 DEF CheckWorkers, Reaping
  <2>2. Dead \cup Exited \in SUBSET Seen /\ Dead \in SUBSET Seen
    BY <1>0 DEF Dead, Exited, PoolType
  <2>3. r \in ThreadType /\ ThreadFits(th, r) /\ ThreadSees(r, spawned)
        /\ \A t \in Tasks : ~ Carries(r, t)
    BY <1>0, <2>2, ReapingFits
  <2> HIDE DEF r
  <2>4. thread[th].hand = None /\ thread[th].lost = None
    BY <1>0, <1>2, ThreadFacts
  <2>5. \A t \in Tasks : ~ Carries(thread[th], t)
    BY <2>4, TasksAssumption DEF Carries
  <2>6. Walks(th, r)
    BY <1>1, <2>1, <2>3, <2>5 DEF Walks, Turn
  <2> QED
    BY <2>6
<1> QED
  BY <1>3, <1>4

(* The collector lists the pool.                                          *)
LEMMA SweepTurns ==
  ASSUME TypeInv, Sweep
  PROVE  \E r : Walks("collector", r)
<1> DEFINE c == thread["collector"]
           r == [c EXCEPT !.pc = "sweep", !.todo = pool]
<1>0. ThreadInv /\ PoolType /\ "collector" \in Threads
  BY DEF TypeInv, Threads
<1>1. /\ c \in ThreadType /\ c.pc = "idle" /\ ThreadFits("collector", c) /\ ThreadSees(c, spawned)
      /\ c.hand = None /\ c.lost = None /\ c.buf = <<>> /\ c.dead = {}
  BY <1>0, ThreadFacts DEF Sweep, Busy
<1>2. spawned' = spawned /\ thread' = [thread EXCEPT !["collector"] = r]
  BY DEF Sweep, poolVars
<1>3. pool \subseteq 1 .. spawned /\ 1 .. spawned \subseteq Workers
  BY <1>0, BoundsAssumption DEF PoolType, Seen, Workers
<1> HIDE DEF c
<1>4. /\ r.pc = "sweep" /\ r.todo = pool /\ r.dead = {} /\ r.slot = c.slot /\ r.buf = <<>>
      /\ r.hand = None /\ r.lost = None /\ r \in ThreadType
  BY <1>1, <1>3 DEF ThreadType
<1> HIDE DEF r
<1>6. ThreadFits("collector", r)
  BY <1>4 DEF ThreadFits, Pcs
<1>7. ThreadSees(r, spawned')
  BY <1>1, <1>2, <1>3, <1>4 DEF ThreadSees
<1>8. \A t \in Tasks : Carries(r, t) <=> Carries(c, t)
  BY <1>1, <1>4 DEF Carries
<1> QED
  BY <1>2, <1>4, <1>6, <1>7, <1>8 DEF Walks, Turn, c

(* The collector visits a worker.                                         *)
LEMMA CheckQueueTurns ==
  ASSUME TypeInv, NEW w \in Workers, CheckQueue(w)
  PROVE  \E r : Walks("collector", r)
<1> DEFINE c == thread["collector"]
           rest == c.todo \ {w}
           read == [c EXCEPT !.pc = "read", !.todo = rest, !.slot = w]
           skip == [c EXCEPT !.pc = IF rest = {} THEN "idle" ELSE "sweep", !.todo = rest]
<1>0. ThreadInv /\ PoolType /\ "collector" \in Threads
  BY DEF TypeInv, Threads
<1>1. /\ c \in ThreadType /\ c.pc = "sweep" /\ ThreadFits("collector", c)
      /\ ThreadSees(c, spawned) /\ w \in c.todo /\ c.hand = None /\ c.lost = None /\ c.buf = <<>>
  BY <1>0, ThreadFacts DEF CheckQueue
<1>2. spawned' = spawned
  BY DEF CheckQueue, poolVars
<1>3. \/ thread' = [thread EXCEPT !["collector"] = read]
      \/ thread' = [thread EXCEPT !["collector"] = skip]
  <2>1. CASE ~ slot[w].poisoned /\ ~ slot[w].discarded
    BY <2>1 DEF CheckQueue
  <2>2. CASE ~ (~ slot[w].poisoned /\ ~ slot[w].discarded)
    BY <2>2 DEF CheckQueue
  <2> QED
    BY <2>1, <2>2
<1>4. c.dead = {} /\ c.todo \subseteq 1 .. spawned
  BY <1>1 DEF ThreadFits, ThreadSees
<1> DEFINE n == IF rest = {} THEN "idle" ELSE "sweep"
<1>5. n \in {"idle", "sweep"} /\ (n = "idle" => rest = {})
  OBVIOUS
<1>6. rest \subseteq c.todo /\ skip = [c EXCEPT !.pc = n, !.todo = rest]
  OBVIOUS
<1> HIDE DEF c, rest, n, read, skip
<1>7. /\ read.pc = "read" /\ read.todo = rest /\ read.slot = w /\ read.dead = {}
      /\ read.hand = None /\ read.lost = None /\ read.buf = <<>> /\ read \in ThreadType
  BY <1>1, <1>4, <1>6 DEF ThreadType, read
<1>8. /\ skip.pc = n /\ skip.todo = rest /\ skip.slot = c.slot /\ skip.dead = {}
      /\ skip.hand = None /\ skip.lost = None /\ skip.buf = <<>> /\ skip \in ThreadType
  BY <1>1, <1>4, <1>5, <1>6 DEF ThreadType
<1>9. w \in 1 .. spawned /\ w # None
  <2>1. w \in 1 .. spawned
    BY <1>1, <1>4
  <2> QED
    BY <2>1, ApartAssumption, <1>0 DEF PoolType
<1>10. ThreadFits("collector", read) /\ ThreadFits("collector", skip)
  BY <1>5, <1>7, <1>8, <1>9 DEF ThreadFits, Pcs
<1>11. ThreadSees(read, spawned') /\ ThreadSees(skip, spawned')
  BY <1>1, <1>2, <1>4, <1>6, <1>7, <1>8, <1>9 DEF ThreadSees
<1>12. \A t \in Tasks : /\ Carries(read, t) <=> Carries(c, t)
                        /\ Carries(skip, t) <=> Carries(c, t)
  BY <1>1, <1>7, <1>8 DEF Carries
<1>13. CASE thread' = [thread EXCEPT !["collector"] = read]
  BY <1>7, <1>10, <1>11, <1>12, <1>13 DEF Walks, Turn, c
<1>14. CASE thread' = [thread EXCEPT !["collector"] = skip]
  BY <1>8, <1>10, <1>11, <1>12, <1>14 DEF Walks, Turn, c
<1> QED
  BY <1>3, <1>13, <1>14

(* What is read of a result queue, and what is left in it.                *)
LEMMA DeliveredFits ==
  ASSUME PipesType, NEW w \in Workers
  PROVE  Delivered(w) \in Seq(ResultType) /\ Emptied(w) \in [Workers -> Seq(ResultType)]
BY DEF PipesType, Delivered, Emptied

(* The collector reads a queue.                                           *)
LEMMA ReadTurns ==
  ASSUME TypeInv, ReadQueue
  PROVE  \E r : Walks("collector", r)
<1> DEFINE c == thread["collector"]
           buf == Delivered(c.slot)
           r == [c EXCEPT !.pc = "drain", !.buf = buf]
<1>0. ThreadInv /\ PoolType /\ PipesType /\ "collector" \in Threads
  BY DEF TypeInv, Threads
<1>1. /\ c \in ThreadType /\ c.pc = "read" /\ ThreadFits("collector", c)
      /\ ThreadSees(c, spawned) /\ c.hand = None /\ c.lost = None
  BY <1>0, ThreadFacts DEF ReadQueue
<1>2. spawned' = spawned /\ thread' = [thread EXCEPT !["collector"] = r]
  BY DEF ReadQueue, poolVars
<1>3. c.slot \in Workers /\ c.slot # None /\ c.dead = {}
  BY <1>1 DEF ThreadFits, ThreadType
<1> HIDE DEF c
<1>4. buf \in Seq(ResultType)
  BY <1>0, <1>3, DeliveredFits
<1> HIDE DEF buf
<1>5. /\ r.pc = "drain" /\ r.todo = c.todo /\ r.dead = {} /\ r.slot = c.slot
      /\ r.hand = None /\ r.lost = None /\ r \in ThreadType
  BY <1>1, <1>3, <1>4 DEF ThreadType
<1> HIDE DEF r
<1>6. ThreadFits("collector", r)
  BY <1>3, <1>5 DEF ThreadFits, Pcs
<1>7. ThreadSees(r, spawned')
  BY <1>1, <1>2, <1>3, <1>5 DEF ThreadSees
<1>8. \A t \in Tasks : Carries(r, t) <=> Carries(c, t)
  BY <1>1, <1>5 DEF Carries
<1> QED
  BY <1>2, <1>5, <1>6, <1>7, <1>8 DEF Walks, Turn, c

(* The collector is done with a queue.                                    *)
LEMMA NextQueueTurns ==
  ASSUME TypeInv, NextQueue
  PROVE  \E r : Walks("collector", r)
<1> DEFINE c == thread["collector"]
           pc == IF c.todo = {} THEN "idle" ELSE "sweep"
           rest == AtRest(pc)
           r == [rest EXCEPT !.todo = c.todo]
<1>0. ThreadInv /\ PoolType /\ "collector" \in Threads
  BY DEF TypeInv, Threads
<1>1. /\ c \in ThreadType /\ c.pc = "drain" /\ ThreadFits("collector", c)
      /\ ThreadSees(c, spawned) /\ c.hand = None /\ c.lost = None
  BY <1>0, ThreadFacts DEF NextQueue, Drained
<1>2. spawned' = spawned /\ thread' = [thread EXCEPT !["collector"] = r]
  BY DEF NextQueue, poolVars
<1>3. pc \in {"idle", "sweep"} /\ (pc = "idle" => c.todo = {})
  OBVIOUS
<1> HIDE DEF c, pc
<1>4. /\ rest \in ThreadType /\ rest.pc = pc /\ rest.slot = None /\ rest.buf = <<>>
      /\ rest.hand = None /\ rest.lost = None /\ rest.dead = {}
  BY <1>3 DEF AtRest, ThreadType
<1> HIDE DEF rest
<1>5. /\ r.pc = pc /\ r.todo = c.todo /\ r.dead = {} /\ r.slot = None /\ r.buf = <<>>
      /\ r.hand = None /\ r.lost = None /\ r \in ThreadType
  BY <1>1, <1>4 DEF ThreadType
<1> HIDE DEF r
<1>6. ThreadFits("collector", r)
  BY <1>3, <1>5 DEF ThreadFits, Pcs
<1>7. ThreadSees(r, spawned')
  BY <1>1, <1>2, <1>5 DEF ThreadSees
<1>8. \A t \in Tasks : Carries(r, t) <=> Carries(c, t)
  BY <1>1, <1>5 DEF Carries
<1> QED
  BY <1>2, <1>5, <1>6, <1>7, <1>8 DEF Walks, Turn, c

(* A reaper drains a worker.                                              *)
LEMMA DrainTurns ==
  ASSUME TypeInv, NEW th \in Reapers, NEW w \in Workers, DrainQueue(th, w)
  PROVE  \E r : Walks(th, r) /\ r.pc = "drain" /\ r.slot = w /\ r.todo = thread[th].todo \ {w}
                /\ r.dead = thread[th].dead
<1> DEFINE c == thread[th]
           rest == c.todo \ {w}
           buf == IF Drains(w) THEN Delivered(w) ELSE <<>>
           r == [c EXCEPT !.pc = "drain", !.slot = w, !.todo = rest, !.buf = buf]
<1>0. ThreadInv /\ PoolType /\ PipesType /\ th \in Threads /\ ProcFits /\ SlotFits
  BY DEF TypeInv, Reapers
<1>1. /\ c \in ThreadType /\ c.pc = "reap" /\ ThreadFits(th, c) /\ w \in c.todo
      /\ ThreadSees(c, spawned) /\ c.hand = None /\ c.lost = None
  BY <1>0, ThreadFacts DEF DrainQueue
<1>2. spawned' = spawned /\ thread' = [thread EXCEPT ![th] = r]
  BY DEF DrainQueue, poolVars
<1>3. w \in 1 .. spawned /\ w # None /\ rest \subseteq c.todo /\ c.todo \subseteq 1 .. spawned
      /\ c.dead \subseteq 1 .. spawned
  <2>1. w \in 1 .. spawned
    BY <1>1 DEF ThreadSees
  <2> QED
    BY <1>0, <1>1, <2>1, ApartAssumption DEF PoolType, ThreadSees
<1> HIDE DEF c, rest
<1>4. buf \in Seq(ResultType)
  <2>1. CASE Drains(w)
    BY <1>0, <2>1, DeliveredFits
  <2>2. CASE ~ Drains(w)
    BY <2>2
  <2> QED
    BY <2>1, <2>2
<1> HIDE DEF buf
<1>5. /\ r.pc = "drain" /\ r.todo = rest /\ r.dead = c.dead /\ r.slot = w
      /\ r.hand = None /\ r.lost = None /\ r \in ThreadType
  BY <1>1, <1>3, <1>4 DEF ThreadType
<1> HIDE DEF r
<1>6. ThreadFits(th, r)
  <2>1. "drain" \in Pcs(th) /\ th # "collector"
    BY DEF Pcs, Reapers, Threads
  <2> QED
    BY <1>3, <1>5, <2>1 DEF ThreadFits
<1>7. ThreadSees(r, spawned')
  BY <1>2, <1>3, <1>5 DEF ThreadSees
<1>8. \A t \in Tasks : Carries(r, t) <=> Carries(c, t)
  BY <1>1, <1>5 DEF Carries
<1>9. Walks(th, r)
  BY <1>2, <1>5, <1>6, <1>7, <1>8 DEF Walks, Turn, c
<1> QED
  BY <1>5, <1>9 DEF c, rest

(* The dispatch thread makes a plan.                                      *)
LEMMA DispatchTurns ==
  ASSUME TypeInv, NEW S, NEW left, Dispatches(S, left), MaybeDispatch
  PROVE  \E r : Walks("dispatch", r)
                /\ r.pc = (IF PlanOf(S, left).decisions = <<>> THEN "top" ELSE "ship")
                /\ r.slot = thread["dispatch"].slot
<1> DEFINE pc == IF PlanOf(S, left).decisions = <<>> THEN "top" ELSE "ship"
           r == [thread["dispatch"] EXCEPT !.pc = pc]
<1>0. ThreadInv /\ PoolType /\ "dispatch" \in Threads
  BY DEF TypeInv, Threads
<1>1. thread["dispatch"].pc = "plan" /\ spawned' = spawned
  BY DEF MaybeDispatch, poolVars
<1>2. thread' = [thread EXCEPT !["dispatch"].pc = pc]
  BY DEF Dispatches
<1>3. pc \in {"top", "ship"}
  OBVIOUS
<1> HIDE DEF pc
<1>4. pc \in Pcs("dispatch") \ Busy /\ thread["dispatch"].pc \notin Busy
  BY <1>1, <1>3 DEF Pcs, Busy
<1>5. Walks("dispatch", r)
  BY <1>0, <1>1, <1>2, <1>4, PcTurns
<1>6. r.pc = pc /\ r.slot = thread["dispatch"].slot
  BY <1>0, ThreadFacts DEF ThreadType
<1> QED
  BY <1>5, <1>6 DEF pc

\* The dispatch thread secures worker w.
LEMMA SecureTurns ==
  ASSUME ThreadInv, PoolType, thread["dispatch"].pc = "ship", NEW w \in 1 .. spawned', Secure(w),
         spawned' \in spawned .. MaxSpawns
  PROVE  \E r : Walks("dispatch", r) /\ r.pc = "ship" /\ r.slot = w
<1> DEFINE c == thread["dispatch"]
           r == [c EXCEPT !.slot = w]
<1>0. "dispatch" \in Threads
  BY DEF Threads
<1>1. /\ c \in ThreadType /\ ThreadFits("dispatch", c) /\ ThreadSees(c, spawned)
      /\ c.hand = None /\ c.lost = None /\ c.buf = <<>> /\ c.todo = {} /\ c.dead = {}
  BY <1>0, ThreadFacts DEF Busy
<1>2. thread' = [thread EXCEPT !["dispatch"] = r] /\ c.pc = "ship"
  BY DEF Secure
<1>3. w \in Workers /\ spawned' \in Nat
  BY BoundsAssumption DEF PoolType, Workers
<1> HIDE DEF c
<1>4. /\ r.pc = "ship" /\ r.todo = {} /\ r.dead = {} /\ r.slot = w /\ r.buf = <<>>
      /\ r.hand = None /\ r.lost = None /\ r \in ThreadType
  BY <1>1, <1>2, <1>3 DEF ThreadType
<1> HIDE DEF r
<1>5. ThreadFits("dispatch", r)
  BY <1>4 DEF ThreadFits, Pcs
<1>6. ThreadSees(r, spawned')
  BY <1>4 DEF ThreadSees
<1>7. \A t \in Tasks : Carries(r, t) <=> Carries(c, t)
  BY <1>1, <1>4 DEF Carries
<1>8. Walks("dispatch", r)
  BY <1>2, <1>4, <1>5, <1>6, <1>7 DEF Walks, Turn, c
<1> QED
  BY <1>4, <1>8

(* The least of some workers is one of them.                              *)
LEMMA FirstOfWorkers ==
  ASSUME NEW S \in SUBSET (1 .. spawned), S # {}, spawned \in Nat
  PROVE  First(S) \in S
BY FirstIsLeast

(* The dispatch thread is done with a decision.                           *)
LEMMA NextDecisionTurns ==
  ASSUME TypeInv, thread["dispatch"].pc = "ship", NextDecision, spawned' = spawned
  PROVE  /\ plan \in Seq([task : Tasks, gpu : Gpus \cup {None}]) /\ Len(plan) \in Nat \ {0}
         /\ plan' = Tail(plan) /\ Len(plan') = Len(plan) - 1
         /\ \A i \in 1 .. Len(plan') : plan'[i] = plan[i + 1]
         /\ plan' \in Seq([task : Tasks, gpu : Gpus \cup {None}])
         /\ Walks("dispatch", AtRest(IF Len(plan) = 1 THEN "top" ELSE "ship"))
         /\ plan' # <<>> <=> AtRest(IF Len(plan) = 1 THEN "top" ELSE "ship").pc = "ship"
<1> DEFINE T == [task : Tasks, gpu : Gpus \cup {None}]
           pc == IF Len(plan) = 1 THEN "top" ELSE "ship"
<1>0. ThreadInv /\ PoolType /\ "dispatch" \in Threads
  BY DEF TypeInv, Threads
<1>1. plan \in Seq(T) /\ plan # <<>> /\ plan' = Tail(plan)
  BY DEF TypeInv, PlanType, ThreadInv, NextDecision
<1> HIDE DEF T
<1>2. Len(plan) \in Nat \ {0} /\ Len(plan') = Len(plan) - 1 /\ plan' \in Seq(T)
  BY <1>1
<1>3. \A i \in 1 .. Len(plan') : plan'[i] = plan[i + 1]
  BY <1>1, <1>2
<1>4. plan' # <<>> <=> Len(plan) # 1
  BY <1>1, <1>2
<1>5. thread' = [thread EXCEPT !["dispatch"] = AtRest(pc)] /\ pc \in {"top", "ship"}
      /\ (pc = "ship" <=> Len(plan) # 1)
  BY DEF NextDecision
<1> HIDE DEF pc
<1>6. pc \in Pcs("dispatch") \ Busy /\ thread["dispatch"].pc \notin Busy
  BY <1>5 DEF Pcs, Busy
<1>7. Walks("dispatch", AtRest(pc))
  BY <1>0, <1>5, <1>6, RestTurns
<1>8. plan' # <<>> <=> AtRest(pc).pc = "ship"
  BY <1>4, <1>5 DEF AtRest
<1> QED
  BY <1>1, <1>2, <1>3, <1>7, <1>8 DEF T, pc

\* A result is taken in hand if it is live.
LEMMA ProcessTurns ==
  ASSUME TypeInv, NEW th \in Threads, ProcessResult(th)
  PROVE  LET result == Head(thread[th].buf)
             live == result.task \in inFlight /\ ~ work[result.task].ignored
         IN /\ result \in ResultType
            /\ \E r : Turn(th, r) /\ r.hand = (IF live THEN result ELSE None) /\ r.lost = None
                      /\ r.pc = "drain" /\ r.slot = thread[th].slot /\ r.todo = thread[th].todo
                      /\ r.dead = thread[th].dead
<1> DEFINE c == thread[th]
           result == Head(c.buf)
           live == result.task \in inFlight /\ ~ work[result.task].ignored
           hand == IF live THEN result ELSE None
           buf == Tail(c.buf)
           r == [c EXCEPT !.buf = buf, !.hand = hand]
<1>0. ThreadInv /\ PoolType
  BY DEF TypeInv
<1>1. /\ c \in ThreadType /\ c.pc = "drain" /\ ThreadFits(th, c) /\ ThreadSees(c, spawned)
      /\ c.lost = None /\ c.buf # <<>>
  BY <1>0, ThreadFacts DEF ProcessResult, Processing
<1>2. spawned' = spawned /\ thread' = [thread EXCEPT ![th] = r]
  BY DEF ProcessResult
<1>3. c.slot # None
  BY <1>1 DEF ThreadFits
<1>4. c.buf \in Seq(ResultType)
  BY <1>1 DEF ThreadType
<1> HIDE DEF c
<1>5. result \in ResultType /\ buf \in Seq(ResultType)
  BY <1>1, <1>4
<1> HIDE DEF live, result
<1>6. hand \in ResultType \cup {None}
  BY <1>5
<1> HIDE DEF hand, buf
<1>7. /\ r.pc = "drain" /\ r.todo = c.todo /\ r.dead = c.dead /\ r.slot = c.slot
      /\ r.hand = hand /\ r.lost = None /\ r \in ThreadType
  BY <1>1, <1>5, <1>6 DEF ThreadType
<1> HIDE DEF r
<1>8. ThreadFits(th, r)
  BY <1>1, <1>3, <1>7 DEF ThreadFits
<1>9. ThreadSees(r, spawned')
  BY <1>1, <1>2, <1>7 DEF ThreadSees
<1>10. Turn(th, r)
  BY <1>2, <1>7, <1>8, <1>9 DEF Turn
<1>11. \E x : Turn(th, x) /\ x.hand = hand /\ x.lost = None /\ x.pc = "drain" /\ x.slot = c.slot
              /\ x.todo = c.todo /\ x.dead = c.dead
  BY <1>7, <1>10
<1> QED
  BY <1>5, <1>11 DEF c, result, live, hand

\* A result is settled and forgotten.
LEMMA SettleTurns ==
  ASSUME TypeInv, NEW th \in Threads, SettleResult(th)
  PROVE  /\ thread[th].hand \in ResultType
         /\ \E r : Unloads(th, r) /\ r.pc = "drain" /\ r.slot = thread[th].slot
                   /\ r.todo = thread[th].todo /\ r.dead = thread[th].dead
<1> DEFINE c == thread[th]
           r == [c EXCEPT !.hand = None]
<1>0. ThreadInv /\ PoolType
  BY DEF TypeInv
<1>1. /\ c \in ThreadType /\ c.pc = "drain" /\ ThreadFits(th, c) /\ ThreadSees(c, spawned)
      /\ c.lost = None /\ c.hand # None
  BY <1>0, ThreadFacts DEF SettleResult, Settling
<1>2. spawned' = spawned /\ thread' = [thread EXCEPT ![th] = r]
  BY DEF SettleResult, poolVars
<1>3. c.slot # None /\ c.hand \in ResultType
  BY <1>1 DEF ThreadFits, ThreadType
<1> HIDE DEF c
<1>4. /\ r.pc = "drain" /\ r.todo = c.todo /\ r.dead = c.dead /\ r.slot = c.slot
      /\ r.hand = None /\ r.lost = None /\ r \in ThreadType
  BY <1>1 DEF ThreadType
<1> HIDE DEF r
<1>5. ThreadFits(th, r)
  BY <1>1, <1>3, <1>4 DEF ThreadFits
<1>6. ThreadSees(r, spawned')
  BY <1>1, <1>2, <1>4 DEF ThreadSees
<1>7. \A t \in Tasks : ~ Carries(r, t)
  BY <1>4, TasksAssumption DEF Carries
<1>8. Unloads(th, r)
  BY <1>2, <1>4, <1>5, <1>6, <1>7 DEF Unloads, Turn
<1> QED
  BY <1>3, <1>4, <1>8 DEF c

\* The worker a thread looks into, and the task it had.
LostOf(th) == slot[thread[th].slot].current

\* A drained worker is forgotten, or its loss is looked into.
Seizes(th) ==
  /\ thread[th].slot \in thread[th].dead /\ LostOf(th) \in inFlight
  /\ slot[thread[th].slot].stopped = FALSE /\ inFlight' = inFlight \ {LostOf(th)}
  /\ \E r : /\ Turn(th, r) /\ r.lost = LostOf(th) /\ r.hand = None /\ r.pc = "lost"
            /\ r.slot = thread[th].slot /\ r.todo = thread[th].todo /\ r.dead = thread[th].dead

Forgets(th) ==
  /\ Turn(th, Proceed(th))
  /\ \/ inFlight' = inFlight
     \/ /\ thread[th].slot \in thread[th].dead
        /\ inFlight' = inFlight \ {LostOf(th)}
        /\ slot[thread[th].slot].stopped = TRUE \/ LostOf(th) \notin inFlight

(* Discarding a queue seizes the lost task or forgets the worker.         *)
LEMMA DiscardTurns ==
  ASSUME TypeInv, NEW th \in Reapers, DiscardQueue(th)
  PROVE  /\ thread[th].slot \in Workers /\ thread[th].hand = None /\ thread[th].lost = None
         /\ thread[th].pc = "drain"
         /\ Seizes(th) \/ Forgets(th)
<1> DEFINE c == thread[th]
           w == c.slot
           lost == slot[w].current
           r == [c EXCEPT !.pc = "lost", !.lost = lost]
<1>0. ThreadInv /\ PoolType /\ FlagsType /\ SlotFits /\ QueueType /\ th \in Threads
  BY DEF TypeInv, Reapers
<1>1. /\ c \in ThreadType /\ c.pc = "drain" /\ ThreadFits(th, c) /\ ThreadSees(c, spawned)
      /\ c.lost = None /\ c.hand = None /\ c.buf = <<>> /\ w \in Workers
  <2>1. /\ c \in ThreadType /\ c.pc = "drain" /\ ThreadFits(th, c) /\ ThreadSees(c, spawned)
        /\ c.lost = None /\ c.hand = None /\ c.buf = <<>>
    BY <1>0, ThreadFacts DEF DiscardQueue, Drained
  <2>2. w # None
    BY <2>1 DEF ThreadFits
  <2> QED
    BY <2>1, <2>2 DEF ThreadType
<1>2. spawned' = spawned
  BY DEF DiscardQueue
<1>3. slot[w].stopped \in BOOLEAN
  BY <1>0, <1>1 DEF SlotFits, SlotType
<1>4. Proceed(th) \in ThreadType /\ ThreadFits(th, Proceed(th)) /\ ThreadSees(Proceed(th), spawned')
  BY <1>0, <1>2, ProceedFits
<1>5. CASE ~ (w \in c.dead /\ lost # None)
  <2>1. thread' = [thread EXCEPT ![th] = Proceed(th)] /\ inFlight' = inFlight
    BY <1>5 DEF DiscardQueue
  <2> QED
    BY <1>1, <1>4, <2>1 DEF Forgets, Turn
<1>6. CASE w \in c.dead /\ lost # None /\ (slot[w].stopped \/ lost \notin inFlight)
  <2>1. thread' = [thread EXCEPT ![th] = Proceed(th)] /\ inFlight' = inFlight \ {lost}
    BY <1>6 DEF DiscardQueue, Popped
  <2> QED
    BY <1>1, <1>3, <1>4, <1>6, <2>1 DEF Forgets, Turn, LostOf
<1>7. CASE w \in c.dead /\ lost # None /\ ~ (slot[w].stopped \/ lost \notin inFlight)
  <2>1. thread' = [thread EXCEPT ![th] = r] /\ inFlight' = inFlight \ {lost}
    BY <1>7 DEF DiscardQueue, Popped
  <2>2. lost \in inFlight /\ lost \in Tasks /\ slot[w].stopped = FALSE
    BY <1>0, <1>3, <1>7 DEF QueueType
  <2>3. lost # None
    BY <1>7
  <2> HIDE DEF c, lost
  <2>4. /\ r.pc = "lost" /\ r.todo = c.todo /\ r.dead = c.dead /\ r.slot = c.slot /\ r.buf = <<>>
        /\ r.hand = None /\ r.lost = lost /\ r \in ThreadType
    BY <1>1, <2>2 DEF ThreadType
  <2> HIDE DEF r
  <2>5. ThreadFits(th, r)
    <3>1. "lost" \in Pcs(th) /\ th # "collector"
      BY DEF Pcs, Reapers, Threads
    <3> QED
      BY <2>3, <2>4, <3>1 DEF ThreadFits
  <2>6. ThreadSees(r, spawned')
    BY <1>1, <1>2, <2>4 DEF ThreadSees
  <2>7. Turn(th, r)
    BY <2>1, <2>4, <2>5, <2>6 DEF Turn
  <2>8. Seizes(th)
    BY <1>7, <2>1, <2>2, <2>4, <2>7 DEF Seizes, LostOf, c, lost
  <2> QED
    BY <1>1, <2>8 DEF c
<1> QED
  BY <1>5, <1>6, <1>7

(* A lost task is retried or failed, and let go.                          *)
LEMMA LostTurns ==
  ASSUME TypeInv, NEW th \in Reapers, RetryLost(th) \/ FailLost(th)
  PROVE  /\ thread[th].lost \in Tasks /\ thread[th].hand = None /\ thread[th].pc = "lost"
         /\ Unloads(th, Proceed(th))
<1>0. ThreadInv /\ PoolType /\ FlagsType /\ th \in Threads
  BY DEF TypeInv, Reapers
<1>1. /\ thread[th].pc = "lost" /\ spawned' = spawned
      /\ thread' = [thread EXCEPT ![th] = Proceed(th)]
  BY DEF RetryLost, FailLost, poolVars
<1>2. thread[th].lost \in Tasks /\ thread[th].hand = None
  <2>1. thread[th] \in ThreadType /\ ThreadFits(th, thread[th])
    BY <1>0, ThreadFacts
  <2> QED
    BY <1>1, <2>1 DEF ThreadType, ThreadFits
<1>3. /\ Proceed(th) \in ThreadType /\ ThreadFits(th, Proceed(th))
      /\ ThreadSees(Proceed(th), spawned') /\ \A t \in Tasks : ~ Carries(Proceed(th), t)
  BY <1>0, <1>1, ProceedFits
<1> QED
  BY <1>1, <1>2, <1>3 DEF Unloads, Turn

-----------------------------------------------------------------------------
\* A turn keeps what is known of the threads; the dispatch thread ships its plan.
LEMMA TurnKeepsThreads ==
  ASSUME ThreadInv, PoolType, spawned' \in spawned .. MaxSpawns, NEW th \in Threads, NEW r,
         Turn(th, r),
         \/ th # "dispatch" /\ plan' = plan
         \/ th = "dispatch" /\ (plan' # <<>> <=> r.pc = "ship")
  PROVE  ThreadInv'
<1>1. thread' = [thread EXCEPT ![th] = r] /\ r \in ThreadType /\ ThreadFits(th, r)
      /\ ThreadSees(r, spawned')
  BY DEF Turn
<1>2. thread \in [Threads -> ThreadType] /\ "dispatch" \in Threads
  BY DEF ThreadInv, Threads
<1>3. thread' \in [Threads -> ThreadType]
  BY <1>1, <1>2
<1>4. ASSUME NEW x \in Threads
      PROVE  ThreadFits(x, thread'[x]) /\ ThreadSees(thread'[x], spawned')
  <2>1. CASE x = th
    BY <1>1, <1>2, <2>1
  <2>2. CASE x # th
    <3>1. thread'[x] = thread[x]
      BY <1>1, <1>2, <2>2
    <3>2. ThreadFits(x, thread[x]) /\ ThreadSees(thread[x], spawned)
      BY DEF ThreadInv
    <3>3. 1 .. spawned \subseteq 1 .. spawned'
      BY DEF PoolType
    <3>4. ThreadSees(thread[x], spawned')
      BY <3>2, <3>3 DEF ThreadSees
    <3> QED
      BY <3>1, <3>2, <3>4
  <2> QED
    BY <2>1, <2>2
<1>5. plan' # <<>> <=> thread'["dispatch"].pc = "ship"
  <2>1. CASE th # "dispatch" /\ plan' = plan
    <3>1. thread'["dispatch"] = thread["dispatch"]
      BY <1>1, <1>2, <2>1
    <3> QED
      BY <2>1, <3>1 DEF ThreadInv
  <2>2. CASE th = "dispatch" /\ (plan' # <<>> <=> r.pc = "ship")
    BY <1>1, <1>2, <2>2
  <2> QED
    BY <2>1, <2>2
<1> QED
  BY <1>3, <1>4, <1>5 DEF ThreadInv

\* How many workers were spawned.
LEMMA SpawnedStep ==
  ASSUME TypeInv, [Next]_vars
  PROVE  /\ spawned' \in spawned .. MaxSpawns
         /\ SpawnWorker \/ ReplaceWorker => spawned' = spawned + 1
         /\ spawned' = spawned \/ SpawnWorker \/ ReplaceWorker
<1>1. UNCHANGED spawned \/ SpawnWorker \/ ReplaceWorker
  BY StepIsFramed DEF Framed
<1>2. spawned \in 0 .. MaxSpawns /\ MaxSpawns \in Nat
  BY BoundsAssumption DEF TypeInv, PoolType
<1>3. ASSUME SpawnWorker \/ ReplaceWorker PROVE spawned' = spawned + 1 /\ spawned < MaxSpawns
  BY <1>3 DEF SpawnWorker, ReplaceWorker, Spawn
<1>4. CASE UNCHANGED spawned
  BY <1>2, <1>3, <1>4
<1>5. CASE SpawnWorker \/ ReplaceWorker
  BY <1>2, <1>3, <1>5
<1> QED
  BY <1>1, <1>4, <1>5

\* The worker the dispatch thread secures.
LEMMA SecuringTurns ==
  ASSUME TypeInv, [Next]_vars, ReuseWorker \/ SpawnWorker \/ ReplaceWorker
  PROVE  /\ thread["dispatch"].pc = "ship" /\ plan' = plan
         /\ \E w \in 1 .. spawned' : \E r :
              /\ Walks("dispatch", r) /\ r.pc = "ship" /\ r.slot = w
              /\ ReuseWorker => w \in Idle /\ w = First(Matching)
              /\ SpawnWorker \/ ReplaceWorker => w = spawned + 1
<1>0. ThreadInv /\ PoolType /\ spawned \in Nat
  BY DEF TypeInv, PoolType
<1>1. thread["dispatch"].pc = "ship"
  BY DEF ReuseWorker, SpawnWorker, ReplaceWorker, Securing
<1>2. plan' = plan
  <2>1. CASE ReuseWorker
    BY <2>1 DEF ReuseWorker, planVars
  <2>2. CASE SpawnWorker
    BY <2>2 DEF SpawnWorker, planVars
  <2>3. CASE ReplaceWorker
    BY <2>3 DEF ReplaceWorker, planVars
  <2> QED
    BY <2>1, <2>2, <2>3
<1>3. spawned' \in spawned .. MaxSpawns
  BY SpawnedStep
<1>4. CASE ReuseWorker
  <2>1. Matching # {} /\ Secure(First(Matching)) /\ spawned' = spawned
    BY <1>4 DEF ReuseWorker, poolVars
  <2>2. Matching \subseteq 1 .. spawned /\ Matching \subseteq Idle
    BY <1>0 DEF Matching, Idle, PoolType, Seen
  <2>3. First(Matching) \in Matching
    BY <1>0, <2>1, <2>2, FirstOfWorkers
  <2>4. First(Matching) \in 1 .. spawned' /\ First(Matching) \in Idle
    BY <2>1, <2>2, <2>3
  <2>5. PICK r : Walks("dispatch", r) /\ r.pc = "ship" /\ r.slot = First(Matching)
    BY <1>0, <1>1, <1>3, <2>1, <2>4, SecureTurns
  <2>6. ~ (SpawnWorker \/ ReplaceWorker)
    BY <2>1 DEF SpawnWorker, ReplaceWorker
  <2> QED
    BY <1>1, <1>2, <2>4, <2>5, <2>6
<1>5. CASE SpawnWorker \/ ReplaceWorker
  <2>1. Secure(spawned + 1) /\ spawned' = spawned + 1 /\ Matching = {}
    BY <1>5 DEF SpawnWorker, ReplaceWorker, Spawn
  <2>2. spawned + 1 \in 1 .. spawned'
    BY <1>0, <2>1
  <2>3. PICK r : Walks("dispatch", r) /\ r.pc = "ship" /\ r.slot = spawned + 1
    BY <1>0, <1>1, <1>3, <2>1, <2>2, SecureTurns
  <2>4. ~ ReuseWorker
    BY <2>1 DEF ReuseWorker
  <2> QED
    BY <1>1, <1>2, <2>2, <2>3, <2>4
<1> QED
  BY <1>4, <1>5

\* What a step does to the threads.
LEMMA ThreadsTurn ==
  ASSUME TypeInv, [Next]_vars, NoDup(pending), IsFiniteSet(inFlight)
  PROVE  \/ UNCHANGED <<thread, plan>> /\ spawned' = spawned
         \/ \E th \in Threads : \E r :
              /\ Turn(th, r)
              /\ \/ th # "dispatch" /\ plan' = plan
                 \/ th = "dispatch" /\ (plan' # <<>> <=> r.pc = "ship")
<1> DEFINE Fine(th, r) == /\ Turn(th, r)
                          /\ \/ th # "dispatch" /\ plan' = plan
                             \/ th = "dispatch" /\ (plan' # <<>> <=> r.pc = "ship")
           Goal == \E th \in Threads : \E r : Fine(th, r)
<1> USE DEF planVars
<1>0. /\ UNCHANGED thread \/ ThreadChanges
      /\ UNCHANGED plan \/ PlanChanges
      /\ UNCHANGED spawned \/ SpawnWorker \/ ReplaceWorker
  BY StepIsFramed DEF Framed
<1>1. plan # <<>> <=> thread["dispatch"].pc = "ship"
  BY DEF TypeInv, ThreadInv
<1>2. "caller" \in Threads /\ "collector" \in Threads /\ "dispatch" \in Threads
      /\ \A th \in Reapers : th \in Threads
  BY DEF Threads, Reapers
<1>3. ASSUME \/ Shutdown \/ FailPendingFutures \/ WaitForInFlight \/ StopThreads \/ StopAllWorkers
             \/ Close \/ JoinWorkers
      PROVE  Goal
  <2>1. plan' = plan
    BY <1>3 DEF Shutdown, FailPendingFutures, WaitForInFlight, StopThreads, StopAllWorkers, Close,
                JoinWorkers
  <2>2. PICK r : Walks("caller", r)
    BY <1>3, CallerTurns, JoinTurns
  <2>3. Fine("caller", r)
    BY <2>1, <2>2 DEF Walks
  <2> QED
    BY <1>2, <2>3
<1>4. ASSUME Sweep \/ (\E w \in Workers : CheckQueue(w)) \/ ReadQueue \/ NextQueue
      PROVE  Goal
  <2>1. plan' = plan
    BY <1>4 DEF Sweep, CheckQueue, ReadQueue, NextQueue
  <2>2. PICK r : Walks("collector", r)
    BY <1>4, SweepTurns, CheckQueueTurns, ReadTurns, NextQueueTurns
  <2>3. Fine("collector", r)
    BY <2>1, <2>2 DEF Walks
  <2> QED
    BY <1>2, <2>3
<1>5. ASSUME NEW th \in Threads, NEW r, Turn(th, r), plan' = plan,
             th = "dispatch" => r.pc # "ship" /\ thread["dispatch"].pc # "ship"
      PROVE  Goal
  <2>1. Fine(th, r)
    BY <1>1, <1>5
  <2> QED
    BY <2>1
<1>6. ASSUME NEW th \in Reapers
      PROVE  Proceed(th).pc # "ship"
  <2>1. FlagsType
    BY DEF TypeInv
  <2>2. Onward(th) \in {"plan", "close", "check"}
    BY <2>1, OnwardFits DEF Reapers, Threads
  <2>3. CASE thread[th].todo = {}
    BY <2>2, <2>3 DEF Proceed, AtRest
  <2>4. CASE thread[th].todo # {}
    <3>1. Proceed(th) = [AtRest("reap") EXCEPT !.todo = thread[th].todo, !.dead = thread[th].dead]
      BY <2>4 DEF Proceed
    <3>2. Proceed(th).pc = "reap"
      BY <3>1 DEF AtRest
    <3> QED
      BY <3>2
  <2> QED
    BY <2>3, <2>4
<1>7. ASSUME NEW th \in Reapers, CheckWorkers(th) PROVE Goal
  <2>1. plan' = plan /\ thread[th].pc = "top"
    BY <1>7 DEF CheckWorkers
  <2>2. PICK r : Walks(th, r)
    BY <1>7, CheckTurns
  <2>3. r = thread'[th]
    BY <2>2, <1>2 DEF Walks, Turn, TypeInv, ThreadInv
  <2>4. thread'[th].pc # "ship"
    <3>1. thread'[th] = IF Dead \cup Exited = {} THEN AtRest(Onward(th))
                        ELSE [AtRest("reap") EXCEPT !.todo = Dead \cup Exited, !.dead = Dead]
      BY <1>2, <1>7 DEF CheckWorkers, TypeInv, ThreadInv
    <3>2. Onward(th) \in {"plan", "close", "check"}
      BY OnwardFits DEF Reapers, Threads, TypeInv
    <3>3. CASE Dead \cup Exited = {}
      BY <3>1, <3>2, <3>3 DEF AtRest
    <3>4. CASE Dead \cup Exited # {}
      <4>1. thread'[th] = [AtRest("reap") EXCEPT !.todo = Dead \cup Exited, !.dead = Dead]
        BY <3>1, <3>4
      <4>2. thread'[th].pc = "reap"
        BY <4>1 DEF AtRest
      <4> QED
        BY <4>2
    <3> QED
      BY <3>3, <3>4
  <2>5. Turn(th, r)
    BY <2>2 DEF Walks
  <2> QED
    BY <1>2, <1>5, <2>1, <2>3, <2>4, <2>5
<1>8. ASSUME NEW th \in Reapers, NEW w \in Workers, DrainQueue(th, w) PROVE Goal
  <2>1. plan' = plan /\ thread[th].pc = "reap"
    BY <1>8 DEF DrainQueue
  <2>2. PICK r : Walks(th, r) /\ r.pc = "drain"
    BY <1>8, DrainTurns
  <2>3. Turn(th, r)
    BY <2>2 DEF Walks
  <2> QED
    BY <1>2, <1>5, <2>1, <2>2, <2>3
<1>9. ASSUME NEW th \in Threads, ProcessResult(th) PROVE Goal
  <2>1. plan' = plan /\ thread[th].pc = "drain"
    BY <1>9 DEF ProcessResult, Processing
  <2>2. PICK r : Turn(th, r) /\ r.pc = "drain"
    BY <1>9, ProcessTurns
  <2> QED
    BY <1>5, <2>1, <2>2
<1>10. ASSUME NEW th \in Threads, SettleResult(th) PROVE Goal
  <2>1. plan' = plan /\ thread[th].pc = "drain"
    BY <1>10 DEF SettleResult, Settling
  <2>2. PICK r : Unloads(th, r) /\ r.pc = "drain"
    BY <1>10, SettleTurns
  <2>3. Turn(th, r)
    BY <2>2 DEF Unloads
  <2> QED
    BY <1>5, <2>1, <2>2, <2>3
<1>11. ASSUME NEW th \in Reapers, DiscardQueue(th) PROVE Goal
  <2>1. plan' = plan /\ thread[th].pc = "drain"
    BY <1>11, DiscardTurns DEF DiscardQueue
  <2>2. CASE Seizes(th)
    BY <1>2, <1>5, <2>1, <2>2 DEF Seizes
  <2>3. CASE Forgets(th)
    BY <1>2, <1>5, <1>6, <2>1, <2>3 DEF Forgets
  <2> QED
    BY <1>11, <2>2, <2>3, DiscardTurns
<1>12. ASSUME NEW th \in Reapers, RetryLost(th) \/ FailLost(th) PROVE Goal
  <2>1. plan' = plan /\ thread[th].pc = "lost"
    BY <1>12 DEF RetryLost, FailLost
  <2>2. Turn(th, Proceed(th))
    BY <1>12, LostTurns DEF Unloads
  <2> QED
    BY <1>2, <1>5, <1>6, <2>1, <2>2
<1>13. ASSUME ReuseWorker \/ SpawnWorker \/ ReplaceWorker PROVE Goal
  <2>1. plan' = plan /\ thread["dispatch"].pc = "ship"
    BY <1>13, SecuringTurns
  <2>2. PICK r : Walks("dispatch", r) /\ r.pc = "ship"
    BY <1>13, SecuringTurns
  <2>3. Fine("dispatch", r)
    BY <1>1, <2>1, <2>2 DEF Walks
  <2> QED
    BY <1>2, <2>3
<1>14. ASSUME LeaveQueued \/ DropCancelled \/ (\E t \in Tasks : ShipTask(t)) PROVE Goal
  <2>1. thread["dispatch"].pc = "ship" /\ NextDecision /\ spawned' = spawned
    BY <1>14 DEF LeaveQueued, DropCancelled, ShipTask, Securing, Secured, poolVars
  <2> DEFINE r == AtRest(IF Len(plan) = 1 THEN "top" ELSE "ship")
  <2>2. Walks("dispatch", r) /\ (plan' # <<>> <=> r.pc = "ship")
    BY <2>1, NextDecisionTurns
  <2>3. Fine("dispatch", r)
    BY <2>2 DEF Walks
  <2> QED
    BY <1>2, <2>3
<1>15. ASSUME MaybeDispatch PROVE Goal
  <2>1. PICK S, left : S \subseteq {t \in Range(pending) : Stale(t)} /\ Dispatches(S, left)
    BY <1>15, DispatchUnfolds
  <2>2. plan' = <<>> <=> PlanOf(S, left).decisions = <<>>
    BY <2>1, PlanIsMade DEF TypeInv
  <2>3. PICK r : Walks("dispatch", r)
                 /\ r.pc = (IF PlanOf(S, left).decisions = <<>> THEN "top" ELSE "ship")
    BY <1>15, <2>1, DispatchTurns
  <2>4. Fine("dispatch", r)
    BY <2>2, <2>3 DEF Walks
  <2> QED
    BY <1>2, <2>4
<1>16. ThreadChanges => Goal
  BY <1>3, <1>4, <1>7, <1>8, <1>9, <1>10, <1>11, <1>12, <1>13, <1>14, <1>15 DEF ThreadChanges
<1>17. PlanChanges => ThreadChanges
  BY DEF PlanChanges, ThreadChanges
<1>18. SpawnWorker \/ ReplaceWorker => ThreadChanges
  BY DEF ThreadChanges
<1> QED
  BY <1>0, <1>16, <1>17, <1>18

(* Every step keeps what is known of the threads.                         *)
LEMMA ThreadStep ==
  ASSUME TypeInv, [Next]_vars, NoDup(pending), IsFiniteSet(inFlight)
  PROVE  ThreadInv'
<1>1. spawned' \in spawned .. MaxSpawns
  BY SpawnedStep
<1>2. ThreadInv /\ PoolType
  BY DEF TypeInv
<1>3. CASE UNCHANGED <<thread, plan>> /\ spawned' = spawned
  BY <1>2, <1>3 DEF ThreadInv
<1>4. ASSUME NEW th \in Threads, NEW r, Turn(th, r),
             \/ th # "dispatch" /\ plan' = plan
             \/ th = "dispatch" /\ (plan' # <<>> <=> r.pc = "ship")
      PROVE  ThreadInv'
  BY <1>1, <1>2, <1>4, TurnKeepsThreads
<1> QED
  BY <1>3, <1>4, ThreadsTurn

\* The decision being shipped, and the worker that was secured for it.
LEMMA DecisionFits ==
  ASSUME TypeInv, thread["dispatch"].pc = "ship"
  PROVE  /\ plan \in Seq([task : Tasks, gpu : Gpus \cup {None}]) /\ Len(plan) \in Nat \ {0}
         /\ Decision \in [task : Tasks, gpu : Gpus \cup {None}] /\ Decision.task \in PlanTasks
         /\ Securing \/ Secured
         /\ Secured => thread["dispatch"].slot \in Workers
<1> DEFINE T == [task : Tasks, gpu : Gpus \cup {None}]
<1>1. plan # <<>> /\ plan \in Seq(T)
  BY DEF TypeInv, ThreadInv, PlanType
<1> HIDE DEF T
<1>2. Len(plan) \in Nat \ {0} /\ 1 \in 1 .. Len(plan) /\ plan[1] \in T
  BY <1>1
<1>3. Decision \in T /\ Decision.task \in PlanTasks
  <2>1. plan[1].task \in PlanTasks
    BY <1>2, Zenon DEF PlanTasks
  <2> QED
    BY <1>2, <2>1 DEF Decision
<1>4. thread["dispatch"] \in ThreadType
  BY DEF TypeInv, ThreadInv, Threads
<1>5. thread["dispatch"].slot \in Workers \cup {None}
  BY <1>4 DEF ThreadType
<1> QED
  BY <1>1, <1>2, <1>3, <1>5 DEF Securing, Secured, T

(* Every step keeps the tasks' records.                                   *)
LEMMA WorkTypeStep ==
  ASSUME TypeInv, [Next]_vars, NoDup(pending), IsFiniteSet(inFlight)
  PROVE  WorkType'
<1>0. UNCHANGED work \/ WorkChanges
  BY StepIsFramed DEF Framed
<1>1. work \in [Tasks -> PendingWorkType] /\ ProfileType
  BY DEF TypeInv, WorkType
<1>2. CASE UNCHANGED work
  BY <1>1, <1>2 DEF WorkType
<1>3. ASSUME NEW t \in Tasks, SubmitEnter(t) PROVE WorkType'
  <2>1. work' = [work EXCEPT ![t] = NewWork(t)]
    BY <1>3 DEF SubmitEnter
  <2>2. NewWork(t) \in PendingWorkType
    BY <1>1, NewWorkFits
  <2> QED
    BY <1>1, <2>1, <2>2 DEF WorkType
<1>4. ASSUME NEW t \in Tasks, SubmitAppend(t) PROVE WorkType'
  <2> DEFINE late == thread["caller"].pc \notin {"up", "failing"}
             v == [work[t] EXCEPT !.late = late]
  <2>1. work' = [work EXCEPT ![t] = v]
    BY <1>4 DEF SubmitAppend
  <2>2. late \in BOOLEAN
    OBVIOUS
  <2> HIDE DEF late
  <2>3. v \in PendingWorkType
    BY <1>1, <2>2 DEF PendingWorkType
  <2> HIDE DEF v
  <2> QED
    BY <1>1, <2>1, <2>3 DEF WorkType
<1>5. ASSUME NEW t \in Tasks, HandleTimeout(t) PROVE WorkType'
  <2> DEFINE v == [work[t] EXCEPT !.ignored = TRUE]
  <2>1. work' = work \/ work' = [work EXCEPT ![t] = v]
    BY <1>5 DEF HandleTimeout
  <2>3. v \in PendingWorkType
    BY <1>1 DEF PendingWorkType
  <2> HIDE DEF v
  <2> QED
    BY <1>1, <2>1, <2>3 DEF WorkType
<1>6. ASSUME NEW t \in Tasks, ShipTask(t) PROVE WorkType'
  <2> DEFINE w == thread["dispatch"].slot
             v == [work[t] EXCEPT !.notified = TRUE, !.gpu = Decision.gpu, !.worker = w]
  <2>1. work' = [work EXCEPT ![t] = v]
    BY <1>6 DEF ShipTask
  <2>2. w \in Workers /\ Decision.gpu \in Gpus \cup {None}
    BY <1>6, DecisionFits DEF ShipTask, Secured
  <2> HIDE DEF w
  <2>3. v \in PendingWorkType
    BY <1>1, <2>2 DEF PendingWorkType
  <2> HIDE DEF v
  <2> QED
    BY <1>1, <2>1, <2>3 DEF WorkType
<1>7. ASSUME NEW th \in Reapers, RetryLost(th) PROVE WorkType'
  <2> DEFINE t == thread[th].lost
  <2>1. t \in Tasks
    BY <1>7, LostTurns
  <2>2. work' = [work EXCEPT ![t] = Retried(work[t])] /\ work[t].retries < MaxRetries
    BY <1>7 DEF RetryLost, ShouldRetry
  <2> HIDE DEF t
  <2>3. Retried(work[t]) \in PendingWorkType
    BY <1>1, <2>1, <2>2, RetriedFits
  <2> QED
    BY <1>1, <2>1, <2>2, <2>3 DEF WorkType
<1>8. ASSUME MaybeDispatch PROVE WorkType'
  <2>1. PICK S, left : S \subseteq {t \in Range(pending) : Stale(t)} /\ Dispatches(S, left)
    BY <1>8, DispatchUnfolds
  <2>2. Range(Feasible(S)) \subseteq Range(pending)
    BY <2>1, EntriesFit DEF TypeInv
  <2>3. Planned(Reestimated(S), Feasible(S)) \in [Tasks -> PendingWorkType]
    BY <2>1, <2>2, PlannedWork DEF TypeInv, QueueType
  <2> QED
    BY <2>1, <2>3 DEF Dispatches, WorkType
<1> QED
  BY <1>0, <1>2, <1>3, <1>4, <1>5, <1>6, <1>7, <1>8 DEF WorkChanges

(* Every step keeps the queue and the running set.                        *)
LEMMA QueueTypeStep ==
  ASSUME TypeInv, [Next]_vars, NoDup(pending), IsFiniteSet(inFlight)
  PROVE  QueueType'
<1>0. /\ UNCHANGED pending \/ PendingChanges
      /\ UNCHANGED inFlight \/ InFlightChanges
  BY StepIsFramed DEF Framed
<1>1. Queue(pending) /\ Range(pending) \subseteq Tasks /\ inFlight \subseteq Tasks
  BY DEF TypeInv, QueueType
<1>2. Queue(pending') /\ Range(pending') \subseteq Tasks
  <2>1. CASE UNCHANGED pending
    BY <1>1, <2>1
  <2>2. ASSUME NEW t \in Tasks, SubmitAppend(t)
        PROVE  Queue(pending') /\ Range(pending') \subseteq Tasks
    <3>1. pending' = Append(pending, t)
      BY <2>2 DEF SubmitAppend
    <3> QED
      BY <1>1, <3>1, AppendQueue
  <2>3. ASSUME NEW S, pending' = Without(pending, S)
        PROVE  Queue(pending') /\ Range(pending') \subseteq Tasks
    BY <1>1, <2>3, WithoutLeaves
  <2>4. ASSUME \/ \E t \in Tasks : ShipTask(t)
               \/ MaybeDispatch \/ DropCancelled
        PROVE  \E S : pending' = Without(pending, S)
    BY <2>4 DEF ShipTask, MaybeDispatch, DropCancelled, Unqueue
  <2>5. ASSUME NEW th \in Reapers, RetryLost(th)
        PROVE  Queue(pending') /\ Range(pending') \subseteq Tasks
    <3>1. thread[th].lost \in Tasks /\ pending' = <<thread[th].lost>> \o pending
      BY <2>5, LostTurns DEF RetryLost
    <3> QED
      BY <1>1, <3>1, PushQueue
  <2>6. ASSUME FailPendingFutures
        PROVE  Queue(pending') /\ Range(pending') \subseteq Tasks
    BY <2>6, EmptyQueue DEF FailPendingFutures
  <2> QED
    BY <1>0, <2>1, <2>2, <2>3, <2>4, <2>5, <2>6 DEF PendingChanges
<1>3. inFlight' \subseteq Tasks
  <2>1. CASE UNCHANGED inFlight
    BY <1>1, <2>1
  <2>2. CASE InFlightChanges
    BY <1>1, <2>2 DEF InFlightChanges, HandleTimeout, ShipTask, DiscardQueue, ProcessResult,
       Popped
  <2> QED
    BY <1>0, <2>1, <2>2
<1> QED
  BY <1>2, <1>3 DEF QueueType

\* The changes of a worker's slot.
LEMMA SlotEdits ==
  ASSUME NEW v \in SlotType, NEW b \in BOOLEAN, NEW c \in Tasks \cup {None}
  PROVE  /\ [v EXCEPT !.stopped = b] \in SlotType
         /\ [v EXCEPT !.current = c] \in SlotType
         /\ [v EXCEPT !.discarded = TRUE] \in SlotType
         /\ [v EXCEPT !.stopped = TRUE, !.poisoned = TRUE, !.current = None] \in SlotType
         /\ [v EXCEPT !.current = None, !.completed = v.completed + 1, !.stopped = b] \in SlotType
<1>1. /\ [v EXCEPT !.stopped = b] \in SlotType
      /\ [v EXCEPT !.current = c] \in SlotType
      /\ [v EXCEPT !.discarded = TRUE] \in SlotType
  BY DEF SlotType
<1>2. [v EXCEPT !.stopped = TRUE, !.poisoned = TRUE, !.current = None] \in SlotType
  BY DEF SlotType
<1>3. v.completed \in Nat
  BY DEF SlotType
<1> DEFINE n == v.completed + 1
<1>4. n \in Nat
  BY <1>3
<1> HIDE DEF n
<1>5. [v EXCEPT !.current = None, !.completed = n, !.stopped = b] \in SlotType
  BY <1>4 DEF SlotType
<1> QED
  BY <1>1, <1>2, <1>5 DEF n

(* A change of one slot.                                                  *)
LEMMA SlotEdit ==
  ASSUME SlotFits, NEW w \in Workers, NEW v \in SlotType, slot' = [slot EXCEPT ![w] = v]
  PROVE  SlotFits'
BY DEF SlotFits

(* Every step keeps the slots.                                            *)
LEMMA SlotFitsStep ==
  ASSUME TypeInv, [Next]_vars, NoDup(pending), IsFiniteSet(inFlight)
  PROVE  SlotFits'
<1>0. UNCHANGED slot \/ SlotChanges
  BY StepIsFramed DEF Framed
<1>1. /\ SlotFits /\ PoolType /\ ThreadInv /\ WorkType
      /\ Seen \subseteq Workers /\ pool \subseteq Workers /\ retiring \subseteq Workers
  BY BoundsAssumption DEF TypeInv, PoolType, Seen, Workers
<1>2. CASE UNCHANGED slot
  BY <1>1, <1>2 DEF SlotFits
<1>3. ASSUME NEW t \in Tasks, HandleTimeout(t) PROVE SlotFits'
  <2> DEFINE w == work[t].worker
             kill == [slot[w] EXCEPT !.stopped = TRUE, !.poisoned = TRUE, !.current = None]
             free == [slot[w] EXCEPT !.current = None]
  <2>1. \/ slot' = slot
        \/ w \in pool /\ slot' = [slot EXCEPT ![w] = kill]
        \/ w \in pool /\ slot' = [slot EXCEPT ![w] = free]
    BY <1>1, <1>3 DEF HandleTimeout, SlotFits
  <2>2. CASE slot' = slot
    BY <1>1, <2>2 DEF SlotFits
  <2>3. CASE w \in pool /\ slot' = [slot EXCEPT ![w] = kill]
    <3>1. w \in Workers /\ slot[w] \in SlotType
      BY <1>1, <2>3 DEF SlotFits
    <3> HIDE DEF w
    <3>2. kill \in SlotType
      BY <3>1, SlotEdits
    <3> HIDE DEF kill
    <3> QED
      BY <1>1, <2>3, <3>1, <3>2, SlotEdit
  <2>4. CASE w \in pool /\ slot' = [slot EXCEPT ![w] = free]
    <3>1. w \in Workers /\ slot[w] \in SlotType
      BY <1>1, <2>4 DEF SlotFits
    <3> HIDE DEF w
    <3>2. free \in SlotType
      BY <3>1, SlotEdits
    <3> HIDE DEF free
    <3> QED
      BY <1>1, <2>4, <3>1, <3>2, SlotEdit
  <2> QED
    BY <2>1, <2>2, <2>3, <2>4
<1>4. ASSUME NEW t \in Tasks, ShipTask(t) PROVE SlotFits'
  <2> DEFINE w == thread["dispatch"].slot
             v == [slot[w] EXCEPT !.current = t]
  <2>1. w \in Workers
    BY <1>4, DecisionFits DEF ShipTask, Secured
  <2>2. slot[w] \in SlotType
    BY <1>1, <2>1 DEF SlotFits
  <2>3. slot' = [slot EXCEPT ![w] = v]
    BY <1>1, <1>4, <2>1 DEF ShipTask, SlotFits
  <2> HIDE DEF w
  <2>4. v \in SlotType
    BY <2>2, SlotEdits
  <2> HIDE DEF v
  <2> QED
    BY <1>1, <2>1, <2>3, <2>4, SlotEdit
<1>5. ASSUME NEW th \in Reapers, DiscardQueue(th) PROVE SlotFits'
  <2> DEFINE w == thread[th].slot
             v == [slot[w] EXCEPT !.discarded = TRUE]
  <2>1. w \in Workers
    BY <1>5, DiscardTurns
  <2>2. slot[w] \in SlotType
    BY <1>1, <2>1 DEF SlotFits
  <2>3. slot' = [slot EXCEPT ![w] = v]
    BY <1>1, <1>5, <2>1 DEF DiscardQueue, SlotFits
  <2> HIDE DEF w
  <2>4. v \in SlotType
    BY <2>2, SlotEdits
  <2> HIDE DEF v
  <2> QED
    BY <1>1, <2>1, <2>3, <2>4, SlotEdit
<1>6. ASSUME NEW th \in Threads, ProcessResult(th) PROVE SlotFits'
  <2> DEFINE w == thread[th].slot
             b == slot[w].stopped \/ Recycles(w)
             v == [slot[w] EXCEPT !.current = None, !.completed = slot[w].completed + 1,
                                  !.stopped = b]
  <2>1. slot' = slot \/ (w \in pool /\ slot' = [slot EXCEPT ![w] = v])
    BY <1>1, <1>6 DEF ProcessResult, SlotFits
  <2>2. CASE slot' = slot
    BY <1>1, <2>2 DEF SlotFits
  <2>3. CASE w \in pool /\ slot' = [slot EXCEPT ![w] = v]
    <3>1. w \in Workers /\ slot[w] \in SlotType
      BY <1>1, <2>3 DEF SlotFits
    <3>2. b \in BOOLEAN
      OBVIOUS
    <3> HIDE DEF w, b
    <3>3. v \in SlotType
      BY <3>1, <3>2, SlotEdits
    <3> HIDE DEF v
    <3> QED
      BY <1>1, <2>3, <3>1, <3>3, SlotEdit
  <2> QED
    BY <2>1, <2>2, <2>3
<1>7. ASSUME StopAllWorkers PROVE SlotFits'
  <2> DEFINE b(w) == slot[w].stopped \/ w \in pool
             v(w) == [slot[w] EXCEPT !.stopped = b(w)]
  <2>1. slot' = [w \in Workers |-> v(w)]
    BY <1>7 DEF StopAllWorkers
  <2>2. \A w \in Workers : b(w) \in BOOLEAN /\ slot[w] \in SlotType
    BY <1>1 DEF SlotFits
  <2> HIDE DEF b
  <2>3. \A w \in Workers : v(w) \in SlotType
    BY <2>2, SlotEdits
  <2> HIDE DEF v
  <2> QED
    BY <2>1, <2>3 DEF SlotFits
<1>8. ASSUME SpawnWorker \/ ReplaceWorker PROVE SlotFits'
  <2> DEFINE w == spawned + 1
             new == NewSlot(Decision.gpu)
  <2>1. w \in Workers /\ spawned' = w
    BY <1>1, <1>8, SpawnedStep, BoundsAssumption DEF Workers, PoolType
  <2>2. new \in SlotType
    <3>1. Decision.gpu \in Gpus \cup {None}
      BY <1>8, DecisionFits DEF SpawnWorker, ReplaceWorker, Securing
    <3> QED
      BY <3>1, SpawnedSlotFits
  <2> HIDE DEF w, new
  <2>3. CASE SpawnWorker
    BY <1>1, <2>1, <2>2, <2>3, SlotEdit DEF SpawnWorker, w, new
  <2>4. CASE ReplaceWorker
    <3> DEFINE old == First(Evictable)
               v == [slot[old] EXCEPT !.stopped = TRUE]
    <3>1. old \in Workers /\ slot[old] \in SlotType
      <4>1. Evictable \subseteq Seen /\ Evictable # {} /\ spawned \in Nat
        BY <1>1, <2>4 DEF ReplaceWorker, Evictable, Idle, PoolType
      <4>2. First(Evictable) \in Evictable
        BY <4>1, FirstOfWorkers DEF Seen
      <4> QED
        BY <1>1, <4>1, <4>2 DEF SlotFits
    <3> HIDE DEF old
    <3>2. slot' = [slot EXCEPT ![old] = v, ![w] = new]
      BY <2>4, <1>1, <3>1 DEF ReplaceWorker, SlotFits, old, w, new
    <3>3. v \in SlotType
      BY <3>1, SlotEdits
    <3> HIDE DEF v
    <3> QED
      BY <1>1, <2>1, <2>2, <3>1, <3>2, <3>3 DEF SlotFits
  <2> QED
    BY <1>8, <2>3, <2>4
<1> QED
  BY <1>0, <1>2, <1>3, <1>4, <1>5, <1>6, <1>7, <1>8 DEF SlotChanges

(* Every step keeps the processes.                                        *)
LEMMA ProcFitsStep ==
  ASSUME TypeInv, [Next]_vars
  PROVE  ProcFits'
<1>0. UNCHANGED proc \/ ProcChanges
  BY StepIsFramed DEF Framed
<1>1. /\ ProcFits /\ PipesType /\ PoolType /\ TimerType /\ Seen \subseteq Workers
  BY BoundsAssumption DEF TypeInv, PoolType, Seen, Workers
<1>2. CASE UNCHANGED proc
  BY <1>1, <1>2 DEF ProcFits
<1>3. ASSUME NEW w \in Workers, NEW exit \in {"oom", "error", "stop", "killed", None},
             proc' = [proc EXCEPT ![w] = [alive |-> FALSE, exit |-> exit, task |-> None]]
      PROVE  ProcFits'
  <2>1. [alive |-> FALSE, exit |-> exit, task |-> None] \in ProcType
    BY DEF ProcType
  <2> QED
    BY <1>1, <1>3, <2>1 DEF ProcFits
<1>4. ASSUME NEW w \in Workers, NEW t \in Tasks \cup {None}, proc' = [proc EXCEPT ![w].task = t]
      PROVE  ProcFits'
  <2>1. proc' = [proc EXCEPT ![w] = [proc[w] EXCEPT !.task = t]]
    BY <1>4
  <2>2. [proc[w] EXCEPT !.task = t] \in ProcType
    BY <1>1 DEF ProcFits, ProcType
  <2> QED
    BY <1>1, <2>1, <2>2 DEF ProcFits
<1>5. ASSUME NEW w \in Workers, TakeWork(w) PROVE ProcFits'
  <2> DEFINE q == workQueue[w]
  <2>1. q \in Seq(Tasks \cup {Stop}) /\ q # <<>>
    BY <1>1, <1>5 DEF PipesType, TakeWork
  <2>2. Head(q) \in Tasks \cup {Stop}
    BY <2>1
  <2>3. Head(q) \in Tasks /\ proc' = [proc EXCEPT ![w].task = Head(q)]
    BY <1>5, <2>2 DEF TakeWork
  <2> QED
    BY <1>4, <2>3
<1>6. ASSUME NEW w \in Workers, TakeStop(w) \/ Finish(w) PROVE ProcFits'
  BY <1>3, <1>4, <1>6 DEF TakeStop, Finish
<1>7. ASSUME NEW w \in Workers, NEW exit \in {"oom", "error", "stop", "killed", None}, Dies(w, exit)
      PROVE  ProcFits'
  BY <1>3, <1>7 DEF Dies
<1>8. ASSUME NEW w \in Workers, Crash(w) PROVE ProcFits'
  <2>1. PICK exit \in CrashExits : Dies(w, exit)
    BY <1>8 DEF Crash
  <2> QED
    BY <1>7, <2>1, ModesAssumption
<1>9. ASSUME EscalateKill PROVE ProcFits'
  <2>1. timer.victim \in Workers
    BY <1>1, <1>9 DEF EscalateKill, TimerType
  <2> QED
    BY <1>2, <1>7, <1>9, <2>1 DEF EscalateKill
<1>10. ASSUME SpawnWorker \/ ReplaceWorker PROVE ProcFits'
  <2> DEFINE w == spawned + 1
             v == [proc[w] EXCEPT !.alive = TRUE]
  <2>1. w \in Workers
    BY <1>1, <1>10, SpawnedStep, BoundsAssumption DEF Workers, PoolType
  <2>2. proc' = [proc EXCEPT ![w] = v]
    BY <1>10 DEF SpawnWorker, ReplaceWorker, Spawn
  <2> HIDE DEF w
  <2>3. v \in ProcType
    BY <1>1, <2>1 DEF ProcFits, ProcType
  <2> HIDE DEF v
  <2> QED
    BY <1>1, <2>1, <2>2, <2>3 DEF ProcFits
<1> QED
  BY <1>0, <1>2, <1>5, <1>6, <1>8, <1>9, <1>10 DEF ProcChanges

(* An element of the right kind may be appended.                          *)
LEMMA AppendFits ==
  ASSUME NEW T, NEW q \in Seq(T), NEW x \in T
  PROVE  Append(q, x) \in Seq(T)
OBVIOUS

(* Every step keeps the pool.                                             *)
LEMMA PoolTypeStep ==
  ASSUME TypeInv, [Next]_vars
  PROVE  PoolType'
<1>0. /\ UNCHANGED pool \/ PoolChanges
      /\ UNCHANGED retiring \/ RetiringChanges
  BY StepIsFramed DEF Framed
<1>1. /\ pool \subseteq 1 .. spawned /\ retiring \subseteq 1 .. spawned
      /\ spawned' \in spawned .. MaxSpawns /\ spawned \in 0 .. MaxSpawns /\ MaxSpawns \in Nat
      /\ SpawnWorker \/ ReplaceWorker => spawned' = spawned + 1
  BY SpawnedStep, BoundsAssumption DEF TypeInv, PoolType, Seen
<1>2. pool' \subseteq pool \cup (IF SpawnWorker \/ ReplaceWorker THEN {spawned + 1} ELSE {})
  <2>1. ASSUME NEW t \in Tasks, HandleTimeout(t) PROVE pool' \subseteq pool
    BY <2>1 DEF HandleTimeout
  <2>2. ASSUME NEW th \in Reapers, CheckWorkers(th) PROVE pool' \subseteq pool
    BY <2>2 DEF CheckWorkers
  <2>3. ASSUME NEW th \in Threads, ProcessResult(th) PROVE pool' \subseteq pool
    BY <2>3 DEF ProcessResult, RetireWorker
  <2>4. ASSUME SpawnWorker \/ ReplaceWorker PROVE pool' \subseteq pool \cup {spawned + 1}
    BY <2>4 DEF SpawnWorker, ReplaceWorker
  <2> QED
    BY <1>0, <2>1, <2>2, <2>3, <2>4 DEF PoolChanges
<1>3. retiring' \subseteq retiring \cup pool
  <2>1. ASSUME NEW t \in Tasks, HandleTimeout(t) PROVE retiring' \subseteq retiring \cup pool
    BY <2>1 DEF HandleTimeout
  <2>2. ASSUME NEW th \in Reapers, CheckWorkers(th) PROVE retiring' \subseteq retiring
    BY <2>2 DEF CheckWorkers
  <2>3. ASSUME NEW th \in Threads, ProcessResult(th) PROVE retiring' \subseteq retiring \cup pool
    BY <2>3 DEF ProcessResult, RetireWorker
  <2>4. ASSUME ReplaceWorker PROVE retiring' \subseteq retiring \cup pool
    <3>1. Evictable \subseteq pool /\ Evictable # {} /\ Evictable \subseteq 1 .. spawned
          /\ spawned \in Nat
      BY <1>1, <2>4 DEF ReplaceWorker, Evictable, Idle
    <3>2. First(Evictable) \in Evictable
      BY <3>1, FirstOfWorkers
    <3> QED
      BY <2>4, <3>1, <3>2 DEF ReplaceWorker
  <2>5. Close => retiring' \subseteq retiring
    BY DEF Close
  <2> QED
    BY <1>0, <2>1, <2>2, <2>3, <2>4, <2>5 DEF RetiringChanges
<1>4. 1 .. spawned \subseteq 1 .. spawned' /\ spawned' \in 0 .. MaxSpawns
  BY <1>1
<1>5. pool' \subseteq 1 .. spawned'
  <2>1. CASE SpawnWorker \/ ReplaceWorker
    <3>1. spawned + 1 \in 1 .. spawned'
      BY <1>1, <2>1
    <3> QED
      BY <1>1, <1>2, <1>4, <2>1, <3>1
  <2>2. CASE ~ (SpawnWorker \/ ReplaceWorker)
    BY <1>1, <1>2, <1>4, <2>2
  <2> QED
    BY <2>1, <2>2
<1>6. retiring' \subseteq 1 .. spawned'
  BY <1>1, <1>3, <1>4
<1> QED
  BY <1>4, <1>5, <1>6 DEF PoolType, Seen

(* Every step keeps the workers' queues.                                  *)
LEMMA PipesTypeStep ==
  ASSUME TypeInv, [Next]_vars, NoDup(pending), IsFiniteSet(inFlight)
  PROVE  PipesType'
<1>0. /\ UNCHANGED workQueue \/ WorkQueueChanges
      /\ UNCHANGED resultQueue \/ ResultQueueChanges
  BY StepIsFramed DEF Framed
<1>1. /\ workQueue \in [Workers -> Seq(Tasks \cup {Stop})]
      /\ resultQueue \in [Workers -> Seq(ResultType)]
      /\ PipesType /\ PoolType /\ ThreadInv /\ TimerType /\ ProcFits
      /\ Seen \subseteq Workers /\ pool \subseteq Workers
  BY BoundsAssumption DEF TypeInv, PipesType, PoolType, Seen, Workers
<1>2. workQueue' \in [Workers -> Seq(Tasks \cup {Stop})]
  <2> DEFINE T == Tasks \cup {Stop}
  <2>0. workQueue \in [Workers -> Seq(T)] /\ Stop \in T /\ Tasks \subseteq T
    BY <1>1
  <2>1. ASSUME NEW w, NEW x \in T, workQueue' = [workQueue EXCEPT ![w] = Append(workQueue[w], x)]
        PROVE  workQueue' \in [Workers -> Seq(T)]
    <3> HIDE DEF T
    <3>1. CASE w \in Workers
      <4>1. Append(workQueue[w], x) \in Seq(T)
        BY <2>0, <3>1, AppendFits
      <4> QED
        BY <2>0, <2>1, <4>1
    <3>2. CASE w \notin Workers
      BY <2>0, <2>1, <3>2
    <3> QED
      BY <3>1, <3>2
  <2>2. ASSUME NEW w \in Workers, workQueue' = [workQueue EXCEPT ![w] = Tail(workQueue[w])],
               workQueue[w] # <<>>
        PROVE  workQueue' \in [Workers -> Seq(T)]
    <3> HIDE DEF T
    <3>1. Tail(workQueue[w]) \in Seq(T)
      BY <2>0, <2>2
    <3> QED
      BY <2>0, <2>2, <3>1
  <2>3. ASSUME NEW t \in Tasks, ShipTask(t) PROVE workQueue' \in [Workers -> Seq(T)]
    BY <2>0, <2>1, <2>3 DEF ShipTask
  <2>4. ASSUME NEW th \in Threads, ProcessResult(th) PROVE workQueue' \in [Workers -> Seq(T)]
    BY <2>0, <2>1, <2>4 DEF ProcessResult, RetireWorker
  <2>5. ASSUME NEW w \in Workers, TakeWork(w) \/ TakeStop(w)
        PROVE  workQueue' \in [Workers -> Seq(T)]
    BY <2>2, <2>5 DEF TakeWork, TakeStop
  <2>6. ASSUME StopAllWorkers PROVE workQueue' \in [Workers -> Seq(T)]
    <3> DEFINE v(w) == IF w \in pool THEN Append(workQueue[w], Stop) ELSE workQueue[w]
    <3>1. workQueue' = [w \in Workers |-> v(w)]
      BY <2>6 DEF StopAllWorkers
    <3> HIDE DEF T
    <3>2. \A w \in Workers : Append(workQueue[w], Stop) \in Seq(T)
      BY <2>0, AppendFits
    <3>3. \A w \in Workers : v(w) \in Seq(T)
      BY <2>0, <3>2
    <3> HIDE DEF v
    <3> QED
      BY <3>1, <3>3
  <2>7. ASSUME ReplaceWorker PROVE workQueue' \in [Workers -> Seq(T)]
    BY <2>0, <2>1, <2>7 DEF ReplaceWorker
  <2>8. CASE UNCHANGED workQueue
    BY <1>1, <2>8
  <2> QED
    BY <1>0, <2>3, <2>4, <2>5, <2>6, <2>7, <2>8 DEF WorkQueueChanges
<1>3. resultQueue' \in [Workers -> Seq(ResultType)]
  <2> DEFINE Typed == resultQueue' \in [Workers -> Seq(ResultType)]
  <2>1. ASSUME NEW w \in Workers, NEW exit, Dies(w, exit) PROVE Typed
    <3>1. PICK n \in 0 .. Len(resultQueue[w]) :
            resultQueue' = [resultQueue EXCEPT ![w] = SubSeq(resultQueue[w], 1, n)]
      BY <2>1 DEF Dies
    <3>2. resultQueue[w] \in Seq(ResultType)
      BY <1>1
    <3>3. SubSeq(resultQueue[w], 1, n) \in Seq(ResultType)
      BY <3>2
    <3> QED
      BY <1>1, <3>1, <3>3
  <2>2. ASSUME NEW w \in Workers, Crash(w) PROVE Typed
    <3>1. PICK exit \in CrashExits : Dies(w, exit)
      BY <2>2 DEF Crash
    <3> QED
      BY <2>1, <3>1
  <2>3. ASSUME EscalateKill PROVE Typed
    <3>1. timer.victim \in Workers
      BY <1>1, <2>3 DEF EscalateKill, TimerType
    <3>2. Dies(timer.victim, "killed") \/ UNCHANGED resultQueue
      BY <2>3 DEF EscalateKill
    <3> QED
      BY <1>1, <2>1, <3>1, <3>2
  <2>4. ASSUME NEW w \in Workers, Finish(w) PROVE Typed
    <3> DEFINE ok == proc[w].task \notin Raises
               x == [task |-> proc[w].task, ok |-> ok]
    <3>1. proc[w].task \in Tasks /\ ok \in BOOLEAN
      BY <1>1, <2>4 DEF ProcFits, ProcType, Finish
    <3>2. resultQueue' = [resultQueue EXCEPT ![w] = Append(resultQueue[w], x)]
      BY <2>4 DEF Finish
    <3> HIDE DEF ok
    <3>3. x \in ResultType
      BY <3>1 DEF ResultType
    <3> HIDE DEF x
    <3>4. Append(resultQueue[w], x) \in Seq(ResultType)
      BY <1>1, <3>3, AppendFits
    <3> QED
      BY <1>1, <3>2, <3>4
  <2>5. ASSUME NEW th \in Reapers, NEW w \in Workers, DrainQueue(th, w) PROVE Typed
    <3>1. resultQueue' = Emptied(w) \/ resultQueue' = resultQueue
      BY <2>5 DEF DrainQueue
    <3> QED
      BY <1>1, <3>1, DeliveredFits
  <2>6. ASSUME ReadQueue PROVE Typed
    <3>1. thread["collector"].slot \in Workers
      <4>1. /\ thread["collector"] \in ThreadType /\ ThreadFits("collector", thread["collector"])
            /\ thread["collector"].pc = "read"
        BY <1>1, <2>6, ThreadFacts DEF ReadQueue, Threads
      <4> QED
        BY <4>1 DEF ThreadType, ThreadFits
    <3>2. resultQueue' = Emptied(thread["collector"].slot)
      BY <2>6 DEF ReadQueue
    <3> QED
      BY <1>1, <3>1, <3>2, DeliveredFits
  <2>7. CASE UNCHANGED resultQueue
    BY <1>1, <2>7
  <2> QED
    BY <1>0, <2>2, <2>3, <2>4, <2>5, <2>6, <2>7 DEF ResultQueueChanges
<1> QED
  BY <1>2, <1>3 DEF PipesType

(* Every step keeps the profiles.                                         *)
LEMMA ProfileTypeStep ==
  ASSUME TypeInv, [Next]_vars
  PROVE  ProfileType'
<1>0. UNCHANGED profile \/ (\E th \in Reapers : RetryLost(th)) \/ (\E th \in Threads : SettleResult(th))
  BY StepIsFramed DEF Framed
<1> DEFINE P == [samples : 0 .. 1, floor : Nat \cup {None}]
<1>1. profile \in [Fns -> P] /\ work \in [Tasks -> PendingWorkType]
  BY DEF TypeInv, ProfileType, WorkType
<1>2. ASSUME NEW f \in Fns, NEW v \in P, profile' = [profile EXCEPT ![f] = v] PROVE ProfileType'
  <2> HIDE DEF P
  <2>1. profile' \in [Fns -> P]
    BY <1>1, <1>2
  <2> QED
    BY <2>1 DEF P, ProfileType
<1>3. ASSUME NEW th \in Reapers, RetryLost(th) PROVE ProfileType'
  <2> DEFINE t == thread[th].lost
             old == profile[Fn[t]]
             mem == work[t].est.mem
             new == IF old.floor = None THEN mem ELSE Larger(old.floor, mem)
             v == [old EXCEPT !.floor = new]
  <2>1. t \in Tasks /\ profile' = [profile EXCEPT ![Fn[t]] = v]
    <3>1. profile' = [profile EXCEPT ![Fn[t]] = FloorRaised(old, mem)]
      BY <1>3 DEF RetryLost
    <3> QED
      BY <1>3, <3>1, LostTurns DEF FloorRaised
  <2>2. Fn[t] \in Fns /\ old \in P /\ mem \in Nat
    BY <1>1, <2>1 DEF Fns, PendingWorkType, EstimateType
  <2> HIDE DEF t, old, mem
  <2>3. new \in Nat
    BY <2>2 DEF Larger
  <2> HIDE DEF new
  <2>4. v \in P
    BY <2>2, <2>3
  <2> HIDE DEF v
  <2> QED
    BY <1>2, <2>1, <2>2, <2>4
<1>4. ASSUME NEW th \in Threads, SettleResult(th) PROVE ProfileType'
  <2> DEFINE t == thread[th].hand.task
             old == profile[Fn[t]]
             v == [old EXCEPT !.samples = 1]
  <2>1. t \in Tasks /\ profile' = [profile EXCEPT ![Fn[t]] = v]
    <3>1. thread[th].hand \in ResultType
      BY <1>4, SettleTurns
    <3>2. profile' = [profile EXCEPT ![Fn[t]].samples = 1]
      BY <1>4 DEF SettleResult
    <3> QED
      BY <3>1, <3>2 DEF ResultType
  <2>2. Fn[t] \in Fns /\ old \in P
    BY <1>1, <2>1 DEF Fns
  <2> HIDE DEF t, old
  <2>4. v \in P
    BY <2>2
  <2> HIDE DEF v
  <2> QED
    BY <1>2, <2>1, <2>2, <2>4
<1>5. CASE UNCHANGED profile
  BY <1>1, <1>5 DEF ProfileType
<1> QED
  BY <1>0, <1>3, <1>4, <1>5

(* Every step keeps the plan.                                             *)
LEMMA PlanTypeStep ==
  ASSUME TypeInv, [Next]_vars, NoDup(pending), IsFiniteSet(inFlight)
  PROVE  PlanType'
<1>0. /\ UNCHANGED plan \/ PlanChanges
      /\ UNCHANGED rr \/ MaybeDispatch
      /\ UNCHANGED spawned \/ SpawnWorker \/ ReplaceWorker
  BY StepIsFramed DEF Framed
<1>1. PlanType
  BY DEF TypeInv
<1>2. ASSUME MaybeDispatch PROVE PlanType'
  <2>1. PICK S, left : S \subseteq {t \in Range(pending) : Stale(t)} /\ Dispatches(S, left)
    BY <1>2, DispatchUnfolds
  <2>2. WorkType /\ ProfileType /\ QueueType /\ PlanType
    BY DEF TypeInv
  <2> QED
    BY <2>1, <2>2, PlanIsMade DEF PlanType
<1>3. ASSUME \/ LeaveQueued \/ DropCancelled \/ \E t \in Tasks : ShipTask(t)
      PROVE  plan' \in Seq([task : Tasks, gpu : Gpus \cup {None}])
  <2>1. thread["dispatch"].pc = "ship" /\ NextDecision /\ spawned' = spawned
    BY <1>3 DEF LeaveQueued, DropCancelled, ShipTask, Securing, Secured, poolVars
  <2> QED
    BY <2>1, NextDecisionTurns
<1>4. rr' \in 0 .. Len(GpuOrder) /\ plan' \in Seq([task : Tasks, gpu : Gpus \cup {None}])
  BY <1>0, <1>1, <1>2, <1>3 DEF PlanChanges, PlanType
<1> QED
  BY <1>4 DEF PlanType

(* Every step keeps the timeout thread's record.                          *)
LEMMA TimerTypeStep ==
  ASSUME TypeInv, [Next]_vars
  PROVE  TimerType'
<1>0. UNCHANGED timer \/ TimerChanges
  BY StepIsFramed DEF Framed
<1>1. /\ timer \in [todo : SUBSET Tasks, task : Tasks \cup {None}, victim : (1 .. spawned) \cup {None}]
      /\ inFlight \subseteq Tasks /\ pool \subseteq 1 .. spawned /\ spawned \in Nat
      /\ 1 .. spawned \subseteq 1 .. spawned'
  <2>1. spawned' \in spawned .. MaxSpawns /\ spawned \in 0 .. MaxSpawns /\ MaxSpawns \in Nat
    BY SpawnedStep, BoundsAssumption DEF TypeInv, PoolType
  <2>2. 1 .. spawned \subseteq 1 .. spawned' /\ spawned \in Nat
    BY <2>1
  <2> QED
    BY <2>2 DEF TypeInv, TimerType, QueueType, PoolType, Seen
<1>2. ASSUME NEW todo \in SUBSET Tasks, NEW task \in Tasks \cup {None},
             NEW victim \in 1 .. spawned \cup {None},
             timer' = [todo |-> todo, task |-> task, victim |-> victim]
      PROVE  TimerType'
  BY <1>1, <1>2 DEF TimerType, Seen
<1>3. ASSUME NEW t \in Tasks, HandleTimeout(t) PROVE TimerType'
  <2> DEFINE w == work[t].worker
             live == t \in inFlight /\ ~ Done(t)
             kills == live /\ Kills(t)
             todo == timer.todo \ {t}
             task == IF live THEN t ELSE None
             victim == IF kills /\ w \in pool THEN w ELSE None
  <2>1. timer' = [todo |-> todo, task |-> task, victim |-> victim]
    BY <1>3 DEF HandleTimeout
  <2>2. todo \in SUBSET Tasks
    BY <1>1
  <2>3. task \in Tasks \cup {None} /\ victim \in 1 .. spawned \cup {None}
    BY <1>1
  <2> HIDE DEF todo, task, victim
  <2> QED
    BY <1>2, <2>1, <2>2, <2>3
<1>4. ASSUME ScanTimeouts PROVE TimerType'
  <2>1. timer' = [timer EXCEPT !.todo = inFlight \cap overdue]
    BY <1>4 DEF ScanTimeouts
  <2> QED
    BY <1>1, <2>1 DEF TimerType, Seen
<1>5. ASSUME EscalateKill PROVE TimerType'
  <2>1. timer' = [timer EXCEPT !.victim = None]
    BY <1>5 DEF EscalateKill
  <2> QED
    BY <1>1, <2>1 DEF TimerType, Seen
<1>6. ASSUME SettleTimeout PROVE TimerType'
  <2>1. timer' = [timer EXCEPT !.task = None]
    BY <1>6 DEF SettleTimeout
  <2> QED
    BY <1>1, <2>1 DEF TimerType, Seen
<1>7. CASE UNCHANGED timer
  BY <1>1, <1>7 DEF TimerType, Seen
<1> QED
  BY <1>0, <1>3, <1>4, <1>5, <1>6, <1>7 DEF TimerChanges

(* Every step keeps the flags and the histories.                          *)
LEMMA FlagsTypeStep ==
  ASSUME TypeInv, [Next]_vars
  PROVE  FlagsType'
<1>0. /\ UNCHANGED overdue \/ (\E t \in Tasks : Overdue(t)) \/ (\E t \in Tasks : ShipTask(t))
      /\ UNCHANGED crashes \/ (\E w \in Workers : Crash(w))
      /\ UNCHANGED ran \/ (\E w \in Workers : TakeWork(w))
      /\ UNCHANGED stopping \/ StopThreads
      /\ UNCHANGED accepting \/ Shutdown
      /\ UNCHANGED wait \/ Shutdown
      /\ UNCHANGED onTimeout
  BY StepIsFramed DEF Framed
<1>1. FlagsType /\ PipesType
  BY DEF TypeInv
<1>2. overdue' \subseteq Tasks
  BY <1>0, <1>1 DEF FlagsType, Overdue, ShipTask
<1>3. ran' \subseteq Tasks
  <2>1. ASSUME NEW w \in Workers, TakeWork(w) PROVE ran' \subseteq Tasks
    <3>1. workQueue[w] \in Seq(Tasks \cup {Stop}) /\ workQueue[w] # <<>>
      BY <1>1, <2>1 DEF PipesType, TakeWork
    <3>2. Head(workQueue[w]) \in Tasks \cup {Stop}
      BY <3>1
    <3> QED
      BY <1>1, <2>1, <3>2 DEF TakeWork, FlagsType
  <2> QED
    BY <1>0, <1>1, <2>1 DEF FlagsType
<1>4. crashes' \in 0 .. MaxCrashes
  <2>1. ASSUME NEW w \in Workers, Crash(w) PROVE crashes' = crashes + 1 /\ crashes < MaxCrashes
    BY <2>1 DEF Crash
  <2>2. crashes' = crashes \/ (crashes' = crashes + 1 /\ crashes < MaxCrashes)
    BY <1>0, <2>1
  <2> QED
    BY <1>1, <2>2, BoundsAssumption DEF FlagsType
<1>5. accepting' \in BOOLEAN
  BY <1>0, <1>1 DEF FlagsType, Shutdown
<1>6. stopping' \in BOOLEAN
  BY <1>0, <1>1 DEF FlagsType, StopThreads
<1>7. wait' \in BOOLEAN
  BY <1>0, <1>1, ModesAssumption DEF FlagsType, Shutdown
<1>8. onTimeout' \in {"fail_future", "kill_worker"}
  BY <1>0, <1>1 DEF FlagsType
<1> QED
  BY <1>2, <1>3, <1>4, <1>5, <1>6, <1>7, <1>8 DEF FlagsType

(* Types are kept, by a step from a state whose queue has no duplicates.    *)
LEMMA TypeStep ==
  ASSUME TypeInv, [Next]_vars, NoDup(pending), IsFiniteSet(inFlight)
  PROVE  TypeInv'
<1>1. FuturesType'
  BY FuturesStep DEF TypeInv
<1> QED
  BY <1>1, WorkTypeStep, QueueTypeStep, PoolTypeStep, SlotFitsStep, ProcFitsStep, PipesTypeStep,
     ProfileTypeStep, PlanTypeStep, TimerTypeStep, FlagsTypeStep, ThreadStep DEF TypeInv
==============================================================================
