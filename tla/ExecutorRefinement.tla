-------------------------- MODULE ExecutorRefinement --------------------------
(* The executor implements TaskLifecycle.  A task's phase is read off the    *)
(* place that is responsible for it; held is every place between the running *)
(* set and the future: a result, a timeout or a crash being dealt with.      *)
EXTENDS Executor

PhaseOf(t) ==
  CASE future[t] \in {"new", "entering", "rejected"}            -> "new"
    [] Done(t)                                                -> "settled"
    [] future[t] \in Waiting /\ t \in Range(pending)            -> "queued"
    [] future[t] \in Waiting /\ t \in inFlight \ Range(pending) -> "inFlight"
    [] OTHER                                                  -> "held"

Phase == [t \in Tasks |-> PhaseOf(t)]
Outcome == [t \in Tasks |-> IF Done(t) THEN future[t] ELSE "open"]
Attempts == [t \in Tasks |-> work[t].retries]

Life == INSTANCE TaskLifecycle WITH phase <- Phase, outcome <- Outcome, attempts <- Attempts

(* Every behaviour of the executor is one of TaskLifecycle: a task is        *)
(* queued, in flight, held or settled, never two of them, and moves only     *)
(* along the abstract steps (224-310, 318-406, 949-988, 1006-1045,           *)
(* 1120-1216).                                                               *)
ImplementsTaskLifecycle == Life!Spec
=============================================================================
