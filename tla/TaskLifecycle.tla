---------------------------- MODULE TaskLifecycle ----------------------------
(***************************************************************************)
(* What the executor promises for each submitted task, whatever its        *)
(* threads and workers do: the life of a PendingWork and of its future.    *)
(*                                                                         *)
(*   new      -> queued     submit                                         *)
(*   queued   -> settled    cancelled, refused by shutdown, infeasible     *)
(*   queued   -> inFlight   dispatched, within the worker limit, and alone *)
(*                          if exclusive                                   *)
(*   inFlight -> held       someone takes it out of the running set: for   *)
(*                          its result, for its timeout, for its crash     *)
(*   held     -> settled    result, raised, timeout, crashed               *)
(*   held     -> queued     a resource crash with retries left: exclusive  *)
(*                          from now on                                    *)
(*                                                                         *)
(* Only a task that was never dispatched can be cancelled.                 *)
(* A task has one phase at a time, so no thread can settle what another    *)
(* one runs, and its outcome is final.                                     *)
(***************************************************************************)
EXTENDS Naturals, FiniteSets

CONSTANTS Tasks, MaxWorkers, MaxRetries

VARIABLES phase,     \* where each task is
          outcome,   \* the outcome of its future, "open" until it is settled
          attempts   \* how often it went back to the queue after a crash

life == <<phase, outcome, attempts>>

Phases == {"new", "queued", "inFlight", "held", "settled"}
EarlyOutcomes == {"cancelled", "refused", "infeasible"}
LateOutcomes == {"result", "raised", "timeout", "crashed"}
Exclusive(t) == attempts[t] > 0
InFlight == {t \in Tasks : phase[t] = "inFlight"}

Init ==
  /\ phase = [t \in Tasks |-> "new"]
  /\ outcome = [t \in Tasks |-> "open"]
  /\ attempts = [t \in Tasks |-> 0]

Enqueue(t) ==
  /\ phase[t] = "new"
  /\ phase' = [phase EXCEPT ![t] = "queued"]
  /\ UNCHANGED <<outcome, attempts>>

\* The sweep and the shutdown end several tasks of the queue in one step.
EndQueued(S) ==
  /\ \A t \in S : phase[t] = "queued"
  /\ phase' = [t \in Tasks |-> IF t \in S THEN "settled" ELSE phase[t]]
  /\ \E early \in EarlyOutcomes :
       /\ early = "cancelled" => \A t \in S : ~ Exclusive(t)
       /\ outcome' = [t \in Tasks |-> IF t \in S THEN early ELSE outcome[t]]
  /\ UNCHANGED attempts

Dispatch(t) ==
  /\ phase[t] = "queued"
  /\ Cardinality(InFlight) < MaxWorkers
  /\ \A u \in InFlight : ~ Exclusive(u) /\ ~ Exclusive(t)
  /\ phase' = [phase EXCEPT ![t] = "inFlight"]
  /\ UNCHANGED <<outcome, attempts>>

Take(t) ==
  /\ phase[t] = "inFlight"
  /\ phase' = [phase EXCEPT ![t] = "held"]
  /\ UNCHANGED <<outcome, attempts>>

Settle(t) ==
  /\ phase[t] = "held"
  /\ phase' = [phase EXCEPT ![t] = "settled"]
  /\ \E late \in LateOutcomes : outcome' = [outcome EXCEPT ![t] = late]
  /\ UNCHANGED attempts

Requeue(t) ==
  /\ phase[t] = "held"
  /\ attempts[t] < MaxRetries
  /\ phase' = [phase EXCEPT ![t] = "queued"]
  /\ attempts' = [attempts EXCEPT ![t] = @ + 1]
  /\ UNCHANGED outcome

Next ==
  \/ \E t \in Tasks : Enqueue(t) \/ Dispatch(t) \/ Take(t) \/ Settle(t) \/ Requeue(t)
  \/ \E S \in SUBSET Tasks : EndQueued(S)

Spec == Init /\ [][Next]_life
=============================================================================
