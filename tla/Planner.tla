------------------------------- MODULE Planner -------------------------------
(***************************************************************************)
(* One run of plan_dispatch (scheduling.py) as a state machine: it loads   *)
(* the running entries, then visits the queue entry by entry.  The inputs  *)
(* are chosen in Init, so every invariant speaks of every input and of     *)
(* every point of the run.                                                 *)
(***************************************************************************)
EXTENDS Scheduling

CONSTANTS PendingEntries,   \* the entries a queue may hold
          RunningEntries,   \* the entries the running set may hold
          KnownGpus,        \* the GPUs the snapshot knows
          Capacities,       \* [gated, mem, gpu, rr]: what is admittable now
          MaxQueue          \* bound on the length of the queue

Durations == 0 .. Never - 1

PendingEntryType ==
  [mem : Nat, vram : Nat, cpu : Nat, dur : Durations \cup {None},
   excl : BOOLEAN, ident : STRING \cup {None}, cold : BOOLEAN]

RunningEntryType ==
  [mem : Nat, vram : Nat, gpu : Gpus \cup {None}, left : Durations \cup {None},
   excl : BOOLEAN, ident : STRING \cup {None}]

Amounts == [mem : Int, gpu : [KnownGpus -> Int], slots : Int]
Pools == [gated : BOOLEAN, mem : Int, gpu : [KnownGpus -> Int], slots : Int]

DecisionType ==
  [task : PendingEntries, gpu : KnownGpus \cup {None}, rule : {"front", "a", "b"}]

PlannerStates ==
  [live : Pools, rr : Nat, freed : [Instants -> Amounts], ends : SUBSET Durations,
   held : SUBSET STRING, phase : {"front", "backfill", "closed"},
   head : PendingEntries \cup {None}, reservation : Instants,
   decisions : Seq(DecisionType)]

ASSUME PendingAssumption ==
  PendingEntries \subseteq PendingEntryType /\ None \notin PendingEntries /\ None \notin STRING
ASSUME RunningAssumption == RunningEntries \subseteq RunningEntryType
ASSUME CapacityAssumption ==
  Capacities \subseteq [gated : BOOLEAN, mem : Int, gpu : [KnownGpus -> Int], rr : Nat]
ASSUME KnownAssumption == KnownGpus \subseteq Gpus
ASSUME MaxQueueAssumption == MaxQueue \in Nat

VARIABLES running,  \* the running set, in the executor's in_flight order
          queue,    \* the pending queue
          loaded,   \* how many running entries __init__ and run() have visited
          planned,  \* how many queue entries the planner has visited
          p,        \* the planner's state
          lent      \* history: what rule (b) admissions of this cycle hold

vars == <<running, queue, loaded, planned, p, lent>>

\* What the executor can pass: at most MaxWorkers in flight, and an exclusive
\* task in flight is alone there.
RunningSets ==
  {r \in UNION {[1 .. n -> RunningEntries] : n \in 0 .. MaxWorkers} :
     (\E i \in DOMAIN r : r[i].excl) => Len(r) = 1}

Init ==
  /\ running \in RunningSets
  /\ queue \in UNION {[1 .. n -> PendingEntries] : n \in 0 .. MaxQueue}
  /\ loaded = 0
  /\ planned = 0
  /\ \E cap \in Capacities :
       /\ p = Start([gated |-> cap.gated, mem |-> cap.mem, gpu |-> cap.gpu,
                     rr |-> cap.rr, slots |-> Len(running)])
       /\ lent = Nothing(KnownGpus)

Load ==
  /\ loaded < Len(running)
  /\ loaded' = loaded + 1
  /\ p' = Occupy(p, running[loaded + 1])
  /\ UNCHANGED <<running, queue, planned, lent>>

Candidate == queue[planned + 1]

Visit ==
  /\ loaded = Len(running)
  /\ planned < Len(queue)
  /\ planned' = planned + 1
  /\ UNCHANGED <<running, queue, loaded>>

FrontAdmit ==
  /\ p.phase = "front"
  /\ CanAdmitFront(p, Candidate)
  /\ p' = AdmitFront(p, Candidate)
  /\ lent' = lent

BlockHead ==
  /\ p.phase = "front"
  /\ ~ CanAdmitFront(p, Candidate)
  /\ p' = Block(p, Candidate)
  /\ lent' = lent

Backfill ==
  /\ p.phase = "backfill"
  /\ CanBackfill(p, Candidate)
  /\ p' = AdmitBackfill(p, Candidate)
  /\ lent' = IF Short(p, Candidate)
               THEN More(lent, Use(Candidate, p'.decisions[Len(p'.decisions)].gpu))
               ELSE lent

PassOver ==
  /\ p.phase = "backfill" /\ ~ CanBackfill(p, Candidate)
  /\ UNCHANGED <<p, lent>>

Ignore ==
  /\ p.phase = "closed"
  /\ UNCHANGED <<p, lent>>

Plan == Visit /\ (FrontAdmit \/ BlockHead \/ Backfill \/ PassOver \/ Ignore)

Next == Load \/ Plan

Spec == Init /\ [][Next]_vars

-----------------------------------------------------------------------------
Decisions == {p.decisions[i] : i \in DOMAIN p.decisions}
Backfilled == \E d \in Decisions : d.rule # "front"

(* Every part of the planner's state keeps its type; in particular only     *)
(* finite release times are collected, and a blocked head is always an      *)
(* entry of the queue (scheduling.py:180-203, 367-383).                     *)
TypeOK ==
  /\ running \in Seq(RunningEntries)
  /\ queue \in Seq(PendingEntries)
  /\ loaded \in 0 .. Len(running)
  /\ planned \in 0 .. Len(queue)
  /\ p \in PlannerStates
  /\ p.phase = "backfill" => p.head # None
  /\ lent \in Amounts

(* No backfill delays the head: as long as the head waits, it still fits at *)
(* its reservation once the occupants due by then and the rule-(b) tasks    *)
(* have ended, whatever else was admitted (scheduling.py:449-502; for a     *)
(* head without a finite reservation, from the first backfill on).          *)
HeadKeepsReservation ==
  p.phase = "backfill" /\ (p.reservation < Never \/ Backfilled)
    => Fits(Plus(StateAt(p, p.reservation), lent), p.head)

(* An exclusive task has the machine to itself: one in flight empties the   *)
(* plan, one admitted is the plan's only decision and joins no in-flight    *)
(* task, by front admission or by backfill (scheduling.py:211, 230, 398).   *)
ExclusiveRunsAlone ==
  /\ loaded = Len(running) /\ (\E i \in DOMAIN running : running[i].excl) => p.decisions = <<>>
  /\ (\E d \in Decisions : d.task.excl) => Len(p.decisions) = 1 /\ running = <<>>

(* The cold-start canary: a cold task is never planned next to a running or *)
(* an earlier planned task of its identity (scheduling.py:261-269).         *)
OneColdPerIdentity ==
  \A i \in DOMAIN p.decisions :
    LET task == p.decisions[i].task IN
      task.cold /\ task.ident # None =>
        /\ \A j \in DOMAIN running : running[j].ident # task.ident
        /\ \A j \in 1 .. i - 1 : p.decisions[j].task.ident # task.ident

(* A plan never spends more than there is: after any decision free memory   *)
(* stays positive, so does the VRAM of every GPU a decision used, and the   *)
(* in-flight tasks fit the pool (the strict comparisons of _fits).          *)
WithinCapacity ==
  /\ Len(running) + Len(p.decisions) <= MaxWorkers
  /\ p.live.gated /\ p.decisions # <<>> =>
       /\ p.live.mem > 0
       /\ \A d \in Decisions : d.gpu # None => p.live.gpu[d.gpu] > 0

(* A head that no known release can admit stops the cycle: unless the       *)
(* canary is what blocks it, nothing is admitted around an infinite         *)
(* reservation (scheduling.py:392 with 476-502).                            *)
InfiniteReservationAdmitsNothing ==
  p.phase = "backfill" /\ p.reservation = Never /\ ~ CanaryBlocked(p, p.head)
    => ~ Backfilled

=============================================================================
