----------------------------- MODULE Scheduling -----------------------------
(***************************************************************************)
(* The operators of scheduling.py: one dispatch cycle of the EASY backfill *)
(* planner, as a function of the pending queue, the running set and the    *)
(* admittable capacity.                                                    *)
(*                                                                         *)
(* The planner visits the running entries once, to collect occupants and   *)
(* held identities, and then every queue entry once, in order.  A plan is  *)
(* therefore the last of a chain of states, by Occupy and then PlanStep,   *)
(* each of them a record p:                                                *)
(*                                                                         *)
(*   p.live         what is free now: memory, VRAM per known GPU, and the  *)
(*                  worker slots in use                                    *)
(*   p.rr           the next index into GpuOrder                           *)
(*   p.freed[t]     what the occupants expected to end by t give back (the *)
(*                  loop of _state_at, kept per instant)                   *)
(*   p.ends         the finite release times of the occupants              *)
(*   p.held         the profile identities of running and planned tasks    *)
(*   p.phase        "front", then "backfill" or "closed"                   *)
(*   p.head         the blocked head, None before there is one             *)
(*   p.reservation  the head's reservation                                 *)
(*   p.decisions    the dispatch decisions, in order                       *)
(*                                                                         *)
(* Memory and VRAM are whole gigabytes, time is whole seconds below the    *)
(* horizon Never, which also stands for the infinite reservation.          *)
(* Operators whose name ends in Bug are wrong versions of the definition   *)
(* that follows them; no behaviour uses them.                              *)
(***************************************************************************)
EXTENDS Integers, Sequences, SequencesExt

CONSTANTS MaxWorkers,   \* size limit of the worker pool
          GpuOrder,     \* the executor's gpu_ids, in round-robin order
          Never,        \* the first instant no finite duration reaches
          None          \* Python's None

Gpus == {GpuOrder[i] : i \in DOMAIN GpuOrder}
Instants == 0 .. Never

ASSUME MaxWorkersAssumption == MaxWorkers \in Nat \ {0}
ASSUME NeverAssumption == Never \in Nat \ {0}
ASSUME GpuOrderAssumption == GpuOrder \in Seq(Gpus)
ASSUME NoneAssumption == None \notin Gpus /\ None \notin Instants

-----------------------------------------------------------------------------
(* Pools.  A pool s is [gated, mem, gpu, slots]; gated is snapshot_present: *)
(* without a snapshot memory and VRAM are infinite.  An amount f is         *)
(* [mem, gpu, slots].  A use u = [mem, vram, gpu] is what one task holds    *)
(* besides its slot.                                                        *)

Use(task, g) == [mem |-> task.mem, vram |-> task.vram, gpu |-> g]

Nothing(known) == [mem |-> 0, gpu |-> [g \in known |-> 0], slots |-> 0]

More(f, u) ==
  [mem   |-> f.mem + u.mem,
   gpu   |-> [g \in DOMAIN f.gpu |-> IF g = u.gpu THEN f.gpu[g] + u.vram ELSE f.gpu[g]],
   slots |-> f.slots + 1]

Take(s, u) ==
  [gated |-> s.gated,
   mem   |-> s.mem - u.mem,
   gpu   |-> [g \in DOMAIN s.gpu |-> IF g = u.gpu THEN s.gpu[g] - u.vram ELSE s.gpu[g]],
   slots |-> s.slots + 1]

Plus(s, f) ==
  [gated |-> s.gated,
   mem   |-> s.mem + f.mem,
   gpu   |-> [g \in DOMAIN s.gpu |-> s.gpu[g] + f.gpu[g]],
   slots |-> s.slots - f.slots]

-----------------------------------------------------------------------------
(* Admissibility.                                                           *)

Room(s, need, free) == ~ s.gated \/ need < free

EffectiveMax(s, task) ==
  IF s.gated /\ task.cpu > 1
    THEN IF MaxWorkers \div task.cpu > 1 THEN MaxWorkers \div task.cpu ELSE 1
    ELSE MaxWorkers

FitsNonGpuNoPoolBug(s, task) ==
  /\ task.excl => s.slots = 0
  /\ s.slots <= MaxWorkers
  /\ Room(s, task.mem, s.mem)

FitsNonGpu(s, task) ==
  /\ task.excl => s.slots = 0
  /\ s.slots < MaxWorkers
  /\ s.slots < EffectiveMax(s, task)
  /\ Room(s, task.mem, s.mem)

FitsGpu(s, task) ==
  task.vram > 0 => \E g \in DOMAIN s.gpu : Room(s, task.vram, s.gpu[g])

Fits(s, task) == FitsNonGpu(s, task) /\ FitsGpu(s, task)

Index(rr, k) == (rr + k) % Len(GpuOrder)
GpuAt(rr, k) == GpuOrder[Index(rr, k) + 1]

\* Offsets from rr, in round-robin order, of the GPUs with room for the task.
GpuOptions(s, task, rr) ==
  {k \in 0 .. Len(GpuOrder) - 1 :
     GpuAt(rr, k) \in DOMAIN s.gpu /\ Room(s, task.vram, s.gpu[GpuAt(rr, k)])}

First(S) == CHOOSE x \in S : \A y \in S : x <= y

\* Where a task goes: the first GPU among the offsets, or no GPU at all.
Place(task, rr, offsets) ==
  IF task.vram > 0
    THEN [gpu |-> GpuAt(rr, First(offsets)), rr |-> Index(rr, First(offsets) + 1)]
    ELSE [gpu |-> None, rr |-> rr]

CanaryBlocked(p, task) ==
  task.cold /\ task.ident # None /\ task.ident \in p.held

-----------------------------------------------------------------------------
(* The start of a cycle and its occupants.                                  *)

Start(cap) ==
  [live        |-> [gated |-> cap.gated, mem |-> cap.mem, gpu |-> cap.gpu, slots |-> cap.slots],
   rr          |-> cap.rr,
   freed       |-> [t \in Instants |-> Nothing(DOMAIN cap.gpu)],
   ends        |-> {},
   held        |-> {},
   phase       |-> "front",
   head        |-> None,
   reservation |-> Never,
   decisions   |-> <<>>]

FreedWith(p, u, left) ==
  [t \in Instants |->
     IF left # None /\ left <= t THEN More(p.freed[t], u) ELSE p.freed[t]]

EndsWithUnknownBug(p, left) == p.ends \cup {left}

EndsWith(p, left) == IF left = None THEN p.ends ELSE p.ends \cup {left}

HeldWith(p, ident) == IF ident = None THEN p.held ELSE p.held \cup {ident}

OccupyShareBug(p, o) ==
  [p EXCEPT !.freed = FreedWith(p, Use(o, o.gpu), o.left),
            !.ends = EndsWith(p, o.left),
            !.held = HeldWith(p, o.ident)]

\* One entry of the running set.  An exclusive one closes the whole cycle.
Occupy(p, o) ==
  [p EXCEPT !.freed = FreedWith(p, Use(o, o.gpu), o.left),
            !.ends = EndsWith(p, o.left),
            !.held = HeldWith(p, o.ident),
            !.phase = IF o.excl THEN "closed" ELSE p.phase]

-----------------------------------------------------------------------------
(* Front admission.                                                         *)

CanAdmitFront(p, task) == ~ CanaryBlocked(p, task) /\ Fits(p.live, task)

Admitted(p, task, place, rule) ==
  [p EXCEPT !.live = Take(p.live, Use(task, place.gpu)),
            !.rr = place.rr,
            !.held = HeldWith(p, task.ident),
            !.decisions = Append(p.decisions,
                                 [task |-> task, gpu |-> place.gpu, rule |-> rule])]

\* A front task becomes an occupant; an exclusive one ends the cycle.
AdmitFront(p, task) ==
  LET place == Place(task, p.rr, GpuOptions(p.live, task, p.rr))
      use   == Use(task, place.gpu)
  IN [Admitted(p, task, place, "front")
        EXCEPT !.freed = FreedWith(p, use, task.dur),
               !.ends = EndsWith(p, task.dur),
               !.phase = IF task.excl THEN "closed" ELSE "front"]

-----------------------------------------------------------------------------
(* The blocked head and its reservation.                                    *)

StateAt(p, t) == Plus(p.live, p.freed[t])

ReservationTimes(p, head) == {t \in p.ends : Fits(StateAt(p, t), head)}

Reservation(p, head) ==
  IF CanaryBlocked(p, head) \/ ReservationTimes(p, head) = {}
    THEN Never
    ELSE First(ReservationTimes(p, head))

Block(p, head) ==
  IF head.excl
    THEN [p EXCEPT !.phase = "closed", !.head = head]
    ELSE [p EXCEPT !.phase = "backfill",
                   !.head = head,
                   !.reservation = Reservation(p, head)]

-----------------------------------------------------------------------------
(* Backfill around the head.                                                *)

ShortOfNeverBug(p, task) == task.dur # None /\ task.dur <= p.reservation

\* Rule (b): the candidate is expected to end before the reservation.
Short(p, task) ==
  p.reservation < Never /\ task.dur # None /\ task.dur <= p.reservation

HoldForgottenBug(p, task, g) == Fits(StateAt(p, p.reservation), p.head)

\* Rule (a): the head still fits at its reservation with the candidate there.
HeadStillFitsWithHold(p, task, g) ==
  Fits(Take(StateAt(p, p.reservation), Use(task, g)), p.head)

Harmless(p, task, g) == Short(p, task) \/ HeadStillFitsWithHold(p, task, g)

BackfillOffsets(p, task) ==
  {k \in GpuOptions(p.live, task, p.rr) : Harmless(p, task, GpuAt(p.rr, k))}

CanBackfillCanaryBug(p, task) ==
  /\ FitsNonGpu(p.live, task)
  /\ IF task.vram > 0 THEN BackfillOffsets(p, task) # {} ELSE Harmless(p, task, None)

CanBackfill(p, task) ==
  /\ ~ CanaryBlocked(p, task)
  /\ FitsNonGpu(p.live, task)
  /\ IF task.vram > 0 THEN BackfillOffsets(p, task) # {} ELSE Harmless(p, task, None)

AdmitBackfill(p, task) ==
  Admitted(p, task, Place(task, p.rr, BackfillOffsets(p, task)),
           IF Short(p, task) THEN "b" ELSE "a")

-----------------------------------------------------------------------------
(* The whole cycle.                                                         *)

PlanStep(p, task) ==
  CASE p.phase = "front" ->
         IF CanAdmitFront(p, task) THEN AdmitFront(p, task) ELSE Block(p, task)
    [] p.phase = "backfill" ->
         IF CanBackfill(p, task) THEN AdmitBackfill(p, task) ELSE p
    [] p.phase = "closed" -> p

\* The occupants are collected, then the queue is visited in order.
PlanDispatch(queue, running, cap) ==
  LET occupied[i \in 0 .. Len(running)] ==
        IF i = 0 THEN Start(cap) ELSE Occupy(occupied[i - 1], running[i])
      visited[i \in 0 .. Len(queue)] ==
        IF i = 0 THEN occupied[Len(running)] ELSE PlanStep(visited[i - 1], queue[i])
  IN visited[Len(queue)]

\* What the executor keeps of its queue q when the tasks of S leave it, in order.
Without(q, S) ==
  LET kept[i \in 0 .. Len(q)] ==
        IF i = 0 THEN <<>> ELSE IF q[i] \in S THEN kept[i - 1] ELSE Append(kept[i - 1], q[i])
  IN kept[Len(q)]
=============================================================================
