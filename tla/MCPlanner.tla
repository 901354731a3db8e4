------------------------------ MODULE MCPlanner ------------------------------
(* Planner for TLC: every queue and every running set over each of two small *)
(* menus of entries, on one machine.                                         *)
EXTENDS Planner

Pend(mem, vram, dur) ==
  [mem |-> mem, vram |-> vram, cpu |-> 1, dur |-> dur, excl |-> FALSE,
   ident |-> None, cold |-> FALSE]

Run(mem, vram, gpu, left) ==
  [mem |-> mem, vram |-> vram, gpu |-> gpu, left |-> left, excl |-> FALSE, ident |-> None]

\* Three GPUs in round-robin order, the second unknown to the snapshot.
ThreeGpus == <<1, 3, 2>>
Two == [g \in {1, 2} |-> 2]

\* Memory, slots, cpu caps and exclusive tasks, with and without a snapshot; no
\* task needs a GPU.
MemoryPending ==
  {Pend(1, 0, 1), Pend(1, 0, None), Pend(2, 0, 2), Pend(3, 0, 1), Pend(2, 0, None)}
    \cup {[Pend(1, 0, 1) EXCEPT !.excl = TRUE], [Pend(1, 0, 2) EXCEPT !.cpu = 2]}
MemoryRunning ==
  {Run(1, 0, None, 1), Run(1, 0, None, None), Run(2, 0, None, 2)}
    \cup {[Run(1, 0, None, 1) EXCEPT !.excl = TRUE]}
MemoryCapacities ==
  [gated : BOOLEAN, mem : {1, 3}, gpu : {Two}, rr : {0}]

\* Placement: cold tasks, a hinted (hence not cold) task of the same identity,
\* strangers.
Of(entry, ident, cold) == [entry EXCEPT !.ident = ident, !.cold = cold]
PlacedPending ==
  {Of(Pend(1, 1, None), "f", TRUE), Of(Pend(1, 0, None), "f", FALSE),
   Of(Pend(2, 0, None), "g", TRUE), Of(Pend(1, 0, None), "g", TRUE),
   Pend(1, 1, 1), Pend(1, 2, 2)}
PlacedRunning ==
  {Run(1, 1, 1, 1), [Run(1, 2, 2, 2) EXCEPT !.ident = "g"],
   [Run(1, 1, 2, None) EXCEPT !.ident = "f"]}
PlacedCapacities ==
  [gated : {TRUE}, mem : {2, 4}, rr : {0, 1},
   gpu : {Two, 1 :> 2 @@ 2 :> 1, 1 :> 1 @@ 2 :> 0}]

\* The cfg gives Planner the two menus together; a behaviour draws from one.
Pendings == MemoryPending \cup PlacedPending
Runnings == MemoryRunning \cup PlacedRunning
Capacity == MemoryCapacities \cup PlacedCapacities

OfMemory ==
  INSTANCE Planner WITH PendingEntries <- MemoryPending, RunningEntries <- MemoryRunning,
                        Capacities <- MemoryCapacities
OfPlaced ==
  INSTANCE Planner WITH PendingEntries <- PlacedPending, RunningEntries <- PlacedRunning,
                        Capacities <- PlacedCapacities

MCInit == OfMemory!Init \/ OfPlaced!Init
MCSpec == MCInit /\ [][Next]_vars
=============================================================================
