---------------------------- MODULE PlannerProofs ----------------------------
(***************************************************************************)
(* Proofs about Planner, for every queue, running set and capacity.        *)
(***************************************************************************)
EXTENDS Planner, CycleProofs

-----------------------------------------------------------------------------
(* Facts about the operators of Scheduling.                                 *)

(* A task some GPU has room for has an option, from whatever index the      *)
(* search starts.                                                           *)
LEMMA SomeOption ==
  ASSUME NEW s \in Pools, NEW task \in PendingEntries, NEW rr \in Nat,
         task.vram > 0, FitsGpu(s, task)
  PROVE  GpuOptions(s, task, rr) # {}
<1>1. PICK g \in KnownGpus : Room(s, task.vram, s.gpu[g])
  BY DEF FitsGpu, Pools
<1>2. PICK i \in 1 .. Len(GpuOrder) : g = GpuOrder[i]
  BY KnownAssumption, GpuOrderAssumption DEF Gpus
<1>3. Len(GpuOrder) \in Nat \ {0} /\ i - 1 \in 0 .. Len(GpuOrder) - 1
  BY <1>2, GpuOrderAssumption
<1>4. PICK k \in 0 .. Len(GpuOrder) - 1 : (rr + k) % Len(GpuOrder) = i - 1
  BY <1>3, EveryIndexIsReached
<1>5. GpuAt(rr, k) = g
  BY <1>2, <1>4 DEF GpuAt, Index
<1>6. k \in GpuOptions(s, task, rr)
  BY <1>1, <1>4, <1>5 DEF GpuOptions, Pools
<1> QED
  BY <1>6

(* Place picks a GPU of the snapshot that is among the given options.       *)
LEMMA PlaceIsAnOption ==
  ASSUME NEW s \in Pools, NEW task \in PendingEntries, NEW rr \in Nat,
         NEW S \in SUBSET GpuOptions(s, task, rr),
         task.vram > 0 => S # {}
  PROVE  /\ Place(task, rr, S).rr \in Nat
         /\ task.vram > 0 =>
              /\ Place(task, rr, S).gpu \in KnownGpus
              /\ Room(s, task.vram, s.gpu[Place(task, rr, S).gpu])
              /\ \E k \in S : Place(task, rr, S).gpu = GpuAt(rr, k)
         /\ ~ (task.vram > 0) => Place(task, rr, S).gpu = None
<1>1. CASE ~ (task.vram > 0)
  BY <1>1 DEF Place
<1>2. CASE task.vram > 0
  <2>1. S \in SUBSET Nat /\ S # {}
    BY <1>2, GpuOrderAssumption DEF GpuOptions
  <2>2. First(S) \in S
    BY <2>1, FirstIsLeast
  <2>3. First(S) \in 0 .. Len(GpuOrder) - 1 /\ Len(GpuOrder) \in Nat \ {0}
    <3>1. Len(GpuOrder) \in Nat
      BY GpuOrderAssumption
    <3>2. First(S) \in GpuOptions(s, task, rr)
      BY <2>2
    <3>3. First(S) \in 0 .. Len(GpuOrder) - 1
      BY <3>2 DEF GpuOptions
    <3> QED
      BY <3>1, <3>3
  <2>4. Index(rr, First(S) + 1) \in Nat
    BY <2>3 DEF Index
  <2>5. GpuAt(rr, First(S)) \in KnownGpus
        /\ Room(s, task.vram, s.gpu[GpuAt(rr, First(S))])
    BY <2>2 DEF GpuOptions, Pools
  <2> QED
    BY <1>2, <2>2, <2>4, <2>5 DEF Place
<1> QED
  BY <1>1, <1>2

(* Taking, giving and projecting keep the shape of pools and amounts.       *)
LEMMA PoolTypes ==
  ASSUME NEW s \in Pools, NEW f \in Amounts,
         NEW u \in [mem : Nat, vram : Nat, gpu : Gpus \cup {None}]
  PROVE  Take(s, u) \in Pools /\ Plus(s, f) \in Pools /\ More(f, u) \in Amounts
  BY DEF Take, Plus, More, Pools, Amounts

(* Less in use and more free never turns a fit into a misfit, for a task    *)
(* that does not need the machine to itself.                                *)
LEMMA FitsMonotone ==
  ASSUME NEW s \in Pools, NEW r \in Pools, NEW task \in PendingEntries,
         ~ task.excl, Fits(s, task),
         s.gated = r.gated, s.mem <= r.mem, r.slots <= s.slots,
         \A g \in KnownGpus : s.gpu[g] <= r.gpu[g]
  PROVE  Fits(r, task)
<1>0. task \in PendingEntryType
  BY PendingAssumption
<1>1. EffectiveMax(s, task) = EffectiveMax(r, task)
  BY DEF EffectiveMax
<1>2. EffectiveMax(s, task) \in Nat
  BY <1>0, MaxWorkersAssumption DEF EffectiveMax, PendingEntryType
<1>3. FitsNonGpu(r, task)
  BY <1>0, <1>1, <1>2, MaxWorkersAssumption
     DEF Fits, FitsNonGpu, Room, Pools, PendingEntryType
<1>4. FitsGpu(r, task)
  BY <1>0 DEF Fits, FitsGpu, Room, Pools, PendingEntryType
<1> QED
  BY <1>3, <1>4 DEF Fits

-----------------------------------------------------------------------------
(* Each step of the planner keeps the type of its state.                    *)

(* An entry's fields have the types of the menu it is taken from.           *)
LEMMA EntryTypes ==
  /\ \A task \in PendingEntries :
       /\ task \in PendingEntryType
       /\ \A g \in Gpus \cup {None} :
            Use(task, g) \in [mem : Nat, vram : Nat, gpu : Gpus \cup {None}]
  /\ \A o \in RunningEntries :
       /\ o \in RunningEntryType
       /\ Use(o, o.gpu) \in [mem : Nat, vram : Nat, gpu : Gpus \cup {None}]
  BY PendingAssumption, RunningAssumption DEF PendingEntryType, RunningEntryType, Use

(* The three bookkeeping helpers keep their types.                          *)
LEMMA BookTypes ==
  ASSUME NEW q \in PlannerStates,
         NEW u \in [mem : Nat, vram : Nat, gpu : Gpus \cup {None}],
         NEW left \in Durations \cup {None}, NEW ident \in STRING \cup {None}
  PROVE  /\ FreedWith(q, u, left) \in [Instants -> Amounts]
         /\ EndsWith(q, left) \in SUBSET Durations
         /\ HeldWith(q, ident) \in SUBSET STRING
<1>1. \A t \in Instants : q.freed[t] \in Amounts
  BY DEF PlannerStates
<1>2. \A t \in Instants : More(q.freed[t], u) \in Amounts
  BY <1>1 DEF More, Amounts
<1>3. FreedWith(q, u, left) \in [Instants -> Amounts]
  BY <1>1, <1>2 DEF FreedWith
<1> QED
  BY <1>3 DEF EndsWith, HeldWith, PlannerStates

(* Visiting a running entry keeps the planner's state well typed            *)
(* (scheduling.py:188-212).                                                 *)
LEMMA OccupyType ==
  ASSUME NEW q \in PlannerStates, NEW o \in RunningEntries
  PROVE  Occupy(q, o) \in PlannerStates
<1>1. /\ FreedWith(q, Use(o, o.gpu), o.left) \in [Instants -> Amounts]
      /\ EndsWith(q, o.left) \in SUBSET Durations
      /\ HeldWith(q, o.ident) \in SUBSET STRING
  BY EntryTypes, BookTypes DEF RunningEntryType
<1> QED
  BY <1>1 DEF Occupy, PlannerStates

(* So does recording a decision on a GPU of the snapshot, or on none        *)
(* (scheduling.py:344-352).                                                 *)
LEMMA AdmittedType ==
  ASSUME NEW q \in PlannerStates, NEW task \in PendingEntries,
         NEW place \in [gpu : KnownGpus \cup {None}, rr : Nat],
         NEW rule \in {"front", "a", "b"}
  PROVE  Admitted(q, task, place, rule) \in PlannerStates
<1>1. Use(task, place.gpu) \in [mem : Nat, vram : Nat, gpu : Gpus \cup {None}]
  BY EntryTypes, KnownAssumption
<1>2. Take(q.live, Use(task, place.gpu)) \in Pools
  BY <1>1 DEF Take, Pools, PlannerStates
<1>3. HeldWith(q, task.ident) \in SUBSET STRING
  BY EntryTypes DEF HeldWith, PlannerStates, PendingEntryType
<1>4. [task |-> task, gpu |-> place.gpu, rule |-> rule] \in DecisionType
  BY DEF DecisionType
<1>5. Append(q.decisions, [task |-> task, gpu |-> place.gpu, rule |-> rule])
        \in Seq(DecisionType)
  BY <1>4 DEF PlannerStates
<1> QED
  BY <1>2, <1>3, <1>5 DEF Admitted, PlannerStates

(* A front-admitted task is placed on a GPU with room for it.               *)
LEMMA FrontPlace ==
  ASSUME NEW q \in PlannerStates, NEW task \in PendingEntries, CanAdmitFront(q, task)
  PROVE  LET place == Place(task, q.rr, GpuOptions(q.live, task, q.rr)) IN
           /\ place \in [gpu : KnownGpus \cup {None}, rr : Nat]
           /\ place.gpu # None => Room(q.live, task.vram, q.live.gpu[place.gpu])
<1> DEFINE S == GpuOptions(q.live, task, q.rr)
           place == Place(task, q.rr, S)
<1>1. q.live \in Pools /\ q.rr \in Nat
  BY DEF PlannerStates
<1>2. task.vram > 0 => S # {}
  BY <1>1, SomeOption DEF CanAdmitFront, Fits
<1>3. /\ place.rr \in Nat
      /\ task.vram > 0 => place.gpu \in KnownGpus /\ Room(q.live, task.vram, q.live.gpu[place.gpu])
      /\ ~ (task.vram > 0) => place.gpu = None
  BY <1>1, <1>2, PlaceIsAnOption
<1>4. place = [gpu |-> place.gpu, rr |-> place.rr]
  BY DEF Place
<1> QED
  BY <1>3, <1>4

(* So does front admission (scheduling.py:227-233, 353-363).                *)
LEMMA AdmitFrontType ==
  ASSUME NEW q \in PlannerStates, NEW task \in PendingEntries, CanAdmitFront(q, task)
  PROVE  AdmitFront(q, task) \in PlannerStates
<1> DEFINE place == Place(task, q.rr, GpuOptions(q.live, task, q.rr))
           u == Use(task, place.gpu)
<1>1. place \in [gpu : KnownGpus \cup {None}, rr : Nat]
  BY FrontPlace
<1>2. Admitted(q, task, place, "front") \in PlannerStates
  BY <1>1, AdmittedType
<1>3. u \in [mem : Nat, vram : Nat, gpu : Gpus \cup {None}]
  BY <1>1, EntryTypes, KnownAssumption
<1>4. task.dur \in Durations \cup {None} /\ task.ident \in STRING \cup {None}
  BY EntryTypes DEF PendingEntryType
<1>5. /\ FreedWith(q, u, task.dur) \in [Instants -> Amounts]
      /\ EndsWith(q, task.dur) \in SUBSET Durations
  BY <1>3, <1>4, BookTypes
<1> HIDE DEF place, u
<1>6. AdmitFront(q, task) =
        [Admitted(q, task, place, "front")
           EXCEPT !.freed = FreedWith(q, u, task.dur),
                  !.ends = EndsWith(q, task.dur),
                  !.phase = IF task.excl THEN "closed" ELSE "front"]
  BY DEF AdmitFront, place, u
<1> QED
  BY <1>2, <1>5, <1>6 DEF PlannerStates

(* The reservation is an instant: a release time, or Never.                 *)
LEMMA ReservationType ==
  ASSUME NEW q \in PlannerStates, NEW head \in PendingEntries
  PROVE  /\ Reservation(q, head) \in Instants
         /\ Reservation(q, head) < Never => Reservation(q, head) \in ReservationTimes(q, head)
<1>1. ReservationTimes(q, head) \in SUBSET Durations
  BY DEF ReservationTimes, PlannerStates
<1>2. Durations \subseteq Nat /\ Durations \subseteq Instants /\ Never \in Instants
  BY NeverAssumption DEF Durations, Instants
<1>3. ReservationTimes(q, head) # {}
        => First(ReservationTimes(q, head)) \in ReservationTimes(q, head)
  BY <1>1, <1>2, FirstIsLeast
<1>4. CASE CanaryBlocked(q, head) \/ ReservationTimes(q, head) = {}
  <2>1. Reservation(q, head) = Never
    BY <1>4 DEF Reservation
  <2> QED
    BY <2>1, <1>2, NeverAssumption
<1>5. CASE ~ (CanaryBlocked(q, head) \/ ReservationTimes(q, head) = {})
  <2>1. Reservation(q, head) = First(ReservationTimes(q, head))
    BY <1>5 DEF Reservation
  <2> QED
    BY <2>1, <1>1, <1>2, <1>3, <1>5
<1> QED
  BY <1>4, <1>5

(* So does blocking a head, exclusive or not (scheduling.py:239-253).       *)
LEMMA BlockType ==
  ASSUME NEW q \in PlannerStates, NEW head \in PendingEntries
  PROVE  Block(q, head) \in PlannerStates /\ Block(q, head).head = head
  BY ReservationType DEF Block, PlannerStates

(* A backfilled task is placed on a GPU with room for it, where it is       *)
(* harmless to the head.                                                    *)
LEMMA BackfillPlace ==
  ASSUME NEW q \in PlannerStates, NEW task \in PendingEntries, CanBackfill(q, task)
  PROVE  LET place == Place(task, q.rr, BackfillOffsets(q, task)) IN
           /\ place \in [gpu : KnownGpus \cup {None}, rr : Nat]
           /\ place.gpu # None => Room(q.live, task.vram, q.live.gpu[place.gpu])
           /\ Harmless(q, task, place.gpu)
<1> DEFINE S == BackfillOffsets(q, task)
           place == Place(task, q.rr, S)
<1>1. q.live \in Pools /\ q.rr \in Nat
  BY DEF PlannerStates
<1>2. S \in SUBSET GpuOptions(q.live, task, q.rr)
  BY DEF BackfillOffsets
<1>3. task.vram > 0 => S # {}
  BY DEF CanBackfill
<1>4. /\ place.rr \in Nat
      /\ task.vram > 0 =>
           /\ place.gpu \in KnownGpus
           /\ Room(q.live, task.vram, q.live.gpu[place.gpu])
           /\ \E k \in S : place.gpu = GpuAt(q.rr, k)
      /\ ~ (task.vram > 0) => place.gpu = None
  BY <1>1, <1>2, <1>3, PlaceIsAnOption
<1>5. place = [gpu |-> place.gpu, rr |-> place.rr]
  BY DEF Place
<1>6. Harmless(q, task, place.gpu)
  <2>1. CASE task.vram > 0
    BY <2>1, <1>4 DEF BackfillOffsets
  <2>2. CASE ~ (task.vram > 0)
    BY <2>2, <1>4 DEF CanBackfill
  <2> QED
    BY <2>1, <2>2
<1> QED
  BY <1>4, <1>5, <1>6

(* So does backfilling around the head (scheduling.py:440-447).             *)
LEMMA AdmitBackfillType ==
  ASSUME NEW q \in PlannerStates, NEW task \in PendingEntries, CanBackfill(q, task)
  PROVE  AdmitBackfill(q, task) \in PlannerStates
<1>1. Place(task, q.rr, BackfillOffsets(q, task)) \in [gpu : KnownGpus \cup {None}, rr : Nat]
  BY BackfillPlace
<1> QED
  BY <1>1, AdmittedType DEF AdmitBackfill


-----------------------------------------------------------------------------
(* Type correctness.                                                        *)

(* The planner is constructed well typed for every input the executor can   *)
(* pass (scheduling.py:180-203).                                            *)
THEOREM InitTypeOK == Init => TypeOK
<1> SUFFICES ASSUME Init PROVE TypeOK
  OBVIOUS
<1>1. running \in Seq(RunningEntries) /\ queue \in Seq(PendingEntries)
  BY MaxQueueAssumption, MaxWorkersAssumption DEF Init, RunningSets
<1>2. PICK cap \in Capacities :
        p = Start([gated |-> cap.gated, mem |-> cap.mem, gpu |-> cap.gpu,
                   rr |-> cap.rr, slots |-> Len(running)])
  BY DEF Init
<1>3. cap \in [gated : BOOLEAN, mem : Int, gpu : [KnownGpus -> Int], rr : Nat]
  BY CapacityAssumption
<1>4. Nothing(KnownGpus) \in Amounts
  BY DEF Nothing, Amounts
<1>5. p \in PlannerStates /\ p.phase = "front"
  <2>1. [gated |-> cap.gated, mem |-> cap.mem, gpu |-> cap.gpu, slots |-> Len(running)] \in Pools
    BY <1>1, <1>3 DEF Pools
  <2>2. DOMAIN cap.gpu = KnownGpus
    BY <1>3
  <2>3. [t \in Instants |-> Nothing(DOMAIN cap.gpu)] \in [Instants -> Amounts]
    BY <1>4, <2>2
  <2>4. Never \in Instants
    BY NeverAssumption DEF Instants
  <2>5. <<>> \in Seq(DecisionType)
    OBVIOUS
  <2> QED
    BY <1>2, <1>3, <2>1, <2>3, <2>4, <2>5 DEF Start, PlannerStates
<1> QED
  BY <1>1, <1>4, <1>5 DEF Init, TypeOK

(* What every visit of a queue entry starts from.                           *)
LEMMA CandidateType ==
  ASSUME TypeOK, Visit
  PROVE  Candidate \in PendingEntries /\ planned' \in 0 .. Len(queue)
  BY DEF TypeOK, Visit, Candidate

(* Every visit of a running or a queue entry keeps the types                *)
(* (scheduling.py:205-254).                                                 *)
THEOREM NextTypeOK == TypeOK /\ [Next]_vars => TypeOK'
<1> SUFFICES ASSUME TypeOK, [Next]_vars PROVE TypeOK'
  OBVIOUS
<1>0. p \in PlannerStates /\ lent \in Amounts
  BY DEF TypeOK
<1>1. CASE Load
  <2>1. running[loaded + 1] \in RunningEntries /\ loaded' \in 0 .. Len(running)
    BY <1>1 DEF TypeOK, Load
  <2>2. p' \in PlannerStates
    BY <1>0, <1>1, <2>1, OccupyType DEF Load
  <2>3. p'.head = p.head /\ (p'.phase = "backfill" => p.phase = "backfill")
    BY <1>0, <1>1 DEF Load, Occupy, PlannerStates
  <2> QED
    BY <1>1, <2>1, <2>2, <2>3 DEF Load, TypeOK
<1>2. CASE Visit /\ FrontAdmit
  <2>1. Candidate \in PendingEntries /\ planned' \in 0 .. Len(queue)
    BY <1>2, CandidateType
  <2>2. p' \in PlannerStates
    BY <1>0, <1>2, <2>1, AdmitFrontType DEF FrontAdmit
  <2>3. p'.phase # "backfill"
    BY <1>0, <1>2 DEF FrontAdmit, AdmitFront, Admitted, PlannerStates
  <2> QED
    BY <1>2, <2>1, <2>2, <2>3 DEF Visit, FrontAdmit, TypeOK
<1>3. CASE Visit /\ BlockHead
  <2>1. Candidate \in PendingEntries /\ planned' \in 0 .. Len(queue)
    BY <1>3, CandidateType
  <2>2. p' \in PlannerStates /\ p'.head = Candidate
    BY <1>0, <1>3, <2>1, BlockType DEF BlockHead
  <2> QED
    BY <1>3, <2>1, <2>2, PendingAssumption DEF Visit, BlockHead, TypeOK
<1>4. CASE Visit /\ Backfill
  <2>1. Candidate \in PendingEntries /\ planned' \in 0 .. Len(queue)
    BY <1>4, CandidateType
  <2>2. p' \in PlannerStates
    BY <1>0, <1>4, <2>1, AdmitBackfillType DEF Backfill
  <2>3. p'.phase = p.phase /\ p'.head = p.head
    BY <1>0, <1>4 DEF Backfill, AdmitBackfill, Admitted, PlannerStates
  <2>4. lent' \in Amounts
    <3>1. Len(p'.decisions) \in Nat \ {0}
      BY <1>0, <1>4 DEF Backfill, AdmitBackfill, Admitted, PlannerStates
    <3>2. p'.decisions[Len(p'.decisions)] \in DecisionType
      BY <2>2, <3>1 DEF PlannerStates
    <3>3. Use(Candidate, p'.decisions[Len(p'.decisions)].gpu)
            \in [mem : Nat, vram : Nat, gpu : Gpus \cup {None}]
      BY <2>1, <3>2, EntryTypes, KnownAssumption DEF DecisionType
    <3> QED
      BY <1>0, <1>4, <3>3 DEF Backfill, More, Amounts
  <2> QED
    BY <1>4, <2>1, <2>2, <2>3, <2>4 DEF Visit, TypeOK
<1>5. CASE Visit /\ PassOver
  BY <1>5, CandidateType DEF Visit, PassOver, TypeOK
<1>6. CASE Visit /\ Ignore
  BY <1>6, CandidateType DEF Visit, Ignore, TypeOK
<1>7. CASE UNCHANGED vars
  BY <1>7 DEF vars, TypeOK
<1> QED
  BY <1>1, <1>2, <1>3, <1>4, <1>5, <1>6, <1>7 DEF Next, Plan

(* The planner's state keeps its type in every run, for every input.        *)
THEOREM TypeCorrect == Spec => []TypeOK
  BY InitTypeOK, NextTypeOK, PTL DEF Spec

-----------------------------------------------------------------------------
(* No backfill delays the head.                                             *)

(* What an admission by backfill changes, and what it leaves alone.         *)
LEMMA BackfillEffect ==
  ASSUME NEW q \in PlannerStates, NEW task \in PendingEntries, CanBackfill(q, task)
  PROVE  LET r == AdmitBackfill(q, task)
             g == Place(task, q.rr, BackfillOffsets(q, task)).gpu
             d == [task |-> task, gpu |-> g,
                   rule |-> IF Short(q, task) THEN "b" ELSE "a"]
         IN /\ r.live = Take(q.live, Use(task, g))
            /\ r.held = HeldWith(q, task.ident)
            /\ r.decisions = Append(q.decisions, d)
            /\ r.decisions[Len(r.decisions)] = d
            /\ r.freed = q.freed /\ r.ends = q.ends /\ r.phase = q.phase
            /\ r.head = q.head /\ r.reservation = q.reservation
            /\ g \in KnownGpus \cup {None}
            /\ g # None => Room(q.live, task.vram, q.live.gpu[g])
            /\ Harmless(q, task, g)
<1> DEFINE place == Place(task, q.rr, BackfillOffsets(q, task))
           rule == IF Short(q, task) THEN "b" ELSE "a"
<1>1. /\ place.gpu \in KnownGpus \cup {None}
      /\ place.gpu # None => Room(q.live, task.vram, q.live.gpu[place.gpu])
      /\ Harmless(q, task, place.gpu)
  BY BackfillPlace
<1> HIDE DEF place, rule
<1>2. AdmitBackfill(q, task) = Admitted(q, task, place, rule)
  BY DEF AdmitBackfill, place, rule
<1>3. q.decisions \in Seq(DecisionType)
  BY DEF PlannerStates
<1> QED
  BY <1>1, <1>2, <1>3 DEF Admitted, PlannerStates, place, rule

(* The amount rule (b) lent is never negative.                              *)
LentPositive ==
  lent.mem >= 0 /\ lent.slots >= 0 /\ \A g \in KnownGpus : lent.gpu[g] >= 0

(* Backfill starts only behind a head that does not need the machine alone, *)
(* and front admission is over by then.                                     *)
HeadIsOrdinary == p.phase = "backfill" => ~ p.head.excl
FrontOnly == p.phase = "front" => \A i \in DOMAIN p.decisions : p.decisions[i].rule = "front"

(* No queue entry is visited before every running entry is loaded.          *)
LoadFirst ==
  loaded < Len(running) => p.decisions = <<>> /\ p.phase # "backfill"

ReservationInv ==
  TypeOK /\ LoadFirst /\ LentPositive /\ HeadIsOrdinary /\ FrontOnly /\ HeadKeepsReservation

(* With no head there is no reservation to keep (scheduling.py:180-203).    *)
THEOREM InitReservationInv == Init => ReservationInv
<1> SUFFICES ASSUME Init PROVE ReservationInv
  OBVIOUS
<1>1. TypeOK
  BY InitTypeOK
<1>2. p.phase = "front" /\ p.decisions = <<>> /\ lent = Nothing(KnownGpus)
  BY DEF Init, Start
<1> QED
  BY <1>1, <1>2 DEF ReservationInv, LoadFirst, LentPositive, Nothing, HeadIsOrdinary, FrontOnly,
                    HeadKeepsReservation

(* The step that matters: a backfill admission keeps the head's fit.        *)
LEMMA BackfillKeepsHead ==
  ASSUME ReservationInv, Visit, Backfill
  PROVE  LentPositive' /\ HeadKeepsReservation'
<1> DEFINE g == Place(Candidate, p.rr, BackfillOffsets(p, Candidate)).gpu
           u == Use(Candidate, g)
           now == StateAt(p, p.reservation)
           then == StateAt(p', p'.reservation)
<1>1. p \in PlannerStates /\ Candidate \in PendingEntries /\ CanBackfill(p, Candidate)
      /\ p' = AdmitBackfill(p, Candidate) /\ lent \in Amounts
  BY CandidateType DEF ReservationInv, TypeOK, Backfill
<1>2. /\ p'.live = Take(p.live, u)
      /\ p'.freed = p.freed /\ p'.phase = p.phase
      /\ p'.head = p.head /\ p'.reservation = p.reservation
      /\ p'.decisions[Len(p'.decisions)].gpu = g
      /\ g \in KnownGpus \cup {None}
      /\ Harmless(p, Candidate, g)
  <2> DEFINE q == AdmitBackfill(p, Candidate)
  <2>1. /\ q.live = Take(p.live, Use(Candidate, g))
        /\ q.decisions[Len(q.decisions)] =
             [task |-> Candidate, gpu |-> g, rule |-> IF Short(p, Candidate) THEN "b" ELSE "a"]
        /\ q.freed = p.freed /\ q.phase = p.phase
        /\ q.head = p.head /\ q.reservation = p.reservation
        /\ g \in KnownGpus \cup {None}
        /\ Harmless(p, Candidate, g)
    BY <1>1, BackfillEffect
  <2> HIDE DEF g, q
  <2>2. q.decisions[Len(q.decisions)].gpu = g
    BY <2>1
  <2> QED
    BY <1>1, <2>1, <2>2 DEF q
<1>3. u \in [mem : Nat, vram : Nat, gpu : Gpus \cup {None}]
  BY <1>1, <1>2, EntryTypes, KnownAssumption
<1>4. p.head \in PendingEntries /\ ~ p.head.excl /\ p.phase = "backfill"
  BY <1>1 DEF ReservationInv, TypeOK, HeadIsOrdinary, Backfill, PlannerStates
<1>5. p.live \in Pools /\ p.freed[p.reservation] \in Amounts
  BY <1>1 DEF PlannerStates
<1>6. now \in Pools /\ Take(now, u) \in Pools /\ then = Take(now, u)
  <2>1. now \in Pools
    BY <1>5 DEF StateAt, Plus, Pools, Amounts
  <2>2. Take(now, u) \in Pools
    BY <2>1, <1>3 DEF Take, Pools
  <2>3. then = Plus(Take(p.live, u), p.freed[p.reservation])
    BY <1>2 DEF StateAt
  <2>4. Plus(Take(p.live, u), p.freed[p.reservation]) = Take(now, u)
    <3> DEFINE f == p.freed[p.reservation]
               a == Plus(Take(p.live, u), f)
               b == Take(Plus(p.live, f), u)
    <3> HIDE DEF f, u
    <3>1. f \in Amounts /\ p.live \in Pools
      BY <1>5 DEF f
    <3>2. a.gated = b.gated /\ a.mem = b.mem /\ a.slots = b.slots
      BY <1>3, <3>1 DEF Plus, Take, Pools, Amounts
    <3>3. /\ DOMAIN a.gpu = KnownGpus /\ DOMAIN b.gpu = KnownGpus
          /\ \A h \in KnownGpus : a.gpu[h] = b.gpu[h]
      BY <1>3, <3>1 DEF Plus, Take, Pools, Amounts
    <3>4. /\ a.gpu = [h \in DOMAIN a.gpu |-> a.gpu[h]]
          /\ b.gpu = [h \in DOMAIN b.gpu |-> b.gpu[h]]
      BY DEF Plus, Take
    <3>5. a.gpu = b.gpu
      BY <3>3, <3>4
    <3>6. a = b
      BY <3>2, <3>5 DEF Plus, Take
    <3> QED
      BY <3>6 DEF StateAt, f
  <2> QED
    BY <2>1, <2>2, <2>3, <2>4
<1> HIDE DEF now, then, u, g
<1>7. CASE Short(p, Candidate)
  <2>1. lent' = More(lent, u)
    BY <1>2, <1>7 DEF Backfill, u
  <2>2. lent' \in Amounts /\ LentPositive'
    BY <1>1, <1>3, <2>1 DEF More, Amounts, ReservationInv, LentPositive
  <2>3. Fits(Plus(now, lent), p.head)
    BY <1>4, <1>7 DEF Short, ReservationInv, HeadKeepsReservation, now
  <2>4. Plus(now, lent) \in Pools /\ Plus(then, lent') \in Pools
    BY <1>1, <1>6, <2>2 DEF Plus, Pools, Amounts
  <2>5. /\ Plus(now, lent).gated = Plus(then, lent').gated
        /\ Plus(now, lent).mem = Plus(then, lent').mem
        /\ Plus(now, lent).slots = Plus(then, lent').slots
        /\ \A h \in KnownGpus : Plus(now, lent).gpu[h] = Plus(then, lent').gpu[h]
    BY <1>1, <1>3, <1>6, <2>1 DEF Plus, More, Take, Pools, Amounts
  <2>6. Fits(Plus(then, lent'), p.head)
    <3>1. /\ Plus(now, lent).mem <= Plus(then, lent').mem
          /\ Plus(then, lent').slots <= Plus(now, lent).slots
          /\ \A h \in KnownGpus : Plus(now, lent).gpu[h] <= Plus(then, lent').gpu[h]
      BY <2>4, <2>5 DEF Pools
    <3> QED
      BY <1>4, <2>3, <2>4, <2>5, <3>1, FitsMonotone
  <2> QED
    BY <1>2, <2>2, <2>6 DEF HeadKeepsReservation, then
<1>8. CASE ~ Short(p, Candidate)
  <2>1. lent' = lent /\ LentPositive'
    BY <1>8 DEF Backfill, ReservationInv, LentPositive
  <2>2. Fits(then, p.head)
    BY <1>2, <1>6, <1>8 DEF Harmless, HeadStillFitsWithHold, now, u
  <2>3. Plus(then, lent) \in Pools
    BY <1>1, <1>6 DEF Plus, Pools, Amounts
  <2>4. /\ then.gated = Plus(then, lent).gated
        /\ then.mem <= Plus(then, lent).mem
        /\ Plus(then, lent).slots <= then.slots
        /\ \A h \in KnownGpus : then.gpu[h] <= Plus(then, lent).gpu[h]
    BY <1>1, <1>6 DEF Plus, Pools, Amounts, ReservationInv, LentPositive
  <2>5. Fits(Plus(then, lent), p.head)
    BY <1>4, <1>6, <2>2, <2>3, <2>4, FitsMonotone
  <2> QED
    BY <1>2, <2>1, <2>5 DEF HeadKeepsReservation, then
<1> QED
  BY <1>7, <1>8

(* Front admission leaves a front-only plan.                                *)
LEMMA FrontEffect ==
  ASSUME NEW q \in PlannerStates, NEW task \in PendingEntries, CanAdmitFront(q, task)
  PROVE  LET r == AdmitFront(q, task)
             g == Place(task, q.rr, GpuOptions(q.live, task, q.rr)).gpu
             d == [task |-> task, gpu |-> g, rule |-> "front"]
         IN /\ r.live = Take(q.live, Use(task, g))
            /\ r.held = HeldWith(q, task.ident)
            /\ r.decisions = Append(q.decisions, d)
            /\ r.freed = FreedWith(q, Use(task, g), task.dur)
            /\ r.ends = EndsWith(q, task.dur)
            /\ r.phase = (IF task.excl THEN "closed" ELSE "front")
            /\ g \in KnownGpus \cup {None}
            /\ g # None => Room(q.live, task.vram, q.live.gpu[g])
<1> DEFINE place == Place(task, q.rr, GpuOptions(q.live, task, q.rr))
<1>1. /\ place.gpu \in KnownGpus \cup {None}
      /\ place.gpu # None => Room(q.live, task.vram, q.live.gpu[place.gpu])
  BY FrontPlace
<1> HIDE DEF place
<1>2. AdmitFront(q, task) =
        [Admitted(q, task, place, "front")
           EXCEPT !.freed = FreedWith(q, Use(task, place.gpu), task.dur),
                  !.ends = EndsWith(q, task.dur),
                  !.phase = IF task.excl THEN "closed" ELSE "front"]
  BY DEF AdmitFront, place
<1> QED
  BY <1>1, <1>2 DEF Admitted, PlannerStates, place

(* Every visit keeps the strengthened form of the head's reservation; only  *)
(* a backfill could break it (scheduling.py:205-254).                       *)
THEOREM NextReservationInv == ReservationInv /\ [Next]_vars => ReservationInv'
<1> SUFFICES ASSUME ReservationInv, [Next]_vars PROVE ReservationInv'
  OBVIOUS
<1>0. TypeOK /\ TypeOK' /\ p \in PlannerStates
  BY NextTypeOK DEF ReservationInv, TypeOK
<1>1. CASE Load
  <2>1. p.decisions = <<>> /\ p.phase # "backfill"
    BY <1>0, <1>1 DEF Load, ReservationInv, LoadFirst, TypeOK
  <2>2. p'.decisions = <<>> /\ p'.phase # "backfill"
    BY <1>0, <1>1, <2>1 DEF Load, Occupy, PlannerStates
  <2> QED
    BY <1>0, <1>1, <2>2 DEF Load, ReservationInv, LoadFirst, LentPositive, HeadIsOrdinary,
                            FrontOnly, HeadKeepsReservation
<1>2. CASE Visit /\ FrontAdmit
  <2>1. Candidate \in PendingEntries /\ CanAdmitFront(p, Candidate) /\ p' = AdmitFront(p, Candidate)
    BY <1>0, <1>2, CandidateType DEF FrontAdmit
  <2> DEFINE d == [task |-> Candidate, rule |-> "front",
                   gpu |-> Place(Candidate, p.rr, GpuOptions(p.live, Candidate, p.rr)).gpu]
  <2>2. p'.decisions = Append(p.decisions, d) /\ p'.phase \in {"front", "closed"}
    BY <1>0, <2>1, FrontEffect
  <2>3. d.rule = "front"
    OBVIOUS
  <2> HIDE DEF d
  <2>4. \A i \in DOMAIN p.decisions : p.decisions[i].rule = "front"
    BY <1>2 DEF FrontAdmit, ReservationInv, FrontOnly
  <2>5. FrontOnly'
    BY <1>0, <2>2, <2>3, <2>4 DEF FrontOnly, PlannerStates
  <2> QED
    BY <1>0, <1>2, <2>2, <2>5
       DEF Visit, FrontAdmit, ReservationInv, LoadFirst, LentPositive, HeadIsOrdinary,
           HeadKeepsReservation
<1>3. CASE Visit /\ BlockHead
  <2>1. Candidate \in PendingEntries /\ p' = Block(p, Candidate) /\ lent' = lent
    BY <1>0, <1>3, CandidateType DEF BlockHead
  <2>2. p'.live = p.live /\ p'.freed = p.freed /\ p'.decisions = p.decisions
        /\ p'.head = Candidate /\ p'.phase \in {"backfill", "closed"}
    BY <1>0, <2>1 DEF Block, PlannerStates
  <2>3. \A i \in DOMAIN p.decisions : p.decisions[i].rule = "front"
    BY <1>3 DEF BlockHead, ReservationInv, FrontOnly
  <2>4. p'.phase = "backfill" => ~ Candidate.excl /\ p'.reservation = Reservation(p, Candidate)
    BY <1>0, <2>1 DEF Block, PlannerStates
  <2>5. ASSUME p'.phase = "backfill", p'.reservation < Never
        PROVE  Fits(Plus(StateAt(p', p'.reservation), lent'), p'.head)
    <3> DEFINE t == p'.reservation
               s == StateAt(p, t)
    <3>1. t \in Instants /\ t \in ReservationTimes(p, Candidate)
      BY <1>0, <2>1, <2>4, <2>5, ReservationType
    <3>2. Fits(s, Candidate) /\ ~ Candidate.excl
      BY <2>4, <2>5, <3>1 DEF ReservationTimes
    <3> HIDE DEF t
    <3>3. s \in Pools /\ Plus(s, lent) \in Pools
      <4>1. p.live \in Pools /\ p.freed[t] \in Amounts /\ lent \in Amounts
        BY <1>0, <3>1 DEF PlannerStates, TypeOK
      <4>2. s \in Pools
        BY <4>1 DEF StateAt, Plus, Pools, Amounts
      <4> HIDE DEF s
      <4> QED
        BY <4>1, <4>2 DEF Plus, Pools, Amounts
    <3> HIDE DEF s
    <3>4. /\ s.gated = Plus(s, lent).gated /\ s.mem <= Plus(s, lent).mem
          /\ Plus(s, lent).slots <= s.slots
          /\ \A g \in KnownGpus : s.gpu[g] <= Plus(s, lent).gpu[g]
      <4>1. lent \in Amounts /\ lent.mem >= 0 /\ lent.slots >= 0
            /\ \A g \in KnownGpus : lent.gpu[g] >= 0
        BY <1>0 DEF TypeOK, ReservationInv, LentPositive
      <4> QED
        BY <3>3, <4>1 DEF Plus, Pools, Amounts
    <3>5. Fits(Plus(s, lent), Candidate)
      BY <2>1, <3>2, <3>3, <3>4, FitsMonotone
    <3> QED
      BY <2>1, <2>2, <3>5 DEF s, t, StateAt
  <2>6. ~ Backfilled'
    BY <2>2, <2>3 DEF Backfilled, Decisions
  <2> QED
    BY <1>0, <1>3, <2>1, <2>2, <2>3, <2>4, <2>5, <2>6
       DEF Visit, ReservationInv, LoadFirst, LentPositive, HeadIsOrdinary, FrontOnly,
           HeadKeepsReservation
<1>4. CASE Visit /\ Backfill
  <2>1. LentPositive' /\ HeadKeepsReservation'
    BY <1>4, BackfillKeepsHead
  <2>2. p'.phase = p.phase /\ p'.head = p.head
    BY <1>0, <1>4 DEF Backfill, AdmitBackfill, Admitted, PlannerStates
  <2> QED
    BY <1>0, <1>4, <2>1, <2>2 DEF Visit, Backfill, ReservationInv, LoadFirst, HeadIsOrdinary,
       FrontOnly
<1>5. CASE UNCHANGED <<p, lent>> /\ (Visit \/ UNCHANGED vars)
  <2>1. p' = p /\ lent' = lent /\ running' = running /\ loaded' = loaded
    BY <1>5 DEF Visit, vars
  <2> QED
    BY <1>0, <2>1 DEF ReservationInv, LoadFirst, LentPositive, HeadIsOrdinary, FrontOnly,
                      HeadKeepsReservation, Backfilled, Decisions, StateAt
<1> QED
  BY <1>1, <1>2, <1>3, <1>4, <1>5 DEF Next, Plan, PassOver, Ignore, vars

(* For every queue, running set and capacity: the head keeps its fit at its *)
(* reservation through every backfill admission (scheduling.py:449-502).    *)
THEOREM NoBackfillDelaysHead == Spec => []HeadKeepsReservation
<1>1. ReservationInv => HeadKeepsReservation
  BY DEF ReservationInv
<1> QED
  BY InitReservationInv, NextReservationInv, <1>1, PTL DEF Spec

-----------------------------------------------------------------------------
(* The canary and the limits of a plan.                                     *)

(* The step dispatches decision d: the canary and the pools let its task    *)
(* in, and the pools, the held identities and the plan record it.           *)
Grants(d) ==
  /\ loaded = Len(running)
  /\ UNCHANGED <<running, queue, loaded>>
  /\ d \in DecisionType
  /\ ~ CanaryBlocked(p, d.task)
  /\ FitsNonGpu(p.live, d.task)
  /\ d.gpu # None => Room(p.live, d.task.vram, p.live.gpu[d.gpu])
  /\ p'.live = Take(p.live, Use(d.task, d.gpu))
  /\ p'.held = HeldWith(p, d.task.ident)
  /\ p'.decisions = Append(p.decisions, d)

(* A step loads a running entry, grants one decision, or grants nothing.    *)
LEMMA StepKinds ==
  ASSUME TypeOK, [Next]_vars
  PROVE  \/ Load
         \/ \E d \in DecisionType : Grants(d)
         \/ /\ UNCHANGED <<running, queue, loaded>>
            /\ p'.live = p.live /\ p'.held = p.held /\ p'.decisions = p.decisions
<1>0. p \in PlannerStates
  BY DEF TypeOK
<1>1. CASE Visit /\ FrontAdmit
  <2>1. Candidate \in PendingEntries /\ CanAdmitFront(p, Candidate) /\ p' = AdmitFront(p, Candidate)
    BY <1>1, CandidateType DEF FrontAdmit
  <2> DEFINE g == Place(Candidate, p.rr, GpuOptions(p.live, Candidate, p.rr)).gpu
             d == [task |-> Candidate, gpu |-> g, rule |-> "front"]
  <2>2. /\ p'.live = Take(p.live, Use(Candidate, g))
        /\ p'.held = HeldWith(p, Candidate.ident)
        /\ p'.decisions = Append(p.decisions, d)
        /\ g \in KnownGpus \cup {None}
        /\ g # None => Room(p.live, Candidate.vram, p.live.gpu[g])
    BY <1>0, <2>1, FrontEffect
  <2> HIDE DEF g
  <2>3. d \in DecisionType /\ d.task = Candidate /\ d.gpu = g
    BY <2>1, <2>2 DEF DecisionType
  <2>4. Grants(d)
    BY <1>1, <2>1, <2>2, <2>3 DEF Grants, Visit, CanAdmitFront, Fits
  <2> QED
    BY <2>3, <2>4
<1>2. CASE Visit /\ Backfill
  <2>1. Candidate \in PendingEntries /\ CanBackfill(p, Candidate) /\ p' = AdmitBackfill(p, Candidate)
    BY <1>2, CandidateType DEF Backfill
  <2> DEFINE g == Place(Candidate, p.rr, BackfillOffsets(p, Candidate)).gpu
             d == [task |-> Candidate, gpu |-> g,
                   rule |-> IF Short(p, Candidate) THEN "b" ELSE "a"]
  <2>2. /\ p'.live = Take(p.live, Use(Candidate, g))
        /\ p'.held = HeldWith(p, Candidate.ident)
        /\ p'.decisions = Append(p.decisions, d)
        /\ g \in KnownGpus \cup {None}
        /\ g # None => Room(p.live, Candidate.vram, p.live.gpu[g])
    BY <1>0, <2>1, BackfillEffect
  <2> HIDE DEF g
  <2>3. d \in DecisionType /\ d.task = Candidate /\ d.gpu = g
    BY <2>1, <2>2 DEF DecisionType
  <2>4. Grants(d)
    BY <1>2, <2>1, <2>2, <2>3 DEF Grants, Visit, CanBackfill
  <2> QED
    BY <2>3, <2>4
<1>3. CASE Visit /\ BlockHead
  <2>1. p'.live = p.live /\ p'.held = p.held /\ p'.decisions = p.decisions
    BY <1>0, <1>3 DEF BlockHead, Block, PlannerStates
  <2> QED
    BY <1>3, <2>1 DEF Visit
<1>4. CASE Visit /\ UNCHANGED <<p, lent>>
  BY <1>4 DEF Visit
<1>5. CASE UNCHANGED vars
  BY <1>5 DEF vars
<1> QED
  BY <1>1, <1>2, <1>3, <1>4, <1>5 DEF Next, Plan, PassOver, Ignore

(* Every identity of a loaded running entry or of a planned task is held.   *)
IdentitiesHeld ==
  /\ \A j \in 1 .. loaded : running[j].ident # None => running[j].ident \in p.held
  /\ \A i \in DOMAIN p.decisions :
       p.decisions[i].task.ident # None => p.decisions[i].task.ident \in p.held

CanaryInv == TypeOK /\ LoadFirst /\ IdentitiesHeld /\ OneColdPerIdentity

(* With no decision yet no cold task has company (scheduling.py:198-203).   *)
THEOREM InitCanaryInv == Init => CanaryInv
<1> SUFFICES ASSUME Init PROVE CanaryInv
  OBVIOUS
<1>1. p.decisions = <<>> /\ loaded = 0 /\ p.phase = "front"
  BY DEF Init, Start
<1> QED
  BY <1>1, InitTypeOK DEF CanaryInv, LoadFirst, IdentitiesHeld, OneColdPerIdentity

(* Every visit keeps the held identities complete, so that the next cold    *)
(* task meets them (scheduling.py:261-269, 351-352).                        *)
THEOREM NextCanaryInv == CanaryInv /\ ReservationInv /\ [Next]_vars => CanaryInv'
<1> SUFFICES ASSUME CanaryInv, ReservationInv, [Next]_vars PROVE CanaryInv'
  OBVIOUS
<1>0. TypeOK /\ TypeOK' /\ p \in PlannerStates /\ LoadFirst'
  BY NextTypeOK, NextReservationInv DEF CanaryInv, TypeOK, ReservationInv
<1>1. CASE Load
  <2> DEFINE o == running[loaded + 1]
  <2>1. loaded \in Nat /\ loaded' = loaded + 1 /\ running' = running
    BY <1>0, <1>1 DEF TypeOK, Load
  <2>2. p'.held = HeldWith(p, o.ident) /\ p'.decisions = p.decisions /\ p.decisions = <<>>
    BY <1>0, <1>1 DEF Load, Occupy, PlannerStates, CanaryInv, LoadFirst
  <2> HIDE DEF o
  <2>3. ASSUME NEW j \in 1 .. loaded', running[j].ident # None
        PROVE  running[j].ident \in p'.held
    <3>1. CASE j \in 1 .. loaded
      BY <2>2, <2>3, <3>1 DEF CanaryInv, IdentitiesHeld, HeldWith
    <3>2. CASE j = loaded + 1
      BY <2>2, <2>3, <3>2 DEF HeldWith, o
    <3> QED
      BY <2>1, <3>1, <3>2
  <2> QED
    BY <1>0, <2>1, <2>2, <2>3 DEF CanaryInv, IdentitiesHeld, OneColdPerIdentity
<1>2. ASSUME NEW d \in DecisionType, Grants(d) PROVE CanaryInv'
  <2>1. p.decisions \in Seq(DecisionType) /\ p'.decisions = Append(p.decisions, d)
    BY <1>0, <1>2 DEF Grants, PlannerStates
  <2>2. running' = running /\ loaded' = loaded /\ loaded = Len(running)
    BY <1>2 DEF Grants
  <2>3. p.held \subseteq p'.held /\ (d.task.ident # None => d.task.ident \in p'.held)
    BY <1>2 DEF Grants, HeldWith
  <2>4. IdentitiesHeld'
    BY <2>1, <2>2, <2>3 DEF CanaryInv, IdentitiesHeld
  <2>5. ASSUME d.task.cold, d.task.ident # None
        PROVE  /\ \A j \in DOMAIN running : running[j].ident # d.task.ident
               /\ \A j \in DOMAIN p.decisions : p.decisions[j].task.ident # d.task.ident
    <3>1. d.task.ident \notin p.held
      BY <1>2, <2>5 DEF Grants, CanaryBlocked
    <3>2. DOMAIN running = 1 .. loaded
      BY <1>0, <2>2 DEF TypeOK
    <3> QED
      BY <2>5, <3>1, <3>2 DEF CanaryInv, IdentitiesHeld
  <2>6. OneColdPerIdentity'
    BY <2>1, <2>2, <2>5 DEF CanaryInv, OneColdPerIdentity
  <2> QED
    BY <1>0, <2>4, <2>6 DEF CanaryInv
<1>3. CASE /\ UNCHANGED <<running, queue, loaded>>
           /\ p'.live = p.live /\ p'.held = p.held /\ p'.decisions = p.decisions
  BY <1>0, <1>3 DEF CanaryInv, IdentitiesHeld, OneColdPerIdentity
<1> QED
  BY <1>0, <1>1, <1>2, <1>3, StepKinds

(* For every input, at most one first-contact task of an identity is        *)
(* admitted, and only when nothing of that identity is running              *)
(* (scheduling.py:261-269, 351-352).                                        *)
THEOREM CanaryHolds == Spec => []OneColdPerIdentity
<1>1. CanaryInv => OneColdPerIdentity
  BY DEF CanaryInv
<1> QED
  BY InitCanaryInv, NextCanaryInv, InitReservationInv, NextReservationInv, <1>1, PTL DEF Spec

(* The slots in use count the in-flight and the planned tasks.              *)
SlotsCounted == p.live.slots = Len(running) + Len(p.decisions) /\ Len(running) <= MaxWorkers

CapacityInv == TypeOK /\ SlotsCounted /\ WithinCapacity

(* Before the first decision only the in-flight tasks use slots             *)
(* (scheduling.py:191-196).                                                 *)
THEOREM InitCapacityInv == Init => CapacityInv
<1> SUFFICES ASSUME Init PROVE CapacityInv
  OBVIOUS
<1>1. PICK cap \in Capacities :
        p = Start([gated |-> cap.gated, mem |-> cap.mem, gpu |-> cap.gpu,
                   rr |-> cap.rr, slots |-> Len(running)])
  BY DEF Init
<1>2. p.live.slots = Len(running) /\ p.decisions = <<>>
  BY <1>1 DEF Start
<1>3. Len(running) \in 0 .. MaxWorkers
  BY MaxWorkersAssumption DEF Init, RunningSets
<1> QED
  BY <1>2, <1>3, InitTypeOK, MaxWorkersAssumption DEF CapacityInv, SlotsCounted, WithinCapacity

(* Every visit keeps the count of the slots and leaves memory and VRAM      *)
(* positive (scheduling.py:299-324, 345-348).                               *)
THEOREM NextCapacityInv == CapacityInv /\ LoadFirst /\ [Next]_vars => CapacityInv'
<1> SUFFICES ASSUME CapacityInv, LoadFirst, [Next]_vars PROVE CapacityInv'
  OBVIOUS
<1>0. TypeOK /\ TypeOK' /\ p \in PlannerStates
  BY NextTypeOK DEF CapacityInv, TypeOK
<1>1. CASE Load
  <2>1. p'.live = p.live /\ p'.decisions = p.decisions /\ running' = running
    BY <1>0, <1>1 DEF Load, Occupy, PlannerStates
  <2> QED
    BY <1>0, <2>1 DEF CapacityInv, SlotsCounted, WithinCapacity, Decisions
<1>2. ASSUME NEW d \in DecisionType, Grants(d) PROVE CapacityInv'
  <2>1. /\ p.decisions \in Seq(DecisionType) /\ p'.decisions = Append(p.decisions, d)
        /\ p.live \in Pools /\ running' = running
        /\ p'.live = Take(p.live, Use(d.task, d.gpu))
    BY <1>0, <1>2 DEF Grants, PlannerStates
  <2>2. d.task \in PendingEntryType /\ d.gpu \in KnownGpus \cup {None}
    BY EntryTypes DEF DecisionType
  <2>3. /\ p'.live.slots = p.live.slots + 1 /\ p'.live.gated = p.live.gated
        /\ p'.live.mem = p.live.mem - d.task.mem
        /\ \A g \in KnownGpus :
             p'.live.gpu[g] = IF g = d.gpu THEN p.live.gpu[g] - d.task.vram ELSE p.live.gpu[g]
    BY <2>1, <2>2 DEF Take, Use, Pools
  <2>4. Len(p'.decisions) = Len(p.decisions) + 1
    BY <2>1
  <2>5. p.live.slots < MaxWorkers /\ (p.live.gated => d.task.mem < p.live.mem)
    BY <1>2 DEF Grants, FitsNonGpu, Room
  <2>6. SlotsCounted'
    BY <1>0, <2>1, <2>3, <2>4 DEF CapacityInv, SlotsCounted, TypeOK
  <2>7. Len(running) + Len(p'.decisions) <= MaxWorkers
    BY <1>0, <2>1, <2>3, <2>4, <2>5, MaxWorkersAssumption
       DEF CapacityInv, SlotsCounted, Pools, TypeOK
  <2>8. p.live.gated => p'.live.mem > 0
    BY <2>1, <2>2, <2>3, <2>5 DEF Pools, PendingEntryType
  <2>9. ASSUME p.live.gated, NEW i \in DOMAIN p'.decisions, p'.decisions[i].gpu # None
        PROVE  p'.live.gpu[p'.decisions[i].gpu] > 0
    <3> DEFINE e == p'.decisions[i]
    <3>1. e \in DecisionType /\ e.gpu \in KnownGpus
      <4>1. p'.decisions \in Seq(DecisionType)
        BY <2>1
      <4>2. e \in DecisionType
        BY <4>1, <2>9
      <4> QED
        BY <4>2, <2>9 DEF DecisionType
    <3>2. CASE e.gpu = d.gpu
      <4>1. d.task.vram < p.live.gpu[d.gpu] /\ p.live.gpu[d.gpu] \in Int /\ d.task.vram \in Nat
        BY <1>2, <2>1, <2>2, <2>9, <3>1, <3>2 DEF Grants, Room, Pools, PendingEntryType
      <4> QED
        BY <2>3, <3>1, <3>2, <4>1
    <3>3. CASE e.gpu # d.gpu
      <4>1. i \in DOMAIN p.decisions /\ e = p.decisions[i]
        BY <2>1, <3>3
      <4>2. p.live.gpu[e.gpu] > 0
        BY <2>9, <4>1 DEF CapacityInv, WithinCapacity, Decisions
      <4> QED
        BY <2>3, <3>1, <3>3, <4>2
    <3> QED
      BY <3>2, <3>3
  <2>10. WithinCapacity'
    BY <2>1, <2>3, <2>7, <2>8, <2>9 DEF WithinCapacity, Decisions
  <2> QED
    BY <1>0, <2>6, <2>10 DEF CapacityInv
<1>3. CASE /\ UNCHANGED <<running, queue, loaded>>
           /\ p'.live = p.live /\ p'.held = p.held /\ p'.decisions = p.decisions
  BY <1>0, <1>3 DEF CapacityInv, SlotsCounted, WithinCapacity, Decisions
<1> QED
  BY <1>0, <1>1, <1>2, <1>3, StepKinds

(* For every input, a plan stays within the pool, the free memory and the   *)
(* free VRAM of the GPUs it uses (scheduling.py:299-324).                   *)
THEOREM PlanWithinCapacity == Spec => []WithinCapacity
<1>1. CapacityInv => WithinCapacity
  BY DEF CapacityInv
<1>2. ReservationInv => LoadFirst
  BY DEF ReservationInv
<1> QED
  BY InitCapacityInv, NextCapacityInv, InitReservationInv, NextReservationInv, <1>1, <1>2, PTL
     DEF Spec

-----------------------------------------------------------------------------
(* How the occupants drain: an infinite reservation admits nothing, and     *)
(* exclusive tasks run alone.                                               *)

(* freed is a step function of time: nothing before the first release, and  *)
(* constant between two releases.                                           *)
ReleaseSteps ==
  /\ \A t \in Instants : (\A e \in p.ends : t < e) => p.freed[t] = Nothing(KnownGpus)
  /\ \A t, u \in Instants :
       t <= u /\ (\A e \in p.ends : e <= t \/ u < e) => p.freed[t] = p.freed[u]

(* With nothing running and nothing planned there is nothing to wait for.   *)
IdleMachine ==
  running = <<>> /\ p.decisions = <<>> =>
    p.ends = {} /\ p.held = {} /\ (p.phase = "backfill" => p.reservation = Never)

(* A head with an infinite reservation that the canary does not explain     *)
(* will not fit even when every finite occupant has ended.                  *)
StuckHead ==
  p.phase = "backfill" /\ p.reservation = Never /\ ~ CanaryBlocked(p, p.head) =>
    ~ Fits(StateAt(p, Never), p.head) /\ ~ Backfilled

ExclusiveCloses ==
  /\ (\E i \in 1 .. loaded : running[i].excl) => p.phase = "closed" /\ p.decisions = <<>>
  /\ (\E i \in DOMAIN p.decisions : p.decisions[i].task.excl) =>
       p.phase = "closed" /\ Len(p.decisions) = 1 /\ running = <<>>

DrainInv == ReservationInv /\ CapacityInv /\ ReleaseSteps /\ IdleMachine /\ StuckHead /\ ExclusiveCloses

-----------------------------------------------------------------------------
(* A finite nonempty set of release times below Never has a last one.       *)
LEMMA LastRelease ==
  ASSUME NEW S \in SUBSET Durations, S # {}
  PROVE  \E m \in S : \A e \in S : e <= m
<1> DEFINE T == {Never - e : e \in S}
<1>1. T \in SUBSET Nat /\ T # {}
  <2>1. \A e \in S : Never - e \in Nat
    BY NeverAssumption DEF Durations
  <2>2. T \in SUBSET Nat
    BY <2>1
  <2>3. PICK e \in S : TRUE
    OBVIOUS
  <2>4. Never - e \in T
    OBVIOUS
  <2> QED
    BY <2>2, <2>4
<1>2. First(T) \in T /\ \A y \in T : First(T) <= y
  BY <1>1, FirstIsLeast
<1>3. PICK m \in S : First(T) = Never - m
  BY <1>2
<1>4. ASSUME NEW e \in S PROVE e <= m
  <2>1. Never - m <= Never - e
    BY <1>2, <1>3
  <2> QED
    BY <2>1, NeverAssumption DEF Durations
<1> QED
  BY <1>4

(* Adding an occupant keeps the steps.                                      *)
LEMMA OccupantKeepsSteps ==
  ASSUME p \in PlannerStates, ReleaseSteps,
         NEW u \in [mem : Nat, vram : Nat, gpu : Gpus \cup {None}],
         NEW left \in Durations \cup {None},
         p'.freed = FreedWith(p, u, left), p'.ends = EndsWith(p, left)
  PROVE  ReleaseSteps'
<1>1. CASE left = None
  <2>1. p'.freed = [t \in Instants |-> p.freed[t]] /\ p'.ends = p.ends
    BY <1>1 DEF FreedWith, EndsWith
  <2> QED
    BY <2>1 DEF ReleaseSteps
<1>2. CASE left # None
  <2>1. p'.ends = p.ends \cup {left} /\ left \in Nat
    BY <1>2, NeverAssumption DEF EndsWith, Durations
  <2>2. \A t \in Instants : t \in Nat /\
          p'.freed[t] = IF left <= t THEN More(p.freed[t], u) ELSE p.freed[t]
    BY <1>2, NeverAssumption DEF FreedWith, Instants
  <2>3. ASSUME NEW t \in Instants, \A e \in p'.ends : t < e
        PROVE  p'.freed[t] = Nothing(KnownGpus)
    <3>1. ~ (left <= t) /\ \A e \in p.ends : t < e
      BY <2>1, <2>2, <2>3
    <3> QED
      BY <2>2, <3>1 DEF ReleaseSteps
  <2>4. ASSUME NEW t \in Instants, NEW v \in Instants, t <= v,
               \A e \in p'.ends : e <= t \/ v < e
        PROVE  p'.freed[t] = p'.freed[v]
    <3>1. p.freed[t] = p.freed[v]
      BY <2>1, <2>4 DEF ReleaseSteps
    <3>2. left <= t <=> left <= v
      BY <2>1, <2>2, <2>4
    <3> QED
      BY <2>2, <3>1, <3>2
  <2> QED
    BY <2>3, <2>4 DEF ReleaseSteps
<1> QED
  BY <1>1, <1>2

(* At the moment a head is blocked with an infinite reservation and free of *)
(* the canary, no drain of the finite occupants admits it.                  *)
LEMMA BlockedForever ==
  ASSUME p \in PlannerStates, ReleaseSteps, NEW head \in PendingEntries,
         ~ head.excl, ~ CanaryBlocked(p, head), ~ Fits(p.live, head),
         Reservation(p, head) = Never
  PROVE  ~ Fits(StateAt(p, Never), head)
<1>1. Never \in Instants /\ p.live \in Pools /\ p.freed[Never] \in Amounts /\ p.ends \in SUBSET Durations
  BY NeverAssumption DEF Instants, PlannerStates
<1>2. ReservationTimes(p, head) = {}
  <2>1. SUFFICES ASSUME ReservationTimes(p, head) # {} PROVE FALSE
    OBVIOUS
  <2>2. Reservation(p, head) = First(ReservationTimes(p, head))
    BY <2>1 DEF Reservation
  <2>3. ReservationTimes(p, head) \in SUBSET Durations
    BY <1>1 DEF ReservationTimes
  <2>4. First(ReservationTimes(p, head)) \in Durations
    BY <2>1, <2>3, NeverAssumption, FirstIsLeast DEF Durations
  <2> QED
    BY <2>2, <2>4, NeverAssumption DEF Durations
<1>3. CASE p.ends = {}
  <2>1. p.freed[Never] = Nothing(KnownGpus)
    BY <1>1, <1>3 DEF ReleaseSteps
  <2> DEFINE s == StateAt(p, Never)
  <2>2. s \in Pools /\ s.gated = p.live.gated /\ s.mem = p.live.mem /\ s.slots = p.live.slots
        /\ \A g \in KnownGpus : s.gpu[g] = p.live.gpu[g]
    BY <1>1, <2>1 DEF StateAt, Plus, Nothing, Pools
  <2>3. /\ s.mem <= p.live.mem /\ p.live.slots <= s.slots
        /\ \A g \in KnownGpus : s.gpu[g] <= p.live.gpu[g]
    BY <1>1, <2>2 DEF Pools
  <2> HIDE DEF s
  <2>4. Fits(s, head) => Fits(p.live, head)
    BY <1>1, <2>2, <2>3, FitsMonotone
  <2> QED
    BY <2>4 DEF s
<1>4. CASE p.ends # {}
  <2>1. PICK m \in p.ends : \A e \in p.ends : e <= m
    BY <1>1, <1>4, LastRelease
  <2>2. m \in Instants /\ m <= Never
    BY <1>1, <2>1, NeverAssumption DEF Durations, Instants
  <2>3. p.freed[m] = p.freed[Never]
    BY <1>1, <2>1, <2>2 DEF ReleaseSteps
  <2>4. ~ Fits(StateAt(p, m), head)
    BY <1>2, <2>1 DEF ReservationTimes
  <2> QED
    BY <2>3, <2>4 DEF StateAt
<1> QED
  BY <1>3, <1>4

(* Around such a head nothing is harmless.                                  *)
LEMMA NothingPassesStuckHead ==
  ASSUME DrainInv, NEW task \in PendingEntries, CanBackfill(p, task),
         p.phase = "backfill", p.reservation = Never
  PROVE  CanaryBlocked(p, p.head)
<1> DEFINE g == Place(task, p.rr, BackfillOffsets(p, task)).gpu
           u == Use(task, g)
           s == StateAt(p, Never)
<1>0. p \in PlannerStates /\ p.head \in PendingEntries /\ ~ p.head.excl
  BY DEF DrainInv, ReservationInv, TypeOK, HeadIsOrdinary, PlannerStates
<1>1. g \in KnownGpus \cup {None} /\ Harmless(p, task, g)
  BY <1>0, BackfillEffect
<1>2. u \in [mem : Nat, vram : Nat, gpu : Gpus \cup {None}]
  BY <1>1, EntryTypes, KnownAssumption
<1>3. ~ Short(p, task)
  BY NeverAssumption DEF Short
<1>4. Fits(Take(s, u), p.head)
  BY <1>1, <1>3 DEF Harmless, HeadStillFitsWithHold
<1>5. s \in Pools
  <2>1. p.live \in Pools /\ p.freed[Never] \in Amounts
    BY <1>0, NeverAssumption DEF PlannerStates, Instants
  <2> QED
    BY <2>1 DEF StateAt, Plus, Pools, Amounts
<1> HIDE DEF s, u
<1>6. /\ Take(s, u) \in Pools /\ Take(s, u).gated = s.gated /\ Take(s, u).mem <= s.mem
      /\ s.slots <= Take(s, u).slots
      /\ \A h \in KnownGpus : Take(s, u).gpu[h] <= s.gpu[h]
  BY <1>2, <1>5 DEF Take, Pools
<1>7. Fits(s, p.head)
  BY <1>0, <1>4, <1>5, <1>6, FitsMonotone
<1> QED
  BY <1>7 DEF DrainInv, StuckHead, s

-----------------------------------------------------------------------------
(* Before the first visit nothing has been released, admitted or blocked    *)
(* (scheduling.py:180-203).                                                 *)
THEOREM InitDrainInv == Init => DrainInv
<1> SUFFICES ASSUME Init PROVE DrainInv
  OBVIOUS
<1>1. PICK cap \in Capacities :
        p = Start([gated |-> cap.gated, mem |-> cap.mem, gpu |-> cap.gpu,
                   rr |-> cap.rr, slots |-> Len(running)])
  BY DEF Init
<1>2. DOMAIN cap.gpu = KnownGpus
  BY CapacityAssumption
<1>3. /\ p.ends = {} /\ p.held = {} /\ p.phase = "front" /\ p.decisions = <<>> /\ loaded = 0
      /\ p.freed = [t \in Instants |-> Nothing(KnownGpus)]
  BY <1>1, <1>2 DEF Start, Init
<1> QED
  BY <1>3, InitReservationInv, InitCapacityInv
     DEF DrainInv, ReleaseSteps, IdleMachine, StuckHead, ExclusiveCloses

(* Visiting a running entry keeps the drain invariant; an exclusive one     *)
(* closes the cycle (scheduling.py:188-212).                                *)
LEMMA LoadKeepsDrain == ASSUME DrainInv, ReservationInv', CapacityInv', Load PROVE DrainInv'
<1> DEFINE o == running[loaded + 1]
<1>0. /\ p \in PlannerStates /\ loaded \in Nat /\ loaded' = loaded + 1 /\ loaded < Len(running)
      /\ running' = running /\ o \in RunningEntries /\ running # <<>>
  BY DEF DrainInv, ReservationInv, TypeOK, Load
<1>1. /\ p'.freed = FreedWith(p, Use(o, o.gpu), o.left) /\ p'.ends = EndsWith(p, o.left)
      /\ p'.phase = (IF o.excl THEN "closed" ELSE p.phase)
      /\ p'.decisions = p.decisions
  BY <1>0 DEF Load, Occupy, PlannerStates
<1>2. p.decisions = <<>> /\ p.phase # "backfill"
  BY <1>0 DEF DrainInv, ReservationInv, LoadFirst
<1>3. ReleaseSteps'
  <2>1. Use(o, o.gpu) \in [mem : Nat, vram : Nat, gpu : Gpus \cup {None}]
        /\ o.left \in Durations \cup {None}
    BY <1>0, EntryTypes DEF RunningEntryType
  <2> HIDE DEF o
  <2> QED
    BY <1>0, <1>1, <2>1, OccupantKeepsSteps DEF DrainInv
<1>4. ExclusiveCloses'
  <2>1. ASSUME NEW i \in 1 .. loaded', running[i].excl PROVE p'.phase = "closed"
    <3>1. CASE i = loaded + 1
      BY <1>1, <2>1, <3>1
    <3>2. CASE i \in 1 .. loaded
      BY <1>1, <2>1, <3>2 DEF DrainInv, ExclusiveCloses
    <3> QED
      BY <1>0, <3>1, <3>2
  <2> QED
    BY <1>0, <1>1, <1>2, <2>1 DEF ExclusiveCloses
<1> QED
  BY <1>0, <1>1, <1>2, <1>3, <1>4 DEF DrainInv, IdleMachine, StuckHead

(* Front admission keeps it: an exclusive task only enters an idle machine, *)
(* and ends the cycle (scheduling.py:215-233, 311).                         *)
LEMMA FrontKeepsDrain ==
  ASSUME DrainInv, ReservationInv', CapacityInv', Visit, FrontAdmit PROVE DrainInv'
<1> DEFINE g == Place(Candidate, p.rr, GpuOptions(p.live, Candidate, p.rr)).gpu
           d == [task |-> Candidate, gpu |-> g, rule |-> "front"]
<1>0. /\ p \in PlannerStates /\ Candidate \in PendingEntries /\ CanAdmitFront(p, Candidate)
      /\ p' = AdmitFront(p, Candidate) /\ running' = running /\ loaded' = loaded
      /\ loaded = Len(running) /\ running \in Seq(RunningEntries) /\ p.phase = "front"
  BY CandidateType DEF DrainInv, ReservationInv, TypeOK, Visit, FrontAdmit
<1>1. /\ p'.decisions = Append(p.decisions, d)
      /\ p'.freed = FreedWith(p, Use(Candidate, g), Candidate.dur)
      /\ p'.ends = EndsWith(p, Candidate.dur)
      /\ p'.phase = (IF Candidate.excl THEN "closed" ELSE "front")
      /\ g \in KnownGpus \cup {None}
  BY <1>0, FrontEffect
<1> HIDE DEF g
<1>2. ReleaseSteps'
  <2>1. Use(Candidate, g) \in [mem : Nat, vram : Nat, gpu : Gpus \cup {None}]
        /\ Candidate.dur \in Durations \cup {None}
    BY <1>0, <1>1, EntryTypes, KnownAssumption DEF PendingEntryType
  <2> QED
    BY <1>0, <1>1, <2>1, OccupantKeepsSteps DEF DrainInv
<1>3. p.decisions \in Seq(DecisionType) /\ p'.decisions # <<>>
  BY <1>0, <1>1 DEF PlannerStates
<1>4. /\ \A i \in 1 .. loaded : ~ running[i].excl
      /\ \A i \in DOMAIN p.decisions : ~ p.decisions[i].task.excl
  BY <1>0 DEF DrainInv, ExclusiveCloses
<1>5. Candidate.excl => p.decisions = <<>> /\ running = <<>>
  <2>1. Candidate.excl => p.live.slots = 0
    BY <1>0 DEF CanAdmitFront, Fits, FitsNonGpu
  <2>2. p.live.slots = Len(running) + Len(p.decisions)
    BY DEF DrainInv, CapacityInv, SlotsCounted
  <2> QED
    BY <1>0, <1>3, <2>1, <2>2
<1>6. ExclusiveCloses'
  BY <1>0, <1>1, <1>3, <1>4, <1>5 DEF ExclusiveCloses
<1> QED
  BY <1>0, <1>1, <1>2, <1>3, <1>6 DEF DrainInv, IdleMachine, StuckHead

(* Blocking a head keeps it: an infinite reservation means that no drain of *)
(* the known releases admits the head (scheduling.py:239-253, 385-392).     *)
LEMMA BlockKeepsDrain ==
  ASSUME DrainInv, ReservationInv', CapacityInv', Visit, BlockHead PROVE DrainInv'
<1>0. /\ p \in PlannerStates /\ Candidate \in PendingEntries /\ ~ CanAdmitFront(p, Candidate)
      /\ p' = Block(p, Candidate) /\ running' = running /\ loaded' = loaded
      /\ loaded = Len(running) /\ p.phase = "front"
  BY CandidateType DEF DrainInv, ReservationInv, TypeOK, Visit, BlockHead
<1>1. /\ p'.live = p.live /\ p'.freed = p.freed /\ p'.ends = p.ends /\ p'.held = p.held
      /\ p'.decisions = p.decisions /\ p'.head = Candidate
      /\ p'.phase \in {"backfill", "closed"}
      /\ p'.phase = "backfill" =>
           ~ Candidate.excl /\ p'.reservation = Reservation(p, Candidate)
  BY <1>0 DEF Block, PlannerStates
<1>2. ReleaseSteps'
  BY <1>1 DEF DrainInv, ReleaseSteps
<1>3. IdleMachine'
  <2>1. ASSUME running = <<>>, p.decisions = <<>>, p'.phase = "backfill"
        PROVE  p'.reservation = Never
    <3>1. ReservationTimes(p, Candidate) = {}
      BY <2>1 DEF DrainInv, IdleMachine, ReservationTimes
    <3> QED
      BY <1>1, <2>1, <3>1 DEF Reservation
  <2> QED
    BY <1>0, <1>1, <2>1 DEF DrainInv, IdleMachine
<1>4. StuckHead'
  <2>1. ASSUME p'.phase = "backfill", p'.reservation = Never, ~ CanaryBlocked(p', p'.head)
        PROVE  ~ Fits(StateAt(p', Never), p'.head) /\ ~ Backfilled'
    <3>1. ~ CanaryBlocked(p, Candidate)
      BY <1>1, <2>1 DEF CanaryBlocked
    <3>2. ~ Fits(StateAt(p, Never), Candidate)
      BY <1>0, <1>1, <2>1, <3>1, BlockedForever DEF DrainInv, CanAdmitFront
    <3>3. \A i \in DOMAIN p.decisions : p.decisions[i].rule = "front"
      BY <1>0 DEF DrainInv, ReservationInv, FrontOnly
    <3> QED
      BY <1>1, <3>2, <3>3 DEF StateAt, Backfilled, Decisions
  <2> QED
    BY <2>1 DEF StuckHead
<1>5. ExclusiveCloses'
  BY <1>0, <1>1 DEF DrainInv, ExclusiveCloses
<1> QED
  BY <1>2, <1>3, <1>4, <1>5 DEF DrainInv

(* Backfilling keeps it: nothing passes a head that is stuck, and no        *)
(* exclusive task passes any head (scheduling.py:398, 424-447).             *)
LEMMA BackfillKeepsDrain ==
  ASSUME DrainInv, ReservationInv', CapacityInv', Visit, Backfill PROVE DrainInv'
<1> DEFINE g == Place(Candidate, p.rr, BackfillOffsets(p, Candidate)).gpu
           d == [task |-> Candidate, gpu |-> g,
                 rule |-> IF Short(p, Candidate) THEN "b" ELSE "a"]
<1>0. /\ p \in PlannerStates /\ Candidate \in PendingEntries /\ CanBackfill(p, Candidate)
      /\ p' = AdmitBackfill(p, Candidate) /\ running' = running /\ loaded' = loaded
      /\ p.phase = "backfill" /\ running \in Seq(RunningEntries)
  BY CandidateType DEF DrainInv, ReservationInv, TypeOK, Visit, Backfill
<1>1. /\ p'.freed = p.freed /\ p'.ends = p.ends /\ p'.phase = p.phase /\ p'.head = p.head
      /\ p'.reservation = p.reservation /\ p'.decisions = Append(p.decisions, d)
      /\ p'.held = HeldWith(p, Candidate.ident)
  BY <1>0, BackfillEffect
<1> HIDE DEF d
<1>2. ReleaseSteps'
  BY <1>1 DEF DrainInv, ReleaseSteps
<1>3. p.decisions \in Seq(DecisionType) /\ p'.decisions # <<>>
  BY <1>0, <1>1 DEF PlannerStates
<1>4. StuckHead'
  <2>1. ASSUME p.reservation = Never PROVE CanaryBlocked(p', p'.head)
    <3>1. CanaryBlocked(p, p.head)
      BY <1>0, <2>1, NothingPassesStuckHead
    <3> QED
      BY <1>1, <3>1 DEF CanaryBlocked, HeldWith
  <2> QED
    BY <1>1, <2>1 DEF StuckHead
<1>5. ~ Candidate.excl
  <2>1. SUFFICES ASSUME Candidate.excl PROVE FALSE
    OBVIOUS
  <2>2. p.live.slots = 0
    BY <1>0, <2>1 DEF CanBackfill, FitsNonGpu
  <2>3. p.live.slots = Len(running) + Len(p.decisions)
    BY DEF DrainInv, CapacityInv, SlotsCounted
  <2>4. running = <<>> /\ p.decisions = <<>>
    BY <1>0, <1>3, <2>2, <2>3
  <2>5. p.reservation = Never /\ p.held = {}
    BY <1>0, <2>4 DEF DrainInv, IdleMachine
  <2>6. CanaryBlocked(p, p.head)
    BY <1>0, <2>5, NothingPassesStuckHead
  <2> QED
    BY <2>5, <2>6 DEF CanaryBlocked
<1>6. \A i \in DOMAIN p.decisions : ~ p.decisions[i].task.excl
  BY <1>0 DEF DrainInv, ExclusiveCloses
<1>7. ExclusiveCloses'
  <2>1. d.task = Candidate
    BY DEF d
  <2>2. \A i \in DOMAIN p'.decisions : ~ p'.decisions[i].task.excl
    BY <1>1, <1>3, <1>5, <1>6, <2>1
  <2>3. \A i \in 1 .. loaded : ~ running[i].excl
    BY <1>0 DEF DrainInv, ExclusiveCloses
  <2> QED
    BY <1>0, <2>2, <2>3 DEF ExclusiveCloses
<1> QED
  BY <1>2, <1>3, <1>4, <1>7 DEF DrainInv, IdleMachine

(* Every visit of the planner keeps the drain invariant                     *)
(* (scheduling.py:205-254).                                                 *)
THEOREM NextDrainInv == DrainInv /\ [Next]_vars => DrainInv'
<1> SUFFICES ASSUME DrainInv, [Next]_vars PROVE DrainInv'
  OBVIOUS
<1>0. ReservationInv' /\ CapacityInv'
  BY NextReservationInv, NextCapacityInv DEF DrainInv, ReservationInv
<1>1. CASE Load
  BY <1>0, <1>1, LoadKeepsDrain
<1>2. CASE Visit /\ FrontAdmit
  BY <1>0, <1>2, FrontKeepsDrain
<1>3. CASE Visit /\ BlockHead
  BY <1>0, <1>3, BlockKeepsDrain
<1>4. CASE Visit /\ Backfill
  BY <1>0, <1>4, BackfillKeepsDrain
<1>5. CASE UNCHANGED <<p, lent>> /\ (Visit \/ UNCHANGED vars)
  <2>1. p' = p /\ running' = running /\ loaded' = loaded
    BY <1>5 DEF Visit, vars
  <2> QED
    BY <1>0, <2>1 DEF DrainInv, ReleaseSteps, IdleMachine, StuckHead, ExclusiveCloses,
                      Backfilled, Decisions
<1> QED
  BY <1>1, <1>2, <1>3, <1>4, <1>5 DEF Next, Plan, PassOver, Ignore, vars

(* For every input: unless the canary blocks the head, nothing is admitted  *)
(* around a head whose reservation is infinite (scheduling.py:392, 476).    *)
THEOREM InfiniteReservationStalls == Spec => []InfiniteReservationAdmitsNothing
<1>1. DrainInv => InfiniteReservationAdmitsNothing
  BY DEF DrainInv, StuckHead, InfiniteReservationAdmitsNothing
<1> QED
  BY InitDrainInv, NextDrainInv, <1>1, PTL DEF Spec

(* For every input: an exclusive task is planned alone and only on an empty *)
(* machine, and nothing is planned next to one (scheduling.py:211, 230).    *)
THEOREM ExclusiveAlone == Spec => []ExclusiveRunsAlone
<1>1. DrainInv => ExclusiveRunsAlone
  <2> SUFFICES ASSUME DrainInv PROVE ExclusiveRunsAlone
    OBVIOUS
  <2>1. running \in Seq(RunningEntries)
    BY DEF DrainInv, ReservationInv, TypeOK
  <2> QED
    BY <2>1 DEF DrainInv, ExclusiveCloses, ExclusiveRunsAlone, Decisions
<1> QED
  BY InitDrainInv, NextDrainInv, <1>1, PTL DEF Spec
==============================================================================
