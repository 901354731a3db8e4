------------------------------ MODULE Profiles ------------------------------
(***************************************************************************)
(* The arithmetic of profiles.py: LearnedProfile, and which profile of the *)
(* store a task is estimated from.                                         *)
(*                                                                         *)
(* An observation is the peak memory of one run in whole gigabytes; VRAM   *)
(* and duration take the same percentile and have no floor.  Estimates and *)
(* floors are in twentieths of a gigabyte, the step of the safety margin.  *)
(* A profile is [obs, floor].  A store maps a key to its profile; the base *)
(* profile of a function is under None, its keyed profiles under their     *)
(* profile_key.  A key the code's dict lacks is one with the Empty profile,*)
(* which no operation tells apart from it.                                 *)
(***************************************************************************)
EXTENDS Integers, Sequences, FiniteSets, SequencesExt

CONSTANTS None,
          MaxObservations,       \* LearnedProfile.max_observations
          RecoveryObservations   \* FLOOR_RECOVERY_OBSERVATIONS

ASSUME ObservationsAssumption ==
  /\ MaxObservations \in Nat \ {0}
  /\ RecoveryObservations \in 1 .. MaxObservations

GB == 20              \* one gigabyte
LeastEstimate == 2    \* 0.1 GB
DefaultMemory == 1    \* what a function without history is taken for
FullConfidence == 10  \* the sample count from which there is no margin

Base == None
Empty == [obs |-> <<>>, floor |-> None]

AtLeast(x, y) == IF x > y THEN x ELSE y
AtMost(x, y) == IF x < y THEN x ELSE y

-----------------------------------------------------------------------------
Samples(p) == Len(p.obs)

LatestOneMoreBug(obs, n) == SubSeq(obs, Len(obs) - AtMost(n, Len(obs) - 1), Len(obs))

Latest(obs, n) == SubSeq(obs, Len(obs) - AtMost(n, Len(obs)) + 1, Len(obs))

\* _maybe_recover_floor: enough observations, the latest all below half of it.
Recovered(obs, floor) ==
  /\ floor # None /\ Len(obs) >= RecoveryObservations
  /\ \A o \in ToSet(Latest(obs, RecoveryObservations)) : 2 * GB * o < floor

Add(p, o) ==
  LET obs == Latest(Append(p.obs, o), MaxObservations)
  IN [obs |-> obs, floor |-> IF Recovered(obs, p.floor) THEN None ELSE p.floor]

SetFloorOverwriteBug(p, floor) == [p EXCEPT !.floor = floor]

SetFloor(p, floor) ==
  [p EXCEPT !.floor = IF p.floor = None THEN floor ELSE AtLeast(p.floor, floor)]

\* The sorted observations at index floor((n - 1) * 0.9).
P90(obs) ==
  LET index == ((Len(obs) - 1) * 9) \div 10
      Count(Test(_)) == Cardinality({i \in DOMAIN obs : Test(obs[i])})
  IN CHOOSE v \in ToSet(obs) :
       Count(LAMBDA o : o < v) <= index /\ index < Count(LAMBDA o : o <= v)

\* LearnedProfile.estimate, the memory of it.
Estimate(p, hint) ==
  LET memory == IF hint # None THEN hint
                ELSE IF p.obs # <<>> THEN P90(p.obs) ELSE DefaultMemory
      margin == GB + GB \div 2 - AtMost(Samples(p), FullConfidence)
      learned == AtLeast(LeastEstimate, memory * margin)
  IN IF p.floor = None THEN learned ELSE AtLeast(learned, p.floor)

-----------------------------------------------------------------------------
(* The store.                                                               *)

SelectedFloorOnlyBug(store, key) ==
  IF key # None /\ store[key] # Empty THEN key ELSE Base

\* The key of the profile estimation draws from, _select_profile_locked.
Selected(store, key) ==
  IF key # None /\ store[key].obs # <<>> THEN key ELSE Base

Profile(store, key) == store[Selected(store, key)]

\* record and record_memory_floor write the base profile and the keyed one.
Recorded(store, key, o) ==
  [k \in DOMAIN store |-> IF k \in {Base, key} THEN Add(store[k], o) ELSE store[k]]

FloorRecorded(store, key, floor) ==
  [k \in DOMAIN store |-> IF k \in {Base, key} THEN SetFloor(store[k], floor) ELSE store[k]]

LoadedFloorFirstBug(p) ==
  FoldLeft(Add, [Empty EXCEPT !.floor = p.floor], p.obs)

\* _load of one profile: the observations are added to an empty profile, then
\* the floor is set.
Loaded(p) == [FoldLeft(Add, Empty, p.obs) EXCEPT !.floor = p.floor]
=============================================================================
