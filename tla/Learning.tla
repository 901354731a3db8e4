------------------------------ MODULE Learning ------------------------------
(***************************************************************************)
(* The learning loop: how runs and crashes teach the profiles and how the  *)
(* profiles set the estimates of waiting calls (adaptive_executor.py over  *)
(* profiles.py).                                                           *)
(*                                                                         *)
(*   callers     submit, with or without a profile_key and a hint          *)
(*   dispatch    _maybe_dispatch: _reestimate_pending, then a plan;        *)
(*               _check_workers: a crash raises the floor, then the call   *)
(*               goes back to the queue; it may find last results, too     *)
(*   collector   _process_result: the call leaves in_flight, then its      *)
(*               observation is recorded                                   *)
(*                                                                         *)
(* Scheduling decides what a plan starts; here it may start any waiting    *)
(* calls the cold-start canary lets through.  A call of its function runs  *)
(* in some worker and either returns, with a peak of the set Peaks, or is  *)
(* OOM-killed.  Executor models the crash handling in full; other exits    *)
(* than OOM teach nothing.                                                 *)
(***************************************************************************)
EXTENDS ProfileStore

CONSTANTS Calls,       \* the calls of submit, all of one function
          Key,         \* each call's profile_key, or None
          Hint,        \* each call's memory_gb, or None
          Offered,     \* the calls submitted with and without a persist_path
          Peaks,       \* the peaks a run may report, in gigabytes
          Successes,   \* whether a run's function may return (TRUE), raise (FALSE)
          MaxRetries,  \* max_resource_crash_retries
          MaxCrashes   \* bound on the OOM crashes of a behaviour

Twentieths == Nat \ {0}
LearnedProfile ==
  {p \in [obs : Seq(Peaks), floor : Twentieths \cup {None}] : Samples(p) <= MaxObservations}
HandType == [call : Calls, peak : Peaks \cup {None}, success : BOOLEAN]

ASSUME KeyAssumption == Key \in [Calls -> Buckets]
ASSUME HintAssumption == Hint \in [Calls -> Nat \cup {None}]
ASSUME PeaksAssumption == Peaks \subseteq Nat /\ Successes \subseteq BOOLEAN
ASSUME FilesAssumption == Files \subseteq [Buckets -> LearnedProfile]
ASSUME RetriesAssumption == MaxRetries \in Nat
ASSUME ApartAssumption == None \notin Nat /\ None \notin HandType

VARIABLES
  call,     \* each call's PendingWork
  hand,     \* what each thread took out of in_flight and has still to record
  crashes,  \* crashes so far
  streak    \* history: the successful runs below half of each active floor, in
            \* a row, since it was set

vars == <<profileVars, call, hand, crashes, streak>>

New == [at |-> "new", est |-> None, samples |-> 0, floor |-> None, retries |-> 0, ident |-> None]

In(place) == {c \in Calls : call[c].at = place}

Init ==
  /\ StoreInit
  /\ call = [c \in Calls |-> IF c \in Offered[persist] THEN New ELSE [New EXCEPT !.at = "done"]]
  /\ hand = [th \in Threads |-> None]
  /\ crashes = 0
  /\ streak = [k \in Buckets |-> 0]

-----------------------------------------------------------------------------
(* Estimates.                                                               *)

ProfileOf(c) == Profile(store, Key[c])

Estimated(w, c) ==
  LET p == ProfileOf(c) IN
    [w EXCEPT !.est = Estimate(p, Hint[c]), !.samples = Samples(p), !.floor = p.floor]

StaleSamplesOnlyBug(w, c) == w.retries = 0 /\ Samples(ProfileOf(c)) # w.samples

\* _reestimate_pending recomputes an entry whose stamps differ from its profile.
Stale(w, c) ==
  /\ w.retries = 0
  /\ \/ Samples(ProfileOf(c)) # w.samples
     \/ ProfileOf(c).floor # w.floor

Submit(c) ==
  /\ phase = "open"
  /\ call[c].at = "new"
  /\ call' = [call EXCEPT ![c] = [Estimated(New, c) EXCEPT !.at = "waiting"]]
  /\ UNCHANGED <<profileVars, hand, crashes, streak>>

-----------------------------------------------------------------------------
(* The dispatch cycle.                                                      *)

Identity(c) == Selected(store, Key[c])
Cold(c) == Samples(ProfileOf(c)) = 0 /\ Hint[c] = None

\* A cold call starts only while no call of its identity runs, and alone among
\* the cold calls of its identity.
CanaryAllows(starts) ==
  \A c \in starts : Cold(c) =>
    /\ \A d \in In("running") : call[d].ident # Identity(c)
    /\ \A d \in starts \ {c} : Cold(d) => Identity(d) # Identity(c)

\* due: the entries last refreshed long enough ago.
Cycle(due, starts) ==
  /\ phase = "open"
  /\ hand["dispatch"] = None /\ saver["dispatch"] = None
  /\ In("waiting") # {}
  /\ CanaryAllows(starts)
  /\ call' = [c \in Calls |->
       IF c \notin In("waiting") THEN call[c]
       ELSE LET w == IF c \in due /\ Stale(call[c], c) THEN Estimated(call[c], c) ELSE call[c]
            IN [w EXCEPT !.ident = Identity(c),
                         !.at = IF c \in starts THEN "running" ELSE "waiting"]]
  /\ UNCHANGED <<profileVars, hand, crashes, streak>>

-----------------------------------------------------------------------------
(* Results.                                                                 *)

\* _process_result up to the lock: the call leaves in_flight.
Collect(th, c, peak, success) ==
  /\ th \in {"collector", "dispatch"}
  /\ hand[th] = None /\ saver[th] = None
  /\ call[c].at = "running"
  /\ call' = [call EXCEPT ![c].at = "returned"]
  /\ hand' = [hand EXCEPT ![th] = [call |-> c, peak |-> peak, success |-> success]]
  /\ UNCHANGED <<profileVars, crashes, streak>>

\* The streak of an active floor: a failed run neither counts nor breaks it.
Streak(k, peak, success) ==
  IF store[k].floor = None \/ ~ success THEN streak[k]
  ELSE IF 2 * GB * peak < store[k].floor THEN AtMost(streak[k] + 1, RecoveryObservations)
  ELSE 0

\* The observation is recorded, whether or not the function raised.
Record(th, overdue) ==
  /\ hand[th] # None /\ hand[th].peak # None
  /\ LET c == hand[th].call IN
       /\ Update(th, Recorded(store, Key[c], hand[th].peak), overdue)
       /\ call' = [call EXCEPT ![c].at = "done"]
       /\ streak' = [k \in Buckets |->
            IF k \in {Base, Key[c]} THEN Streak(k, hand[th].peak, hand[th].success)
                                    ELSE streak[k]]
  /\ hand' = [hand EXCEPT ![th] = None]
  /\ UNCHANGED crashes

-----------------------------------------------------------------------------
(* OOM crashes.                                                             *)

\* _handle_dead_worker: a call that has used up its retries fails.
Lose(c) ==
  /\ hand["dispatch"] = None /\ saver["dispatch"] = None
  /\ call[c].at = "running" /\ crashes < MaxCrashes
  /\ crashes' = crashes + 1
  /\ IF call[c].retries >= MaxRetries
       THEN call' = [call EXCEPT ![c].at = "done"] /\ UNCHANGED hand
       ELSE /\ call' = [call EXCEPT ![c].at = "lost"]
            /\ hand' = [hand EXCEPT !["dispatch"] = [call |-> c, peak |-> None, success |-> FALSE]]
  /\ UNCHANGED <<profileVars, streak>>

\* _penalize_estimate: the estimate that was too small becomes a floor.
RaiseFloor(overdue) ==
  /\ hand["dispatch"] # None
  /\ LET c == hand["dispatch"].call IN
       /\ call[c].at = "lost"
       /\ Update("dispatch", FloorRecorded(store, Key[c], call[c].est), overdue)
       /\ call' = [call EXCEPT ![c].at = "penalized", ![c].est = AtLeast(LeastEstimate, 2 * @),
                               ![c].retries = @ + 1]
       /\ streak' = [k \in Buckets |-> IF store'[k].floor # store[k].floor THEN 0 ELSE streak[k]]
  /\ UNCHANGED <<hand, crashes>>

\* Back in the queue once the save, if any, is over.
Requeue ==
  /\ hand["dispatch"] # None /\ saver["dispatch"] = None
  /\ call[hand["dispatch"].call].at = "penalized"
  /\ call' = [call EXCEPT ![hand["dispatch"].call].at = "waiting"]
  /\ hand' = [hand EXCEPT !["dispatch"] = None]
  /\ UNCHANGED <<profileVars, crashes, streak>>

-----------------------------------------------------------------------------
(* Shutdown and restart.                                                    *)

\* _fail_pending_futures empties the queue.
Shutdown ==
  /\ Stop
  /\ call' = [c \in Calls |-> IF call[c].at \in {"new", "waiting"} THEN [call[c] EXCEPT !.at = "done"]
                                                                   ELSE call[c]]
  /\ UNCHANGED <<hand, crashes, streak>>

JoinThreads ==
  /\ Join(/\ In("running") = {}
          /\ \A th \in Threads : hand[th] = None /\ saver[th] = None)
  /\ UNCHANGED <<call, hand, crashes, streak>>

\* The calls of the process that ended are gone; new ones may be submitted.
NewProcess(readable) ==
  /\ Restart(readable)
  /\ call' = [c \in Calls |-> IF call[c].at = "new" THEN New ELSE [New EXCEPT !.at = "done"]]
  /\ hand' = [th \in Threads |-> None]
  /\ UNCHANGED <<crashes, streak>>

Next ==
  \/ \E c \in Calls : Submit(c) \/ Lose(c)
  \/ \E due, starts \in SUBSET In("waiting") : Cycle(due, starts)
  \/ \E th \in Threads, c \in Calls, peak \in Peaks, success \in Successes :
       Collect(th, c, peak, success)
  \/ \E th \in Threads, overdue \in BOOLEAN : Record(th, overdue)
  \/ \E overdue \in BOOLEAN : RaiseFloor(overdue)
  \/ Requeue \/ Shutdown \/ JoinThreads
  \/ SaveStep /\ UNCHANGED <<call, hand, crashes, streak>>
  \/ \E readable \in BOOLEAN : NewProcess(readable)

Spec == Init /\ [][Next]_vars

-----------------------------------------------------------------------------
Places == {"new", "waiting", "running", "returned", "lost", "penalized", "done"}

(* The type of every variable; a call holds an estimate as long as it is    *)
(* queued or in flight, one thread has it in hand when it is neither, and   *)
(* only a thread with a snapshot holds the save lock (profiles.py:341-367,  *)
(* adaptive_executor.py:949-988, 1132-1165).                                *)
TypeOK ==
  /\ store \in [Buckets -> LearnedProfile]
  /\ \A c \in Calls :
       /\ call[c].at \in Places
       /\ call[c].at \in Places \ {"new", "done"} => call[c].est \in Twentieths
       /\ call[c].retries \in 0 .. MaxRetries
       /\ call[c].at \in {"returned", "lost", "penalized"} <=>
            \E th \in Threads : hand[th] # None /\ hand[th].call = c
  /\ unsaved \in Nat /\ (persist => unsaved < SaveEvery)
  /\ saveLock # None => saver[saveLock] # None
  /\ ~ persist => file = None /\ \A th \in Threads : saver[th] = None

(* Saving is atomic: whatever threads save at the same time, fail to save   *)
(* or are killed while saving, the file only ever changes to what some      *)
(* store was after an update, base and keyed profile together               *)
(* (profiles.py:341-378).                                                   *)
FileIsOneSnapshot == [][file' # file => file' \in known]_vars

(* A new process knows what the file holds, floors included: reloading the  *)
(* observations neither clears a floor nor lengthens a profile, and a file  *)
(* that cannot be loaded leaves no part of it (profiles.py:380-409).        *)
RestartsFromFile ==
  [][restarts' # restarts => store' \in {EmptyStore, file}]_vars

(* README.md:137-139 "nothing is lost on a clean exit": once shutdown is    *)
(* over the file is the store, unless the join gave up on a thread or the   *)
(* last write failed; earlier failed or reordered saves do not matter.      *)
CleanExitSavesAll == phase = "closed" /\ persist /\ ~ gaveUp /\ ~ failed => file = store

(* The canary is lifted once and for all: within a process, a key that was  *)
(* estimated from observations never falls back to a cold profile, whatever *)
(* bucket is chosen and whatever floors are set (profiles.py:189-246).      *)
StaysWarm ==
  [][restarts' = restarts =>
       \A k \in Buckets : Samples(Profile(store, k)) > 0 => Samples(Profile(store', k)) > 0]_vars

(* A crash protects the queued siblings: an entry that re-estimation would  *)
(* leave alone is never below the floor of the profile it draws from        *)
(* (adaptive_executor.py:422-456).                                          *)
SkippedKeepsFloor ==
  \A c \in In("waiting") :
    ~ Stale(call[c], c) /\ call[c].retries = 0 /\ ProfileOf(c).floor # None
      => call[c].est >= ProfileOf(c).floor

(* Floors only rise, whichever calls crash under whichever estimates, until *)
(* the recovery rule clears them (profiles.py:64-97, 281-313).              *)
FloorsRatchet ==
  [][restarts' = restarts =>
       \A k \in Buckets : store[k].floor # None =>
         IF store'[k].floor = None THEN Recovered(store'[k].obs, store[k].floor)
                                   ELSE store'[k].floor >= store[k].floor]_vars

-----------------------------------------------------------------------------
(* What a document says of the learning, and the code does not do.          *)

(* README.md:125-127: a floor is cleared "after five consecutive successful *)
(* runs whose peak memory is below half the floor": runs of the time since  *)
(* the crash that set it.                                                   *)
FloorNeedsFreshEvidence ==
  [][\A k \in Buckets :
       restarts' = restarts /\ store[k].floor # None /\ store'[k].floor = None
         => streak'[k] >= RecoveryObservations]_vars
=============================================================================
