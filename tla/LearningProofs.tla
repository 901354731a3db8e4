--------------------------- MODULE LearningProofs ----------------------------
(***************************************************************************)
(* Proofs about Learning, for all calls, keys, hints, files, peaks, save   *)
(* intervals, retries and restarts: the saving of the profiles, what a     *)
(* process loads, what estimates and floors do.                            *)
(***************************************************************************)
EXTENDS Learning, FiniteSetTheorems, SequenceTheorems, WellFoundedInduction, TLAPS

-----------------------------------------------------------------------------
(* Who may have something to save, and what.                                *)

(* A thread that is about to save holds a content of the store, the store   *)
(* itself is one; the save lock belongs to a thread that is about to save,  *)
(* and only in a shutdown that flushes does the caller save anything.       *)
SaverInv ==
  /\ DOMAIN hand = Threads /\ DOMAIN saver = Threads
  /\ hand["caller"] = None
  /\ persist => store \in known
  /\ \A th \in Threads : saver[th] # None => saver[th] \in known
  /\ saveLock # None => saveLock \in Threads /\ saver[saveLock] # None
  /\ phase # "flushing" => saver["caller"] = None

(* The exit of a process that gave up on no thread: nothing runs, nobody    *)
(* has anything in hand, and only the caller may be saving, namely the      *)
(* store.                                                                   *)
ExitInv ==
  ~ gaveUp /\ phase \in {"joined", "flushing", "closed"} =>
    /\ In("running") = {}
    /\ \A th \in Threads : hand[th] = None
    /\ \A th \in Threads \ {"caller"} : saver[th] = None
    /\ phase = "flushing" => saver["caller"] = store
    /\ phase = "closed" /\ persist /\ ~ failed => file = store

(* The threads are three.                                                 *)
LEMMA ThreadNames ==
  /\ "caller" \in Threads /\ "dispatch" \in Threads /\ "collector" \in Threads
  /\ "caller" # "dispatch" /\ "caller" # "collector"
BY DEF Threads

-----------------------------------------------------------------------------
(* Every step keeps SaverInv.                                               *)

(* An update of the store keeps the saver's invariant.                    *)
LEMMA UpdateKeepsSaverInv ==
  ASSUME SaverInv, NEW th \in {"collector", "dispatch"}, NEW s, NEW overdue,
         Update(th, s, overdue), DOMAIN hand' = Threads, hand'["caller"] = None
  PROVE  SaverInv'
<1>1. /\ UNCHANGED <<persist, saveLock, phase>>
      /\ saver[th] = None /\ store' = s
      /\ known' = IF persist THEN known \cup {s} ELSE known
      /\ saver' = saver \/ (persist /\ saver' = [saver EXCEPT ![th] = s])
  BY DEF Update, exitVars
<1>2. DOMAIN saver' = Threads /\ saver'["caller"] = saver["caller"]
  BY <1>1, ThreadNames DEF SaverInv
<1>3. persist' => store' \in known'
  BY <1>1
<1>4. \A x \in Threads : saver'[x] # None => saver'[x] \in known'
  BY <1>1 DEF SaverInv
<1>5. saveLock' # None => saveLock' \in Threads /\ saver'[saveLock'] # None
  BY <1>1 DEF SaverInv
<1> QED
  BY <1>1, <1>2, <1>3, <1>4, <1>5 DEF SaverInv

(* So does the end of a save.                                             *)
LEMMA EndSaveKeepsSaverInv ==
  ASSUME SaverInv, NEW th \in Threads, EndSave(th), UNCHANGED hand
  PROVE  SaverInv'
<1>1. /\ UNCHANGED <<persist, store, known>>
      /\ saveLock = th /\ saveLock' = None
      /\ saver' = [saver EXCEPT ![th] = None]
      /\ phase' = IF th = "caller" THEN "closed" ELSE phase
  BY DEF EndSave, storeVars
<1>2. /\ DOMAIN saver' = Threads
      /\ \A x \in Threads : saver'[x] = IF x = th THEN None ELSE saver[x]
  BY <1>1 DEF SaverInv
<1>3. phase' # "flushing" => saver'["caller"] = None
  BY <1>1, <1>2, ThreadNames DEF SaverInv
<1> QED
  BY <1>1, <1>2, <1>3 DEF SaverInv

(* Every step keeps the saver's invariant.                                *)
LEMMA SaverStep ==
  ASSUME SaverInv, [Next]_vars
  PROVE  SaverInv'
<1> USE ThreadNames
<1>1. CASE UNCHANGED vars
  BY <1>1 DEF SaverInv, vars, profileVars, storeVars, saveVars, exitVars
<1>2. CASE \E c \in Calls : Submit(c)
  BY <1>2 DEF SaverInv, Submit, profileVars, storeVars, saveVars, exitVars
<1>3. ASSUME NEW c \in Calls, Lose(c) PROVE SaverInv'
  <2>1. UNCHANGED profileVars
    BY <1>3 DEF Lose
  <2>2. DOMAIN hand' = Threads /\ hand'["caller"] = None
    BY <1>3 DEF Lose, SaverInv
  <2> QED
    BY <2>1, <2>2 DEF SaverInv, profileVars, storeVars, saveVars, exitVars
<1>4. ASSUME NEW due, NEW starts, Cycle(due, starts) PROVE SaverInv'
  BY <1>4 DEF SaverInv, Cycle, profileVars, storeVars, saveVars, exitVars
<1>5. ASSUME NEW th \in Threads, NEW c \in Calls, NEW peak, NEW success,
             Collect(th, c, peak, success)
      PROVE  SaverInv'
  <2>1. UNCHANGED profileVars
    BY <1>5 DEF Collect
  <2>2. DOMAIN hand' = Threads /\ hand'["caller"] = None
    BY <1>5 DEF Collect, SaverInv
  <2> QED
    BY <2>1, <2>2 DEF SaverInv, profileVars, storeVars, saveVars, exitVars
<1>6. ASSUME NEW th \in Threads, NEW overdue, Record(th, overdue) PROVE SaverInv'
  <2>1. th \in {"collector", "dispatch"}
    BY <1>6 DEF Record, SaverInv, Threads
  <2>2. DOMAIN hand' = Threads /\ hand'["caller"] = None
    BY <1>6, <2>1 DEF Record, SaverInv
  <2> DEFINE s == Recorded(store, Key[hand[th].call], hand[th].peak)
  <2>3. Update(th, s, overdue)
    BY <1>6 DEF Record
  <2> HIDE DEF s
  <2> QED
    BY <2>1, <2>2, <2>3, UpdateKeepsSaverInv
<1>7. ASSUME NEW overdue, RaiseFloor(overdue) PROVE SaverInv'
  <2>1. DOMAIN hand' = Threads /\ hand'["caller"] = None
    BY <1>7 DEF RaiseFloor, SaverInv
  <2> DEFINE c == hand["dispatch"].call
             s == FloorRecorded(store, Key[c], call[c].est)
  <2>2. Update("dispatch", s, overdue)
    BY <1>7 DEF RaiseFloor
  <2> HIDE DEF s
  <2> QED
    BY <2>1, <2>2, UpdateKeepsSaverInv
<1>8. CASE Requeue
  <2>1. UNCHANGED profileVars
    BY <1>8 DEF Requeue
  <2>2. DOMAIN hand' = Threads /\ hand'["caller"] = None
    BY <1>8 DEF Requeue, SaverInv
  <2> QED
    BY <2>1, <2>2 DEF SaverInv, profileVars, storeVars, saveVars, exitVars
<1>9. CASE Shutdown
  BY <1>9 DEF SaverInv, Shutdown, Stop, storeVars, saveVars
<1>10. CASE JoinThreads
  BY <1>10 DEF SaverInv, JoinThreads, Join, storeVars, saveVars
<1>11. ASSUME NEW th \in Threads, BeginSave(th), UNCHANGED hand PROVE SaverInv'
  BY <1>11 DEF SaverInv, BeginSave, storeVars, exitVars
<1>12. ASSUME NEW th \in Threads, ReplaceFile(th) \/ FailSave(th), UNCHANGED hand
       PROVE  SaverInv'
  BY <1>12, EndSaveKeepsSaverInv DEF ReplaceFile, FailSave
<1>13. CASE Flush /\ UNCHANGED hand
  <2>1. /\ UNCHANGED <<persist, store, known, saveLock>> /\ phase = "joined"
        /\ \/ persist /\ saver' = [saver EXCEPT !["caller"] = store] /\ phase' = "flushing"
           \/ saver' = saver /\ phase' = "closed"
    BY <1>13 DEF Flush, FlushDue
  <2>2. saveLock # "caller"
    BY <2>1, NoneAssumption DEF SaverInv
  <2>3. /\ DOMAIN saver' = Threads
        /\ \A x \in Threads \ {"caller"} : saver'[x] = saver[x]
    BY <2>1 DEF SaverInv
  <2>4. saver'["caller"] # None => saver'["caller"] \in known'
    BY <2>1 DEF SaverInv
  <2>5. phase' # "flushing" => saver'["caller"] = None
    BY <2>1 DEF SaverInv
  <2>6. saveLock' # None => saveLock' \in Threads /\ saver'[saveLock'] # None
    BY <2>1, <2>2, <2>3 DEF SaverInv
  <2> QED
    BY <1>13, <2>1, <2>3, <2>4, <2>5, <2>6 DEF SaverInv
<1>14. ASSUME NEW readable, NewProcess(readable) PROVE SaverInv'
  BY <1>14 DEF SaverInv, NewProcess, Restart
<1> QED
  BY <1>1, <1>2, <1>3, <1>4, <1>5, <1>6, <1>7, <1>8, <1>9, <1>10, <1>11, <1>12, <1>13, <1>14
     DEF Next, SaveStep

(* It holds at the start.                                                 *)
LEMMA SaverInitially == Init => SaverInv
BY DEF Init, StoreInit, SaverInv, Threads

(* It always holds.                                                       *)
LEMMA SaverAlways == Spec => []SaverInv
BY SaverInitially, SaverStep, PTL DEF Spec

-----------------------------------------------------------------------------
(* Saving is atomic.                                                        *)

(* What is written to the file was known to the store.                    *)
LEMMA FileStep ==
  ASSUME SaverInv, [Next]_vars, file' # file
  PROVE  file' \in known
<1>1. ASSUME NEW th \in Threads, NEW s, NEW overdue, Update(th, s, overdue) PROVE FALSE
  BY <1>1 DEF Update
<1>2. PICK th \in Threads : ReplaceFile(th)
  BY <1>1 DEF Next, vars, profileVars, saveVars, Submit, Lose, Cycle, Collect, Record,
     RaiseFloor, Requeue, Shutdown, Stop, JoinThreads, Join, NewProcess, Restart, SaveStep,
     BeginSave, Opened, FailSave, Flush, Threads
<1> QED
  BY <1>2, NoneAssumption DEF ReplaceFile, EndSave, SaverInv

(* Whatever threads save at the same time, fail or are killed while they    *)
(* save, the file only changes to a content the store has had               *)
(* (profiles.py:341-378).                                                   *)
THEOREM SavesAreAtomic == Spec => FileIsOneSnapshot
<1>1. SaverInv /\ [Next]_vars => [file' # file => file' \in known]_vars
  BY FileStep
<1> QED
  BY <1>1, SaverAlways, PTL DEF Spec, FileIsOneSnapshot

-----------------------------------------------------------------------------
(* A clean exit saves everything.                                           *)

(* At the start no save is lost.                                          *)
LEMMA ExitInitially == Init => ExitInv
BY DEF Init, StoreInit, ExitInv

(* Every step keeps what is known of the exit.                            *)
LEMMA ExitStep ==
  ASSUME SaverInv, SaverInv', ExitInv, [Next]_vars
  PROVE  ExitInv'
<1> USE ThreadNames
<1> DEFINE Exiting == ~ gaveUp /\ phase \in {"joined", "flushing", "closed"}
<1> SUFFICES ASSUME Exiting' PROVE ExitInv'
  BY DEF ExitInv
<1>1. CASE UNCHANGED vars
  BY <1>1 DEF ExitInv, In, vars, profileVars, storeVars, saveVars, exitVars
<1>2. CASE JoinThreads
  <2>1. /\ UNCHANGED <<call, hand, saver>> /\ phase' = "joined"
        /\ In("running") = {} /\ \A th \in Threads : hand[th] = None /\ saver[th] = None
    BY <1>2 DEF JoinThreads, Join, saveVars
  <2> QED
    BY <2>1 DEF ExitInv, In
<1>3. CASE Flush /\ UNCHANGED <<call, hand>>
  <2>1. /\ UNCHANGED <<store, persist, gaveUp, call, hand>> /\ phase = "joined"
        /\ IF persist THEN saver' = [saver EXCEPT !["caller"] = store] /\ phase' = "flushing"
                      ELSE saver' = saver /\ phase' = "closed"
    BY <1>3 DEF Flush, FlushDue
  <2>2. \A th \in Threads \ {"caller"} : saver'[th] = saver[th]
    BY <2>1 DEF SaverInv
  <2>3. phase' = "flushing" => saver'["caller"] = store'
    BY <2>1 DEF SaverInv
  <2>4. ~ (phase' = "closed" /\ persist')
    BY <2>1
  <2> QED
    BY <2>1, <2>2, <2>3, <2>4 DEF ExitInv, In
<1>4. ASSUME NEW th \in Threads, BeginSave(th), UNCHANGED <<call, hand>> PROVE ExitInv'
  BY <1>4 DEF ExitInv, In, BeginSave, Opened, storeVars, exitVars
<1>5. ASSUME NEW th \in Threads, ReplaceFile(th) \/ FailSave(th), UNCHANGED <<call, hand>>
      PROVE  ExitInv'
  <2>1. /\ UNCHANGED <<persist, store, gaveUp, call, hand>>
        /\ saveLock = th /\ saver' = [saver EXCEPT ![th] = None]
        /\ phase' = IF th = "caller" THEN "closed" ELSE phase
    BY <1>5 DEF ReplaceFile, FailSave, EndSave, storeVars
  <2>2. saver[th] # None
    BY <2>1, NoneAssumption DEF SaverInv
  <2>3. CASE th # "caller"
    BY <2>1, <2>2, <2>3 DEF ExitInv
  <2>4. CASE th = "caller"
    <3>1. phase = "flushing"
      BY <2>2, <2>4 DEF SaverInv
    <3>2. \A x \in Threads \ {"caller"} : saver'[x] = None
      BY <2>1, <2>4, <3>1 DEF ExitInv
    <3>3. ~ failed' => file' = store'
      BY <1>5, <2>1, <2>4, <3>1 DEF ExitInv, ReplaceFile, FailSave
    <3> QED
      BY <2>1, <2>4, <3>1, <3>2, <3>3 DEF ExitInv, In
  <2> QED
    BY <2>3, <2>4
<1>6. ASSUME \/ \E c \in Calls : Submit(c)
             \/ \E due, starts \in SUBSET In("waiting") : Cycle(due, starts)
             \/ Shutdown
             \/ \E readable \in BOOLEAN : NewProcess(readable)
      PROVE  FALSE
  <2>1. phase' \in {"open", "stopping"}
    BY <1>6 DEF Submit, Cycle, Shutdown, Stop, NewProcess, Restart, profileVars, exitVars
  <2> QED
    BY <2>1
<1>7. ASSUME \/ \E c \in Calls : Lose(c)
             \/ \E th \in Threads, c \in Calls, peak \in Peaks, success \in Successes :
                  Collect(th, c, peak, success)
             \/ \E th \in Threads, overdue \in BOOLEAN : Record(th, overdue)
             \/ \E overdue \in BOOLEAN : RaiseFloor(overdue)
             \/ Requeue
      PROVE  FALSE
  <2>1. UNCHANGED <<gaveUp, phase>>
    BY <1>7 DEF Lose, Collect, Record, RaiseFloor, Requeue, Update, profileVars, exitVars
  <2>2. In("running") = {} /\ \A th \in Threads : hand[th] = None
    BY <2>1 DEF ExitInv
  <2> QED
    BY <1>7, <2>2 DEF Lose, Collect, Record, RaiseFloor, Requeue, In
<1> QED
  BY <1>1, <1>2, <1>3, <1>4, <1>5, <1>6, <1>7 DEF Next, SaveStep

(* When shutdown is over and gave up on nobody, the file is the store if    *)
(* the last write succeeded, however many saves failed or came in the wrong *)
(* order before (profiles.py:309-378, adaptive_executor.py:217-221).        *)
THEOREM CleanExit == Spec => []CleanExitSavesAll
<1>1. ExitInv => CleanExitSavesAll
  BY DEF ExitInv, CleanExitSavesAll
<1> QED
  BY <1>1, ExitInitially, ExitStep, SaverAlways, PTL DEF Spec

-----------------------------------------------------------------------------
(* Naturals and the observations of a profile.                              *)

(* A nonempty set of naturals has a least element.                        *)
LEMMA LeastNatural ==
  ASSUME NEW S \in SUBSET Nat, S # {}
  PROVE  \E x \in S : \A y \in S : x <= y
<1>1. PICK x \in S : \A y \in S : ~ (<<y, x>> \in OpToRel(<, Nat))
  BY NatLessThanWellFounded, WFMin
<1>2. ASSUME NEW y \in S, y < x PROVE FALSE
  <2>1. <<y, x>> \in OpToRel(<, Nat)
    BY <1>2 DEF OpToRel
  <2> QED
    BY <1>1, <2>1
<1>3. \A y \in S : x <= y
  BY <1>2
<1> QED
  BY <1>3

(* Induction: a set that holds 0 and with each number the next holds all. *)
LEMMA AllNaturals ==
  ASSUME NEW S, 0 \in S, \A n \in Nat : n \in S => n + 1 \in S
  PROVE  \A n \in Nat : n \in S
<1> DEFINE Out == Nat \ S
<1>1. SUFFICES ASSUME Out # {} PROVE FALSE
  OBVIOUS
<1>2. PICK x \in Out : \A y \in Out : x <= y
  BY <1>1, LeastNatural
<1>3. x - 1 \in Nat /\ x = (x - 1) + 1 /\ x - 1 \notin Out
  BY <1>2
<1> QED
  BY <1>2, <1>3

(* The latest observations.                                               *)
LEMMA LatestOf ==
  ASSUME NEW S, NEW obs \in Seq(S), NEW n \in Nat
  PROVE  /\ Latest(obs, n) \in Seq(S)
         /\ Len(Latest(obs, n)) = AtMost(n, Len(obs))
         /\ Len(obs) <= n => Latest(obs, n) = obs
<1> DEFINE m == Len(obs) - AtMost(n, Len(obs)) + 1
<1>1. Len(obs) \in Nat /\ \A i \in 1 .. Len(obs) : obs[i] \in S
  OBVIOUS
<1>2. m \in 1 .. Len(obs) + 1 /\ Len(obs) - m + 1 = AtMost(n, Len(obs))
      /\ AtMost(n, Len(obs)) \in Nat /\ (Len(obs) <= n => m = 1)
  <2> DEFINE l == Len(obs)
             a == AtMost(n, l)
  <2>1. l \in Nat /\ a \in 0 .. l /\ (l <= n => a = l) /\ m = l - a + 1
    BY <1>1 DEF AtMost
  <2> HIDE DEF l, a, m
  <2>2. m \in 1 .. l + 1 /\ l - m + 1 = a /\ a \in Nat /\ (l <= n => m = 1)
    BY <2>1
  <2> QED
    BY <2>2 DEF l, a
<1> HIDE DEF m
<1>3. Latest(obs, n) = SubSeq(obs, m, Len(obs))
  BY DEF Latest, m
<1>4. m \in Int /\ Len(obs) \in Int /\ \A i \in m .. Len(obs) : obs[i] \in S
  BY <1>1, <1>2
<1>5. /\ SubSeq(obs, m, Len(obs)) \in Seq(S)
      /\ Len(SubSeq(obs, m, Len(obs))) = IF m <= Len(obs) THEN Len(obs) - m + 1 ELSE 0
  BY <1>4, SubSeqProperties
<1>6. Len(obs) <= n => Latest(obs, n) = obs
  BY <1>2, <1>3, SubSeqFull
<1> QED
  BY <1>1, <1>2, <1>3, <1>5, <1>6

\* What an observation makes of a profile.
LEMMA AddKeeps ==
  ASSUME NEW p \in LearnedProfile, NEW o \in Peaks
  PROVE  /\ Add(p, o) \in LearnedProfile /\ Len(Add(p, o).obs) > 0
         /\ Add(p, o).floor = IF Recovered(Add(p, o).obs, p.floor) THEN None ELSE p.floor
         /\ p.floor = None /\ Len(p.obs) < MaxObservations
              => Add(p, o) = [obs |-> Append(p.obs, o), floor |-> None]
<1> DEFINE obs == Latest(Append(p.obs, o), MaxObservations)
<1>1. p.obs \in Seq(Peaks) /\ Len(p.obs) <= MaxObservations /\ p.floor \in Twentieths \cup {None}
      /\ Len(p.obs) \in Nat /\ MaxObservations \in Nat \ {0}
  BY ObservationsAssumption DEF LearnedProfile, Samples
<1>2. Append(p.obs, o) \in Seq(Peaks) /\ Len(Append(p.obs, o)) = Len(p.obs) + 1
  BY <1>1
<1>3. /\ obs \in Seq(Peaks) /\ Len(obs) = AtMost(MaxObservations, Len(p.obs) + 1)
      /\ Len(p.obs) < MaxObservations => obs = Append(p.obs, o)
  <2>1. /\ obs \in Seq(Peaks) /\ Len(obs) = AtMost(MaxObservations, Len(Append(p.obs, o)))
        /\ Len(Append(p.obs, o)) <= MaxObservations => obs = Append(p.obs, o)
    BY <1>1, <1>2, LatestOf
  <2> HIDE DEF obs
  <2> QED
    BY <1>1, <1>2, <2>1
<1> HIDE DEF obs
<1>4. Add(p, o) = [obs |-> obs, floor |-> IF Recovered(obs, p.floor) THEN None ELSE p.floor]
  BY DEF Add, obs
<1>5. Len(obs) <= MaxObservations /\ Len(obs) > 0
  BY <1>1, <1>3 DEF AtMost
<1>6. p.floor = None => ~ Recovered(obs, p.floor)
  BY DEF Recovered
<1>7. /\ Add(p, o).obs = obs
      /\ Add(p, o).floor = IF Recovered(obs, p.floor) THEN None ELSE p.floor
  BY <1>4
<1>8. Add(p, o) \in LearnedProfile
  BY <1>1, <1>3, <1>4, <1>5 DEF LearnedProfile, Samples
<1>9. p.floor = None /\ Len(p.obs) < MaxObservations
        => Add(p, o) = [obs |-> Append(p.obs, o), floor |-> None]
  BY <1>3, <1>4, <1>6
<1> QED
  BY <1>5, <1>7, <1>8, <1>9

\* What a crash makes of one.
LEMMA FloorKeeps ==
  ASSUME NEW p \in LearnedProfile, NEW floor \in Twentieths
  PROVE  /\ SetFloor(p, floor) \in LearnedProfile /\ SetFloor(p, floor).obs = p.obs
         /\ SetFloor(p, floor).floor # None
         /\ p.floor # None => SetFloor(p, floor).floor >= p.floor
<1>1. p.floor \in Twentieths \cup {None}
  BY DEF LearnedProfile
<1> DEFINE f == IF p.floor = None THEN floor ELSE AtLeast(p.floor, floor)
<1>2. f \in Twentieths /\ f # None /\ (p.floor # None => f >= p.floor)
  BY <1>1, ApartAssumption DEF AtLeast, Twentieths
<1> HIDE DEF f
<1>3. SetFloor(p, floor) = [p EXCEPT !.floor = f]
  BY DEF SetFloor, f
<1> QED
  BY <1>2, <1>3 DEF LearnedProfile, Samples

-----------------------------------------------------------------------------
(* Loading.                                                                 *)

(* The largest element of a set of numbers.                               *)
LEMMA MaxIs ==
  ASSUME NEW S \in SUBSET Int, NEW x \in S, \A y \in S : x >= y
  PROVE  Max(S) = x
<1>1. Max(S) \in S /\ \A y \in S : Max(S) >= y
  BY DEF Max
<1>2. PICK m \in S : m = Max(S) /\ m >= x
  BY <1>1
<1>3. m \in Int /\ x \in Int /\ x >= m
  OBVIOUS
<1> QED
  BY <1>2, <1>3

\* The fold of Loaded over the indices of n observations.
Replays(obs, n, it) ==
  it = [s \in SUBSET (1 .. n) |-> IF s = {} THEN Empty ELSE Add(it[s \ {Max(s)}], obs[Max(s)])]

(* The fold has a value.                                                  *)
LEMMA ReplayExists ==
  ASSUME NEW obs, NEW m \in Nat
  PROVE  \E it : Replays(obs, m, it)
<1> DEFINE N == {n \in Nat : \E it : Replays(obs, n, it)}
           Value(it, s) == IF s = {} THEN Empty ELSE Add(it[s \ {Max(s)}], obs[Max(s)])
<1>1. 0 \in N
  <2> DEFINE it == [s \in SUBSET (1 .. 0) |-> Empty]
  <2>1. \A s \in SUBSET (1 .. 0) : s = {}
    OBVIOUS
  <2>2. it = [s \in SUBSET (1 .. 0) |-> Value(it, s)]
    BY <2>1
  <2>3. Replays(obs, 0, it)
    BY <2>2 DEF Replays
  <2> QED
    BY <2>3
<1>2. ASSUME NEW n \in Nat, n \in N PROVE n + 1 \in N
  <2>1. PICK it : Replays(obs, n, it)
    BY <1>2
  <2> DEFINE jt == [s \in SUBSET (1 .. n + 1) |->
                      IF s \subseteq 1 .. n THEN it[s] ELSE Add(it[s \ {n + 1}], obs[n + 1])]
  <2>2. \A s \in SUBSET (1 .. n) : it[s] = Value(it, s)
    BY <2>1 DEF Replays
  <2>3. ASSUME NEW s \in SUBSET (1 .. n + 1) PROVE jt[s] = Value(jt, s)
    <3>1. CASE s \subseteq 1 .. n
      <4>1. s \ {Max(s)} \in SUBSET (1 .. n) /\ s \ {Max(s)} \in SUBSET (1 .. n + 1)
        BY <3>1
      <4>2. jt[s] = it[s] /\ jt[s \ {Max(s)}] = it[s \ {Max(s)}]
        BY <3>1, <4>1
      <4> QED
        BY <2>2, <3>1, <4>2
    <3>2. CASE ~ (s \subseteq 1 .. n)
      <4>1. n + 1 \in s /\ s # {} /\ \A y \in s : n + 1 >= y
        BY <3>2
      <4>2. Max(s) = n + 1
        BY <4>1, MaxIs
      <4>3. s \ {n + 1} \in SUBSET (1 .. n) /\ s \ {n + 1} \in SUBSET (1 .. n + 1)
        OBVIOUS
      <4>4. jt[s] = Add(it[s \ {n + 1}], obs[n + 1]) /\ jt[s \ {n + 1}] = it[s \ {n + 1}]
        BY <3>2, <4>3
      <4> QED
        BY <4>1, <4>2, <4>4
    <3> QED
      BY <3>1, <3>2
  <2>4. jt = [s \in SUBSET (1 .. n + 1) |-> Value(jt, s)]
    BY <2>3
  <2> HIDE DEF jt
  <2>5. Replays(obs, n + 1, jt)
    BY <2>4 DEF Replays
  <2>6. n + 1 \in Nat /\ \E kt : Replays(obs, n + 1, kt)
    BY <2>5
  <2> QED
    BY <2>6
<1> HIDE DEF N
<1>3. m \in N
  BY <1>1, <1>2, AllNaturals
<1> QED
  BY <1>3 DEF N

(* A profile is loaded as it was saved: the observations are all there, in *)
(* order, and the floor is none of their business.                        *)
LEMMA LoadsBack ==
  ASSUME NEW p \in LearnedProfile
  PROVE  Loaded(p) = p
<1> DEFINE obs == p.obs
           n == Len(obs)
           it == CHOOSE f : Replays(obs, n, f)
<1>0. /\ obs \in Seq(Peaks) /\ n \in Nat /\ n <= MaxObservations /\ DOMAIN obs = 1 .. n
      /\ p = [obs |-> obs, floor |-> p.floor] /\ MaxObservations \in Nat
      /\ \A i \in 1 .. n : obs[i] \in Peaks
  BY ObservationsAssumption DEF LearnedProfile, Samples
<1>1. Replays(obs, n, it)
  BY <1>0, ReplayExists
<1>2. FoldLeft(Add, Empty, obs) = it[1 .. n]
  BY <1>0 DEF FoldLeft, MapThenFoldSet, Replays
<1> HIDE DEF it
<1> DEFINE Prefix(k) == [obs |-> SubSeq(obs, 1, k), floor |-> None]
           N == {k \in Nat : k <= n => it[1 .. k] = Prefix(k)}
<1>3. \A s \in SUBSET (1 .. n) : it[s] = IF s = {} THEN Empty ELSE Add(it[s \ {Max(s)}], obs[Max(s)])
  BY <1>1 DEF Replays
<1>4. 0 \in N
  <2>1. 1 .. 0 = {} /\ SubSeq(obs, 1, 0) = <<>>
    BY SubSeqEmpty
  <2> QED
    BY <1>3, <2>1 DEF Empty
<1>5. ASSUME NEW k \in Nat, k \in N PROVE k + 1 \in N
  <2> SUFFICES ASSUME k + 1 <= n PROVE it[1 .. k + 1] = Prefix(k + 1)
    OBVIOUS
  <2>1. (1 .. k + 1) \in SUBSET (1 .. n) /\ 1 .. k + 1 # {} /\ (1 .. k + 1) \ {k + 1} = 1 .. k
    BY <1>0
  <2>2. Max(1 .. k + 1) = k + 1
    <3>1. (1 .. k + 1) \in SUBSET Int /\ k + 1 \in 1 .. k + 1 /\ \A y \in 1 .. k + 1 : k + 1 >= y
      OBVIOUS
    <3> QED
      BY <3>1, MaxIs
  <2>3. it[1 .. k + 1] = Add(it[1 .. k], obs[k + 1])
    BY <1>3, <2>1, <2>2
  <2>4. it[1 .. k] = Prefix(k)
    BY <1>0, <1>5
  <2>5. /\ SubSeq(obs, 1, k) \in Seq(Peaks) /\ Len(SubSeq(obs, 1, k)) = k
    <3>1. \A i \in 1 .. k : obs[i] \in Peaks
      BY <1>0
    <3> QED
      BY <1>0, <3>1, SubSeqProperties
  <2>6. Prefix(k) \in LearnedProfile /\ Len(Prefix(k).obs) < MaxObservations
    BY <1>0, <2>5 DEF LearnedProfile, Samples
  <2>7. obs[k + 1] \in Peaks
    BY <1>0
  <2>8. Add(Prefix(k), obs[k + 1]) = [obs |-> Append(SubSeq(obs, 1, k), obs[k + 1]), floor |-> None]
    BY <2>6, <2>7, AddKeeps
  <2>9. Append(SubSeq(obs, 1, k), obs[k + 1]) = SubSeq(obs, 1, k + 1)
    <3>1. SubSeq(obs, 1, k + 1) = SubSeq(obs, 1, (k + 1) - 1) \o << obs[k + 1] >>
      BY <1>0, SubSeqRecursiveSecond
    <3>2. Append(SubSeq(obs, 1, k), obs[k + 1]) = SubSeq(obs, 1, k) \o << obs[k + 1] >>
      BY <2>5, <2>7
    <3> QED
      BY <3>1, <3>2
  <2> QED
    BY <2>3, <2>4, <2>8, <2>9
<1>6. n \in N
  <2> HIDE DEF N
  <2> QED
    BY <1>0, <1>4, <1>5, AllNaturals
<1>7. it[1 .. n] = [obs |-> obs, floor |-> None]
  BY <1>0, <1>6, SubSeqFull
<1>8. Loaded(p) = [[obs |-> obs, floor |-> None] EXCEPT !.floor = p.floor]
  BY <1>2, <1>7 DEF Loaded
<1> QED
  BY <1>0, <1>8

-----------------------------------------------------------------------------
(* Estimates.                                                               *)

(* Finitely many observations are bounded.                                *)
LEMMA ObservationsBounded ==
  ASSUME NEW obs \in Seq(Nat)
  PROVE  \E b \in Nat : \A i \in DOMAIN obs : obs[i] <= b
<1> DEFINE n == Len(obs)
           N == {k \in Nat : k <= n => \E b \in Nat : \A i \in 1 .. k : obs[i] <= b}
<1>1. n \in Nat /\ DOMAIN obs = 1 .. n /\ \A i \in 1 .. n : obs[i] \in Nat
  OBVIOUS
<1> HIDE DEF n
<1>2. 0 \in N
  OBVIOUS
<1>3. ASSUME NEW k \in Nat, k \in N PROVE k + 1 \in N
  <2> SUFFICES ASSUME k + 1 <= n PROVE \E b \in Nat : \A i \in 1 .. k + 1 : obs[i] <= b
    OBVIOUS
  <2>1. PICK b \in Nat : \A i \in 1 .. k : obs[i] <= b
    BY <1>1, <1>3
  <2>2. obs[k + 1] \in Nat
    BY <1>1
  <2>3. CASE obs[k + 1] <= b
    <3>1. \A i \in 1 .. k + 1 : obs[i] <= b
      BY <2>1, <2>3
    <3> QED
      BY <3>1
  <2>4. CASE b < obs[k + 1]
    <3>1. ASSUME NEW i \in 1 .. k + 1 PROVE obs[i] <= obs[k + 1]
      <4>1. obs[i] \in Nat
        BY <1>1
      <4>2. CASE i = k + 1
        BY <2>2, <4>2
      <4>3. CASE i \in 1 .. k
        <5>1. obs[i] <= b
          BY <2>1, <4>3
        <5> QED
          BY <2>2, <2>4, <4>1, <5>1
      <4> QED
        BY <1>3, <4>2, <4>3
    <3> QED
      BY <2>2, <3>1
  <2>5. obs[k + 1] <= b \/ b < obs[k + 1]
    BY <2>2
  <2> QED
    BY <2>3, <2>4, <2>5
<1>4. n \in N
  <2> HIDE DEF N
  <2> QED
    BY <1>1, <1>2, <1>3, AllNaturals
<1> QED
  BY <1>1, <1>4

(* The percentile is one of the observations.                             *)
LEMMA PercentileIsObserved ==
  ASSUME NEW obs \in Seq(Nat), obs # <<>>
  PROVE  P90(obs) \in Nat
<1> DEFINE n == Len(obs)
           index == ((n - 1) * 9) \div 10
           Upto(v) == {i \in DOMAIN obs : obs[i] <= v}
           Under(v) == {i \in DOMAIN obs : obs[i] < v}
           V == {v \in Nat : index < Cardinality(Upto(v))}
<1>1. n \in Nat \ {0} /\ DOMAIN obs = 1 .. n /\ \A i \in 1 .. n : obs[i] \in Nat
  BY EmptySeq
<1> HIDE DEF n
<1>2. IsFiniteSet(1 .. n) /\ Cardinality(1 .. n) = n
  BY <1>1, FS_Interval
<1>3. index \in 0 .. n - 1
  <2>1. (n - 1) * 9 \in Nat /\ 10 * (n - 1) >= (n - 1) * 9
    BY <1>1
  <2>2. index \in Nat /\ index <= n - 1
    BY <1>1, <2>1
  <2> QED
    BY <1>1, <2>2
<1>4. \A v : IsFiniteSet(Upto(v)) /\ Cardinality(Upto(v)) \in Nat
  BY <1>1, <1>2, FS_Subset, FS_CardinalityType
<1> HIDE DEF index, Upto, Under
<1>5. V # {}
  <2>1. PICK b \in Nat : \A i \in DOMAIN obs : obs[i] <= b
    BY ObservationsBounded
  <2>2. Upto(b) = 1 .. n
    BY <1>1, <2>1 DEF Upto
  <2>3. index < Cardinality(Upto(b))
    BY <1>1, <1>2, <1>3, <2>2
  <2> QED
    BY <2>3
<1>6. PICK v \in V : \A u \in V : v <= u
  BY <1>5, LeastNatural
<1>7. Cardinality(Under(v)) <= index
  <2>1. CASE v = 0
    <3>1. Under(v) = {}
      BY <1>1, <2>1 DEF Under
    <3>2. Cardinality(Under(v)) = 0
      BY <3>1, FS_EmptySet
    <3> QED
      BY <1>3, <3>2
  <2>2. CASE v # 0
    <3>1. v - 1 \in Nat /\ v - 1 \notin V
      BY <1>6, <2>2
    <3>2. Cardinality(Upto(v - 1)) <= index
      <4>1. ~ (index < Cardinality(Upto(v - 1)))
        BY <3>1
      <4>2. Cardinality(Upto(v - 1)) \in Nat
        BY <1>4
      <4> QED
        BY <1>1, <1>3, <4>1, <4>2
    <3>3. Under(v) = Upto(v - 1)
      BY <1>1, <1>6 DEF Under, Upto
    <3> QED
      BY <3>2, <3>3
  <2> QED
    BY <2>1, <2>2
<1>8. index < Cardinality(Upto(v))
  BY <1>6
<1>9. v \in ToSet(obs)
  <2>1. SUFFICES ASSUME v \notin ToSet(obs) PROVE FALSE
    OBVIOUS
  <2>2. \A i \in DOMAIN obs : obs[i] # v
    BY <2>1 DEF ToSet
  <2>3. Under(v) = Upto(v)
    BY <1>1, <1>6, <2>2 DEF Under, Upto
  <2>4. Cardinality(Upto(v)) \in Nat /\ index \in Int
    BY <1>1, <1>3, <1>4
  <2>5. Cardinality(Upto(v)) <= index
    BY <1>7, <2>3
  <2> QED
    BY <1>8, <2>4, <2>5
<1> DEFINE Holds(u) == Cardinality(Under(u)) <= index /\ index < Cardinality(Upto(u))
<1>10. P90(obs) = CHOOSE u \in ToSet(obs) : Holds(u)
  BY DEF P90, index, n, Upto, Under
<1>11. \E u \in ToSet(obs) : Holds(u)
  BY <1>7, <1>8, <1>9
<1> HIDE DEF Holds
<1>12. P90(obs) \in ToSet(obs)
  BY <1>10, <1>11
<1> QED
  BY <1>1, <1>12 DEF ToSet

(* An estimate is positive and never below the floor of its profile.      *)
LEMMA EstimateFits ==
  ASSUME NEW p \in LearnedProfile, NEW hint \in Nat \cup {None}
  PROVE  /\ Estimate(p, hint) \in Twentieths
         /\ p.floor # None => Estimate(p, hint) >= p.floor
<1> DEFINE memory == IF hint # None THEN hint
                     ELSE IF p.obs # <<>> THEN P90(p.obs) ELSE DefaultMemory
           margin == GB + GB \div 2 - AtMost(Samples(p), FullConfidence)
           learned == AtLeast(LeastEstimate, memory * margin)
<1>1. p.obs \in Seq(Nat) /\ Len(p.obs) \in Nat /\ p.floor \in Twentieths \cup {None}
  <2>1. p.obs \in Seq(Peaks) /\ p.floor \in Twentieths \cup {None}
    BY DEF LearnedProfile
  <2>2. Peaks \subseteq Nat
    BY PeaksAssumption
  <2>3. p.obs \in Seq(Nat)
    BY <2>1, <2>2, SeqMonotonic, Zenon
  <2> QED
    BY <2>1, <2>3
<1>2. memory \in Nat
  BY <1>1, PercentileIsObserved DEF DefaultMemory
<1>3. margin \in Int
  BY <1>1 DEF GB, AtMost, FullConfidence, Samples
<1> HIDE DEF memory, margin
<1>4. memory * margin \in Int
  BY <1>2, <1>3
<1>5. learned \in Int /\ learned >= 2
  BY <1>4 DEF AtLeast, LeastEstimate
<1>6. Estimate(p, hint) = IF p.floor = None THEN learned ELSE AtLeast(learned, p.floor)
  BY DEF Estimate, learned, memory, margin
<1> HIDE DEF learned
<1> QED
  BY <1>1, <1>5, <1>6 DEF AtLeast, Twentieths

-----------------------------------------------------------------------------
(* What is in every variable.                                               *)

Stores == [Buckets -> LearnedProfile]

(* Whatever holds profiles holds a store: the memory, the file and the        *)
(* snapshots of the threads.                                                *)
StoresInv ==
  /\ persist \in BOOLEAN /\ restarts \in Nat
  /\ store \in Stores /\ file \in Stores \cup {None}
  /\ saver \in [Threads -> Stores \cup {None}]
  /\ unsaved \in Nat /\ (persist => unsaved < SaveEvery)
  /\ ~ persist => file = None /\ \A th \in Threads : saver[th] = None

CallType == [at : Places, est : Twentieths \cup {None}, samples : Nat,
             floor : Twentieths \cup {None}, retries : 0 .. MaxRetries, ident : Buckets]

(* A submitted call has an estimate, a call that lost its worker a retry      *)
(* left; an estimate no crash has doubled is not below the floor it was       *)
(* stamped with.                                                            *)
CallOk(w) ==
  /\ w \in CallType
  /\ w.at \in Places \ {"new", "done"} => w.est \in Twentieths
  /\ w.at = "lost" => w.retries < MaxRetries
  /\ w.retries = 0 /\ w.floor # None => w.est \in Twentieths /\ w.est >= w.floor

CallsInv == DOMAIN call = Calls /\ \A c \in Calls : CallOk(call[c])

(* A call that is neither queued nor in flight is in the hand of one thread:  *)
(* a result in either's, a crash in that of the dispatch thread.            *)
HandsInv ==
  /\ hand \in [Threads -> HandType \cup {None}]
  /\ \A th \in Threads : hand[th] # None =>
       \/ hand[th].peak # None /\ call[hand[th].call].at = "returned"
       \/ th = "dispatch" /\ call[hand[th].call].at \in {"lost", "penalized"}
  /\ \A c \in Calls : call[c].at \in {"returned", "lost", "penalized"} =>
       \E th \in Threads : hand[th] # None /\ hand[th].call = c
  /\ \A th, u \in Threads :
       hand[th] # None /\ hand[u] # None /\ hand[th].call = hand[u].call => th = u

LearnInv == StoresInv /\ CallsInv /\ HandsInv

-----------------------------------------------------------------------------
(* The store.                                                               *)

(* The store of a function nobody ran is one.                             *)
LEMMA EmptyIsStore == Empty \in LearnedProfile /\ EmptyStore \in Stores
<1>1. <<>> \in Seq(Peaks) /\ Len(<<>>) = 0
  OBVIOUS
<1>2. Empty \in LearnedProfile
  BY <1>1, ObservationsAssumption DEF Empty, LearnedProfile, Samples
<1> QED
  BY <1>2 DEF EmptyStore, Stores

(* What a key draws from is a profile of the store.                       *)
LEMMA ProfileFits ==
  ASSUME NEW s \in Stores, NEW key \in Buckets
  PROVE  Selected(s, key) \in Buckets /\ Profile(s, key) \in LearnedProfile
<1>1. Selected(s, key) \in Buckets
  BY DEF Selected, Buckets
<1> QED
  BY <1>1 DEF Profile, Stores

(* An observation changes the base and the keyed profile only.            *)
LEMMA RecordedIs ==
  ASSUME NEW s \in Stores, NEW key \in Buckets, NEW o \in Peaks
  PROVE  /\ Recorded(s, key, o) \in Stores
         /\ \A k \in Buckets :
              Recorded(s, key, o)[k] = IF k \in {Base, key} THEN Add(s[k], o) ELSE s[k]
<1>1. DOMAIN s = Buckets /\ \A k \in Buckets : s[k] \in LearnedProfile
  BY DEF Stores
<1>2. \A k \in Buckets : Add(s[k], o) \in LearnedProfile
  BY <1>1, AddKeeps
<1> QED
  BY <1>1, <1>2 DEF Recorded, Stores

(* So does a floor.                                                       *)
LEMMA FloorRecordedIs ==
  ASSUME NEW s \in Stores, NEW key \in Buckets, NEW f \in Twentieths
  PROVE  /\ FloorRecorded(s, key, f) \in Stores
         /\ \A k \in Buckets :
              FloorRecorded(s, key, f)[k] = IF k \in {Base, key} THEN SetFloor(s[k], f) ELSE s[k]
<1>1. DOMAIN s = Buckets /\ \A k \in Buckets : s[k] \in LearnedProfile
  BY DEF Stores
<1>2. \A k \in Buckets : SetFloor(s[k], f) \in LearnedProfile
  BY <1>1, FloorKeeps
<1> QED
  BY <1>1, <1>2 DEF FloorRecorded, Stores

(* A file is loaded as it is.                                             *)
LEMMA OpeningIs ==
  ASSUME NEW f \in Stores \cup {None}
  PROVE  Opening(f) \in Stores /\ Opening(f) \in {EmptyStore, f}
<1>1. CASE f = None
  BY <1>1, EmptyIsStore DEF Opening
<1>2. CASE f # None
  <2>1. f \in Stores /\ f = [k \in Buckets |-> f[k]] /\ \A k \in Buckets : f[k] \in LearnedProfile
    BY <1>2 DEF Stores
  <2>2. \A k \in Buckets : Loaded(f[k]) = f[k]
    BY <2>1, LoadsBack
  <2>3. Opening(f) = f
    BY <1>2, <2>1, <2>2 DEF Opening
  <2> QED
    BY <2>1, <2>3
<1> QED
  BY <1>1, <1>2

(* An update of the store keeps it one, and the count of unsaved updates      *)
(* below the save interval.                                                 *)
LEMMA UpdateKeepsStores ==
  ASSUME StoresInv, NEW th \in Threads, NEW s, s \in Stores, NEW overdue, Update(th, s, overdue)
  PROVE  StoresInv'
<1> DEFINE saves == persist /\ (unsaved + 1 >= SaveEvery \/ overdue)
<1>1. /\ UNCHANGED <<persist, file, restarts>> /\ store' = s
      /\ unsaved' = IF saves THEN 0 ELSE unsaved + 1
      /\ saver' = IF saves THEN [saver EXCEPT ![th] = s] ELSE saver
  BY DEF Update
<1>2. saves => persist
  OBVIOUS
<1>3. unsaved' \in Nat /\ (persist' => unsaved' < SaveEvery)
  BY <1>1, SaveEveryAssumption DEF StoresInv
<1> HIDE DEF saves
<1>4. saver' \in [Threads -> Stores \cup {None}]
  BY <1>1 DEF StoresInv
<1>5. ~ persist' => saver' = saver
  BY <1>1, <1>2
<1> QED
  BY <1>1, <1>3, <1>4, <1>5 DEF StoresInv

(* The call of a hand.                                                    *)
LEMMA HandFits ==
  ASSUME HandsInv, NEW th \in Threads, hand[th] # None
  PROVE  /\ hand[th].call \in Calls /\ Key[hand[th].call] \in Buckets
         /\ hand[th].peak # None => hand[th].peak \in Peaks
<1>1. hand[th] \in HandType
  BY DEF HandsInv
<1>2. hand[th].call \in Calls /\ hand[th].peak \in Peaks \cup {None}
  BY <1>1 DEF HandType
<1> QED
  BY <1>2, KeyAssumption

(* What a result teaches makes a store.                                   *)
LEMMA RecordMakesStore ==
  ASSUME LearnInv, NEW th \in Threads, NEW overdue, Record(th, overdue)
  PROVE  LET s == Recorded(store, Key[hand[th].call], hand[th].peak)
         IN  s \in Stores /\ Update(th, s, overdue) /\ UNCHANGED restarts
<1>1. hand[th] # None /\ hand[th].peak # None
  BY DEF Record
<1>2. Key[hand[th].call] \in Buckets /\ hand[th].peak \in Peaks
  BY <1>1, HandFits DEF LearnInv
<1>3. store \in Stores
  BY DEF LearnInv, StoresInv
<1> DEFINE s == Recorded(store, Key[hand[th].call], hand[th].peak)
<1>4. s \in Stores
  BY <1>2, <1>3, RecordedIs
<1>5. Update(th, s, overdue)
  BY DEF Record
<1>6. UNCHANGED restarts
  BY <1>5 DEF Update
<1> QED
  BY <1>4, <1>5, <1>6

(* So does what a crash teaches.                                          *)
LEMMA RaiseMakesStore ==
  ASSUME LearnInv, NEW overdue, RaiseFloor(overdue)
  PROVE  LET c == hand["dispatch"].call
             s == FloorRecorded(store, Key[c], call[c].est)
         IN  /\ c \in Calls /\ Key[c] \in Buckets /\ call[c].est \in Twentieths
             /\ s \in Stores /\ Update("dispatch", s, overdue) /\ UNCHANGED restarts
<1> DEFINE c == hand["dispatch"].call
           s == FloorRecorded(store, Key[c], call[c].est)
<1>1. hand["dispatch"] # None /\ call[c].at = "lost"
  BY DEF RaiseFloor
<1>2. c \in Calls /\ Key[c] \in Buckets
  BY <1>1, HandFits DEF LearnInv, Threads
<1>3. call[c].est \in Twentieths
  BY <1>1, <1>2 DEF LearnInv, CallsInv, CallOk, Places
<1>4. store \in Stores
  BY DEF LearnInv, StoresInv
<1>5. s \in Stores
  BY <1>2, <1>3, <1>4, FloorRecordedIs
<1>6. Update("dispatch", s, overdue)
  BY DEF RaiseFloor
<1>7. UNCHANGED restarts
  BY <1>6 DEF Update
<1> QED
  BY <1>2, <1>3, <1>5, <1>6, <1>7

(* Every step keeps the stores.                                           *)
LEMMA StoresStep ==
  ASSUME LearnInv, [Next]_vars
  PROVE  StoresInv'
<1>0. StoresInv
  BY DEF LearnInv
<1>1. ASSUME UNCHANGED profileVars PROVE StoresInv'
  BY <1>0, <1>1 DEF StoresInv, profileVars, storeVars, saveVars
<1>2. ASSUME NEW th \in Threads, NEW overdue, Record(th, overdue) PROVE StoresInv'
  <2> DEFINE s == Recorded(store, Key[hand[th].call], hand[th].peak)
  <2>1. s \in Stores /\ Update(th, s, overdue)
    BY <1>2, RecordMakesStore
  <2> HIDE DEF s
  <2> QED
    BY <1>0, <2>1, UpdateKeepsStores
<1>3. ASSUME NEW overdue, RaiseFloor(overdue) PROVE StoresInv'
  <2> DEFINE s == FloorRecorded(store, Key[hand["dispatch"].call], call[hand["dispatch"].call].est)
  <2>1. s \in Stores /\ Update("dispatch", s, overdue)
    BY <1>3, RaiseMakesStore
  <2> HIDE DEF s
  <2> QED
    BY <1>0, <2>1, UpdateKeepsStores DEF Threads
<1>4. CASE Shutdown
  BY <1>0, <1>4 DEF StoresInv, Shutdown, Stop, storeVars, saveVars
<1>5. CASE JoinThreads
  BY <1>0, <1>5 DEF StoresInv, JoinThreads, Join, storeVars, saveVars
<1>6. ASSUME NEW th \in Threads, BeginSave(th) PROVE StoresInv'
  BY <1>0, <1>6 DEF StoresInv, BeginSave, Opened, storeVars
<1>7. ASSUME NEW th \in Threads, ReplaceFile(th) \/ FailSave(th) PROVE StoresInv'
  <2>1. /\ UNCHANGED <<persist, restarts, store, unsaved>>
        /\ saver' = [saver EXCEPT ![th] = None] /\ file' \in {file, saver[th]}
    BY <1>7 DEF ReplaceFile, FailSave, EndSave, storeVars
  <2>2. saver' \in [Threads -> Stores \cup {None}] /\ saver[th] \in Stores \cup {None}
    BY <1>0, <2>1 DEF StoresInv
  <2>3. ~ persist => file' = None /\ \A x \in Threads : saver'[x] = None
    BY <1>0, <2>1 DEF StoresInv
  <2> QED
    BY <1>0, <2>1, <2>2, <2>3 DEF StoresInv
<1>8. CASE Flush
  <2>1. /\ UNCHANGED <<persist, restarts, store, file>>
        /\ \/ persist /\ saver' = [saver EXCEPT !["caller"] = store] /\ unsaved' = 0
           \/ saver' = saver /\ unsaved' = unsaved
    BY <1>8 DEF Flush, FlushDue
  <2>2. saver' \in [Threads -> Stores \cup {None}]
    BY <1>0, <2>1 DEF StoresInv
  <2>3. unsaved' \in Nat /\ (persist => unsaved' < SaveEvery)
    BY <1>0, <2>1, SaveEveryAssumption DEF StoresInv
  <2> QED
    BY <1>0, <2>1, <2>2, <2>3 DEF StoresInv
<1>9. ASSUME NEW readable, NewProcess(readable) PROVE StoresInv'
  <2>1. /\ UNCHANGED <<persist, file>> /\ restarts' = restarts + 1 /\ unsaved' = 0
        /\ saver' = [th \in Threads |-> None]
        /\ store' \in {EmptyStore, Opening(file)}
    BY <1>9 DEF NewProcess, Restart
  <2>2. Opening(file) \in Stores /\ EmptyStore \in Stores
    BY <1>0, OpeningIs, EmptyIsStore DEF StoresInv
  <2> QED
    BY <1>0, <2>1, <2>2, SaveEveryAssumption DEF StoresInv
<1> QED
  BY <1>1, <1>2, <1>3, <1>4, <1>5, <1>6, <1>7, <1>8, <1>9
     DEF Next, SaveStep, vars, Submit, Lose, Cycle, Collect, Requeue

-----------------------------------------------------------------------------
(* The calls.                                                               *)

(* A call whose estimate is made anew fits its profile.                   *)
LEMMA EstimatedFits ==
  ASSUME StoresInv, NEW w \in CallType, NEW c \in Calls
  PROVE  /\ Estimated(w, c) \in CallType /\ Estimated(w, c).est \in Twentieths
         /\ Estimated(w, c).at = w.at /\ Estimated(w, c).retries = w.retries
         /\ Estimated(w, c).floor # None => Estimated(w, c).est >= Estimated(w, c).floor
<1> DEFINE p == Profile(store, Key[c])
           e == Estimate(p, Hint[c])
<1>1. p \in LearnedProfile
  BY KeyAssumption, ProfileFits DEF StoresInv
<1>2. Hint[c] \in Nat \cup {None}
  BY HintAssumption
<1>3. e \in Twentieths /\ (p.floor # None => e >= p.floor)
  BY <1>1, <1>2, EstimateFits
<1>4. Samples(p) \in Nat /\ p.floor \in Twentieths \cup {None}
  BY <1>1 DEF LearnedProfile, Samples
<1>5. Estimated(w, c) = [w EXCEPT !.est = e, !.samples = Samples(p), !.floor = p.floor]
  BY DEF Estimated, ProfileOf
<1> HIDE DEF p, e
<1> QED
  BY <1>3, <1>4, <1>5 DEF CallType

(* The call nobody has submitted is in order.                             *)
LEMMA NewFits == CallOk(New) /\ CallOk([New EXCEPT !.at = "done"]) /\ New \in CallType
<1>1. New \in CallType
  BY RetriesAssumption DEF New, CallType, Places, Buckets, Base
<1> QED
  BY <1>1 DEF New, CallOk, CallType, Places

(* A call that moves on keeps what it holds.                              *)
LEMMA MoveFits ==
  ASSUME NEW w, CallOk(w), NEW at \in Places,
         w.at \in {"new", "done"} => at = "done", at = "lost" => w.retries < MaxRetries
  PROVE  CallOk([w EXCEPT !.at = at])
BY DEF CallOk, CallType, Places

(* An entry the planner looks at gets its estimate and its identity.      *)
LEMMA PlannedFits ==
  ASSUME LearnInv, NEW c \in In("waiting"), NEW due, NEW at \in {"waiting", "running"}
  PROVE  LET w == IF c \in due /\ Stale(call[c], c) THEN Estimated(call[c], c) ELSE call[c]
         IN  CallOk([w EXCEPT !.ident = Identity(c), !.at = at])
<1> DEFINE w == IF c \in due /\ Stale(call[c], c) THEN Estimated(call[c], c) ELSE call[c]
<1>1. c \in Calls /\ call[c].at = "waiting" /\ CallOk(call[c])
  BY DEF In, LearnInv, CallsInv
<1>2. CallOk(w) /\ w.at = "waiting"
  <2>1. CASE w = call[c]
    BY <1>1, <2>1
  <2>2. CASE w = Estimated(call[c], c)
    <3>1. call[c] \in CallType
      BY <1>1 DEF CallOk
    <3> DEFINE e == Estimated(call[c], c)
    <3>2. /\ e \in CallType /\ e.est \in Twentieths /\ e.at = "waiting"
          /\ e.retries = call[c].retries /\ (e.floor # None => e.est >= e.floor)
      BY <1>1, <3>1, EstimatedFits DEF LearnInv
    <3> HIDE DEF e
    <3>3. CallOk(e)
      BY <3>2 DEF CallOk
    <3> QED
      BY <2>2, <3>2, <3>3 DEF e
  <2> QED
    BY <2>1, <2>2
<1> HIDE DEF w
<1>3. Identity(c) \in Buckets
  BY <1>1, KeyAssumption, ProfileFits DEF LearnInv, StoresInv, Identity
<1>4. CallOk([w EXCEPT !.ident = Identity(c), !.at = at])
  BY <1>2, <1>3 DEF CallOk, CallType, Places
<1> QED
  BY <1>4 DEF w

(* One call changes.                                                      *)
LEMMA OneCallFits ==
  ASSUME CallsInv, NEW c \in Calls, NEW w, CallOk(w), call' = [call EXCEPT ![c] = w]
  PROVE  CallsInv'
<1>1. DOMAIN call' = Calls /\ \A d \in Calls : call'[d] = IF d = c THEN w ELSE call[d]
  BY DEF CallsInv
<1> QED
  BY <1>1 DEF CallsInv

(* A hand holds a call whose state it knows.                              *)
LEMMA HeldFits ==
  ASSUME LearnInv, NEW th \in Threads, hand[th] # None
  PROVE  /\ hand[th].call \in Calls /\ CallOk(call[hand[th].call])
         /\ call[hand[th].call].at \in {"returned", "lost", "penalized"}
BY HandFits DEF LearnInv, CallsInv, HandsInv

(* Every step keeps the calls in order.                                   *)
LEMMA CallsStep ==
  ASSUME LearnInv, [Next]_vars
  PROVE  CallsInv'
<1>0. CallsInv
  BY DEF LearnInv
<1>1. ASSUME UNCHANGED call PROVE CallsInv'
  BY <1>0, <1>1 DEF CallsInv
<1>2. ASSUME NEW c \in Calls, Submit(c) PROVE CallsInv'
  <2> DEFINE e == Estimated(New, c)
             w == [e EXCEPT !.at = "waiting"]
  <2>1. /\ e \in CallType /\ e.est \in Twentieths
        /\ (e.floor # None => e.est >= e.floor)
    BY NewFits, EstimatedFits DEF LearnInv
  <2>2. call' = [call EXCEPT ![c] = w]
    BY <1>2 DEF Submit
  <2> HIDE DEF e
  <2>3. CallOk(w)
    BY <2>1 DEF CallOk, CallType, Places
  <2> HIDE DEF w
  <2> QED
    BY <1>0, <2>2, <2>3, OneCallFits
<1>3. ASSUME NEW due, NEW starts, Cycle(due, starts) PROVE CallsInv'
  <2> DEFINE at(c) == IF c \in starts THEN "running" ELSE "waiting"
             w(c) == IF c \in due /\ Stale(call[c], c) THEN Estimated(call[c], c) ELSE call[c]
             planned(c) == [w(c) EXCEPT !.ident = Identity(c), !.at = at(c)]
  <2>1. call' = [c \in Calls |-> IF c \notin In("waiting") THEN call[c] ELSE planned(c)]
    BY <1>3 DEF Cycle
  <2>2. \A c \in In("waiting") : CallOk(planned(c))
    BY PlannedFits
  <2> HIDE DEF planned
  <2> QED
    BY <1>0, <2>1, <2>2 DEF CallsInv
<1>4. ASSUME NEW th, NEW c \in Calls, NEW peak, NEW success, Collect(th, c, peak, success)
      PROVE  CallsInv'
  <2>1. call' = [call EXCEPT ![c] = [call[c] EXCEPT !.at = "returned"]] /\ call[c].at = "running"
    BY <1>4 DEF Collect
  <2>2. CallOk([call[c] EXCEPT !.at = "returned"])
    BY <1>0, <2>1, MoveFits DEF CallsInv, Places
  <2> QED
    BY <1>0, <2>1, <2>2, OneCallFits
<1>5. ASSUME NEW th \in Threads, NEW overdue, Record(th, overdue) PROVE CallsInv'
  <2> DEFINE c == hand[th].call
  <2>1. call' = [call EXCEPT ![c] = [call[c] EXCEPT !.at = "done"]]
    BY <1>5 DEF Record
  <2>2. c \in Calls /\ CallOk(call[c])
    BY <1>5, HeldFits DEF Record
  <2> HIDE DEF c
  <2>3. CallOk([call[c] EXCEPT !.at = "done"])
    BY <2>2, MoveFits DEF Places
  <2> QED
    BY <1>0, <2>1, <2>2, <2>3, OneCallFits
<1>6. ASSUME NEW c \in Calls, Lose(c) PROVE CallsInv'
  <2>1. /\ call[c].at = "running"
        /\ \/ call' = [call EXCEPT ![c] = [call[c] EXCEPT !.at = "done"]]
           \/ /\ ~ (call[c].retries >= MaxRetries)
              /\ call' = [call EXCEPT ![c] = [call[c] EXCEPT !.at = "lost"]]
    BY <1>6 DEF Lose
  <2>2. CallOk(call[c]) /\ call[c].retries \in Nat
    BY <1>0 DEF CallsInv, CallOk, CallType
  <2>3. CallOk([call[c] EXCEPT !.at = "done"])
    BY <2>1, <2>2, MoveFits DEF Places
  <2>4. ASSUME ~ (call[c].retries >= MaxRetries) PROVE CallOk([call[c] EXCEPT !.at = "lost"])
    <3>1. call[c].retries < MaxRetries
      BY <2>2, <2>4, RetriesAssumption
    <3> QED
      BY <2>1, <2>2, <3>1, MoveFits DEF Places
  <2> QED
    BY <1>0, <2>1, <2>3, <2>4, OneCallFits
<1>7. ASSUME NEW overdue, RaiseFloor(overdue) PROVE CallsInv'
  <2> DEFINE c == hand["dispatch"].call
             w == [call[c] EXCEPT !.at = "penalized", !.est = AtLeast(LeastEstimate, 2 * @),
                                  !.retries = @ + 1]
  <2>1. hand["dispatch"] # None /\ call[c].at = "lost"
    BY <1>7 DEF RaiseFloor
  <2>2. c \in Calls /\ CallOk(call[c])
    BY <2>1, HeldFits DEF Threads
  <2>3. DOMAIN call = Calls
    BY <1>0 DEF CallsInv
  <2>4. call' = [call EXCEPT ![c] = w]
    BY <1>7, <2>2, <2>3 DEF RaiseFloor
  <2> HIDE DEF c
  <2>5. call[c] \in CallType /\ call[c].retries < MaxRetries /\ call[c].est \in Twentieths
    BY <2>1, <2>2 DEF CallOk, Places
  <2>6. AtLeast(LeastEstimate, 2 * call[c].est) \in Twentieths
    BY <2>5 DEF AtLeast, LeastEstimate, Twentieths
  <2>7. call[c].retries + 1 \in 0 .. MaxRetries /\ call[c].retries + 1 # 0
    BY <2>5, RetriesAssumption DEF CallType
  <2>8. w = [call[c] EXCEPT !.at = "penalized", !.est = AtLeast(LeastEstimate, 2 * call[c].est),
                            !.retries = call[c].retries + 1]
    BY <2>5 DEF CallType
  <2>9. CallOk(w)
    BY <2>5, <2>6, <2>7, <2>8 DEF CallOk, CallType, Places
  <2> HIDE DEF w
  <2> QED
    BY <1>0, <2>2, <2>4, <2>9, OneCallFits
<1>8. CASE Requeue
  <2> DEFINE c == hand["dispatch"].call
  <2>1. hand["dispatch"] # None /\ call' = [call EXCEPT ![c] = [call[c] EXCEPT !.at = "waiting"]]
        /\ call[c].at = "penalized"
    BY <1>8 DEF Requeue
  <2>2. c \in Calls /\ CallOk(call[c])
    BY <2>1, HeldFits DEF Threads
  <2> HIDE DEF c
  <2>3. CallOk([call[c] EXCEPT !.at = "waiting"])
    BY <2>1, <2>2, MoveFits DEF Places
  <2> QED
    BY <1>0, <2>1, <2>2, <2>3, OneCallFits
<1>9. CASE Shutdown
  <2>1. call' = [c \in Calls |-> IF call[c].at \in {"new", "waiting"}
                                 THEN [call[c] EXCEPT !.at = "done"] ELSE call[c]]
    BY <1>9 DEF Shutdown
  <2>2. \A c \in Calls : CallOk([call[c] EXCEPT !.at = "done"])
    BY <1>0, MoveFits DEF CallsInv, Places
  <2> QED
    BY <1>0, <2>1, <2>2 DEF CallsInv
<1>10. ASSUME NEW readable, NewProcess(readable) PROVE CallsInv'
  <2>1. call' = [c \in Calls |-> IF call[c].at = "new" THEN New ELSE [New EXCEPT !.at = "done"]]
    BY <1>10 DEF NewProcess
  <2>2. DOMAIN call' = Calls /\ \A c \in Calls : call'[c] \in {New, [New EXCEPT !.at = "done"]}
    BY <2>1
  <2> QED
    BY <2>2, NewFits DEF CallsInv
<1> QED
  BY <1>1, <1>2, <1>3, <1>4, <1>5, <1>6, <1>7, <1>8, <1>9, <1>10
     DEF Next, vars, JoinThreads

-----------------------------------------------------------------------------
(* The hands.                                                               *)

(* Only a thread that took a call out of in_flight has it in hand.        *)
Held == {"returned", "lost", "penalized"}

(* A thread with a free hand takes a call nobody holds.                   *)
LEMMA TakeKeepsHands ==
  ASSUME LearnInv, NEW th \in Threads, hand[th] = None,
         NEW c \in Calls, call[c].at \notin Held,
         NEW h \in HandType, h.call = c, NEW w,
         hand' = [hand EXCEPT ![th] = h], call' = [call EXCEPT ![c] = w],
         \/ h.peak # None /\ w.at = "returned"
         \/ th = "dispatch" /\ w.at = "lost"
  PROVE  HandsInv'
<1>1. /\ hand' \in [Threads -> HandType \cup {None}]
      /\ \A u \in Threads : hand'[u] = IF u = th THEN h ELSE hand[u]
  BY DEF LearnInv, HandsInv
<1>2. \A d \in Calls : call'[d] = IF d = c THEN w ELSE call[d]
  BY DEF LearnInv, CallsInv
<1>3. \A u \in Threads : hand[u] # None => hand[u].call \in Calls \ {c}
  BY HeldFits DEF Held
<1>4. h # None
  BY ApartAssumption
<1>5. ASSUME NEW u \in Threads, hand'[u] # None
      PROVE  \/ hand'[u].peak # None /\ call'[hand'[u].call].at = "returned"
             \/ u = "dispatch" /\ call'[hand'[u].call].at \in {"lost", "penalized"}
  <2>1. CASE u = th
    BY <1>1, <1>2, <2>1
  <2>2. CASE u # th
    BY <1>1, <1>2, <1>3, <1>5, <2>2 DEF LearnInv, HandsInv
  <2> QED
    BY <2>1, <2>2
<1>6. ASSUME NEW d \in Calls, call'[d].at \in Held
      PROVE  \E u \in Threads : hand'[u] # None /\ hand'[u].call = d
  <2>1. CASE d = c
    BY <1>1, <1>4, <2>1
  <2>2. CASE d # c
    <3>1. PICK u \in Threads : hand[u] # None /\ hand[u].call = d
      BY <1>2, <1>6, <2>2 DEF LearnInv, HandsInv, Held
    <3> QED
      BY <1>1, <3>1
  <2> QED
    BY <2>1, <2>2
<1>7. \A u, v \in Threads :
        hand'[u] # None /\ hand'[v] # None /\ hand'[u].call = hand'[v].call => u = v
  BY <1>1, <1>3 DEF LearnInv, HandsInv
<1> QED
  BY <1>1, <1>5, <1>6, <1>7 DEF HandsInv, Held

(* A thread lets go of its call.                                          *)
LEMMA LetGoKeepsHands ==
  ASSUME LearnInv, NEW th \in Threads, hand[th] # None, NEW w, w.at \notin Held,
         hand' = [hand EXCEPT ![th] = None], call' = [call EXCEPT ![hand[th].call] = w]
  PROVE  HandsInv'
<1> DEFINE c == hand[th].call
<1>0. c \in Calls
  BY HeldFits
<1>1. /\ hand' \in [Threads -> HandType \cup {None}]
      /\ \A u \in Threads : hand'[u] = IF u = th THEN None ELSE hand[u]
  BY DEF LearnInv, HandsInv
<1>2. \A d \in Calls : call'[d] = IF d = c THEN w ELSE call[d]
  BY <1>0 DEF LearnInv, CallsInv
<1>3. \A u \in Threads \ {th} : hand[u] # None => hand[u].call # c
  BY DEF LearnInv, HandsInv
<1>4. \A u \in Threads : hand[u] # None => hand[u].call \in Calls
  BY HeldFits
<1> HIDE DEF c
<1>5. ASSUME NEW u \in Threads, hand'[u] # None
      PROVE  \/ hand'[u].peak # None /\ call'[hand'[u].call].at = "returned"
             \/ u = "dispatch" /\ call'[hand'[u].call].at \in {"lost", "penalized"}
  <2>1. u # th /\ hand'[u] = hand[u] /\ hand[u] # None
    BY <1>1, <1>5
  <2>2. call'[hand[u].call] = call[hand[u].call]
    BY <1>2, <1>3, <1>4, <2>1
  <2> QED
    BY <2>1, <2>2 DEF LearnInv, HandsInv
<1>6. ASSUME NEW d \in Calls, call'[d].at \in Held
      PROVE  \E u \in Threads : hand'[u] # None /\ hand'[u].call = d
  <2>1. d # c /\ call[d].at \in Held
    BY <1>2, <1>6
  <2>2. PICK u \in Threads : hand[u] # None /\ hand[u].call = d
    BY <2>1 DEF LearnInv, HandsInv, Held
  <2>3. u # th
    BY <2>1, <2>2 DEF c
  <2> QED
    BY <1>1, <2>2, <2>3
<1>7. \A u, v \in Threads :
        hand'[u] # None /\ hand'[v] # None /\ hand'[u].call = hand'[v].call => u = v
  BY <1>1 DEF LearnInv, HandsInv
<1> QED
  BY <1>1, <1>5, <1>6, <1>7 DEF HandsInv, Held

(* Where no hand takes or lets go, and no call in a hand moves.           *)
LEMMA SameHands ==
  ASSUME LearnInv, UNCHANGED hand,
         \A c \in Calls : call[c].at \in Held \/ call'[c].at \in Held => call'[c].at = call[c].at
  PROVE  HandsInv'
<1>1. \A th \in Threads : hand[th] # None => hand[th].call \in Calls /\ call[hand[th].call].at \in Held
  BY HeldFits DEF Held
<1> QED
  BY <1>1 DEF LearnInv, HandsInv, Held

(* Every step keeps the hands in order.                                   *)
LEMMA HandsStep ==
  ASSUME LearnInv, SaverInv, [Next]_vars
  PROVE  HandsInv'
<1>0. DOMAIN call = Calls /\ hand["caller"] = None /\ "dispatch" \in Threads
  BY DEF LearnInv, CallsInv, SaverInv, Threads
<1>1. ASSUME UNCHANGED <<call, hand>> PROVE HandsInv'
  BY <1>1, SameHands
<1>2. ASSUME NEW c \in Calls, Submit(c) PROVE HandsInv'
  <2> DEFINE e == Estimated(New, c)
             w == [e EXCEPT !.at = "waiting"]
  <2>1. e \in CallType
    BY NewFits, EstimatedFits DEF LearnInv
  <2>2. call' = [call EXCEPT ![c] = w] /\ UNCHANGED hand /\ call[c].at = "new"
    BY <1>2 DEF Submit
  <2> HIDE DEF e
  <2>3. w.at = "waiting"
    BY <2>1 DEF CallType
  <2> HIDE DEF w
  <2>4. \A d \in Calls : call'[d] = IF d = c THEN w ELSE call[d]
    BY <1>0, <2>2
  <2> QED
    BY <2>2, <2>3, <2>4, SameHands DEF Held
<1>3. ASSUME NEW due, NEW starts, Cycle(due, starts) PROVE HandsInv'
  <2> DEFINE at(c) == IF c \in starts THEN "running" ELSE "waiting"
             w(c) == IF c \in due /\ Stale(call[c], c) THEN Estimated(call[c], c) ELSE call[c]
             planned(c) == [w(c) EXCEPT !.ident = Identity(c), !.at = at(c)]
  <2>1. UNCHANGED hand
        /\ call' = [c \in Calls |-> IF c \notin In("waiting") THEN call[c] ELSE planned(c)]
    BY <1>3 DEF Cycle
  <2>2. ASSUME NEW c \in In("waiting") PROVE planned(c).at \in {"waiting", "running"}
    <3>1. c \in Calls /\ call[c] \in CallType
      BY <2>2 DEF In, LearnInv, CallsInv, CallOk
    <3>2. w(c) \in CallType
      BY <3>1, EstimatedFits DEF LearnInv
    <3> HIDE DEF w
    <3> QED
      BY <3>2 DEF CallType
  <2> HIDE DEF planned
  <2>3. \A c \in Calls : \/ call'[c] = call[c]
                         \/ call[c].at = "waiting" /\ call'[c].at \in {"waiting", "running"}
    BY <2>1, <2>2 DEF In
  <2> QED
    BY <2>1, <2>3, SameHands DEF Held
<1>4. ASSUME NEW th \in Threads, NEW c \in Calls, NEW peak \in Peaks, NEW success \in Successes,
             Collect(th, c, peak, success)
      PROVE  HandsInv'
  <2> DEFINE h == [call |-> c, peak |-> peak, success |-> success]
             w == [call[c] EXCEPT !.at = "returned"]
  <2>1. /\ call' = [call EXCEPT ![c] = w] /\ call[c].at = "running"
        /\ hand[th] = None /\ hand' = [hand EXCEPT ![th] = h]
    BY <1>4 DEF Collect
  <2>2. h \in HandType /\ h.call = c /\ h.peak # None
    BY PeaksAssumption, ApartAssumption DEF HandType
  <2>3. w.at = "returned"
    BY DEF LearnInv, CallsInv, CallOk, CallType
  <2> HIDE DEF h, w
  <2> QED
    BY <2>1, <2>2, <2>3, TakeKeepsHands DEF Held
<1>5. ASSUME NEW th \in Threads, NEW overdue, Record(th, overdue) PROVE HandsInv'
  <2> DEFINE w == [call[hand[th].call] EXCEPT !.at = "done"]
  <2>1. /\ hand[th] # None
        /\ hand' = [hand EXCEPT ![th] = None] /\ call' = [call EXCEPT ![hand[th].call] = w]
    BY <1>5 DEF Record
  <2>2. w.at = "done"
    BY <2>1, HeldFits DEF CallOk, CallType
  <2> HIDE DEF w
  <2> QED
    BY <2>1, <2>2, LetGoKeepsHands DEF Held
<1>6. ASSUME NEW c \in Calls, Lose(c) PROVE HandsInv'
  <2>1. call[c].at = "running" /\ hand["dispatch"] = None /\ call[c] \in CallType
    BY <1>6 DEF Lose, LearnInv, CallsInv, CallOk
  <2>2. CASE call' = [call EXCEPT ![c].at = "done"] /\ UNCHANGED hand
    <3>1. \A d \in Calls : \/ call'[d] = call[d]
                           \/ call[d].at = "running" /\ call'[d].at = "done"
      BY <1>0, <2>1, <2>2 DEF CallType
    <3> QED
      BY <2>2, <3>1, SameHands DEF Held
  <2>3. CASE /\ call' = [call EXCEPT ![c].at = "lost"]
             /\ hand' = [hand EXCEPT !["dispatch"] =
                           [call |-> c, peak |-> None, success |-> FALSE]]
    <3> DEFINE h == [call |-> c, peak |-> None, success |-> FALSE]
               w == [call[c] EXCEPT !.at = "lost"]
    <3>1. hand' = [hand EXCEPT !["dispatch"] = h] /\ call' = [call EXCEPT ![c] = w]
      BY <2>3
    <3>2. h \in HandType /\ h.call = c /\ w.at = "lost"
      BY <2>1 DEF HandType, CallType
    <3> HIDE DEF h, w
    <3> QED
      BY <1>0, <2>1, <3>1, <3>2, TakeKeepsHands DEF Held
  <2> QED
    BY <1>6, <2>2, <2>3 DEF Lose
<1>7. ASSUME NEW overdue, RaiseFloor(overdue) PROVE HandsInv'
  <2> DEFINE c == hand["dispatch"].call
             w == [call[c] EXCEPT !.at = "penalized", !.est = AtLeast(LeastEstimate, 2 * @),
                                  !.retries = @ + 1]
  <2>1. hand["dispatch"] # None /\ call[c].at = "lost" /\ UNCHANGED hand
    BY <1>7 DEF RaiseFloor
  <2>2. c \in Calls /\ CallOk(call[c])
    BY <1>0, <2>1, HeldFits
  <2>3. call' = [call EXCEPT ![c] = w]
    BY <1>0, <1>7, <2>2 DEF RaiseFloor
  <2>4. hand["dispatch"].peak = None \/ hand["dispatch"].peak # None
    OBVIOUS
  <2>5. w.at = "penalized"
    BY <2>2 DEF CallOk, CallType
  <2> HIDE DEF w
  <2>6. \A d \in Calls : call'[d] = IF d = c THEN w ELSE call[d]
    BY <1>0, <2>2, <2>3
  <2>7. \A u \in Threads : hand[u] # None /\ hand[u].call = c => u = "dispatch"
    BY <1>0, <2>1 DEF LearnInv, HandsInv
  <2>8. \A u \in Threads : hand[u] # None => hand[u].call \in Calls
    BY HeldFits
  <2> QED
    BY <1>0, <2>1, <2>2, <2>5, <2>6, <2>7, <2>8 DEF LearnInv, HandsInv
<1>8. CASE Requeue
  <2> DEFINE w == [call[hand["dispatch"].call] EXCEPT !.at = "waiting"]
  <2>1. /\ hand["dispatch"] # None
        /\ hand' = [hand EXCEPT !["dispatch"] = None]
        /\ call' = [call EXCEPT ![hand["dispatch"].call] = w]
    BY <1>8 DEF Requeue
  <2>2. w.at = "waiting"
    BY <1>0, <2>1, HeldFits DEF CallOk, CallType
  <2> HIDE DEF w
  <2> QED
    BY <1>0, <2>1, <2>2, LetGoKeepsHands DEF Held
<1>9. CASE Shutdown
  <2>1. UNCHANGED hand
        /\ call' = [c \in Calls |-> IF call[c].at \in {"new", "waiting"}
                                    THEN [call[c] EXCEPT !.at = "done"] ELSE call[c]]
    BY <1>9 DEF Shutdown
  <2>2. \A c \in Calls : call[c] \in CallType
    BY DEF LearnInv, CallsInv, CallOk
  <2>3. \A c \in Calls : \/ call'[c] = call[c]
                         \/ call[c].at \in {"new", "waiting"} /\ call'[c].at = "done"
    BY <2>1, <2>2 DEF CallType
  <2> QED
    BY <2>1, <2>3, SameHands DEF Held
<1>10. ASSUME NEW readable, NewProcess(readable) PROVE HandsInv'
  <2>1. /\ call' = [c \in Calls |-> IF call[c].at = "new" THEN New ELSE [New EXCEPT !.at = "done"]]
        /\ hand' = [th \in Threads |-> None]
    BY <1>10 DEF NewProcess
  <2>2. \A c \in Calls : call'[c].at \notin Held
    BY <2>1 DEF New, Held
  <2> QED
    BY <2>1, <2>2 DEF HandsInv, Held
<1> QED
  BY <1>1, <1>2, <1>3, <1>4, <1>5, <1>6, <1>7, <1>8, <1>9, <1>10
     DEF Next, vars, JoinThreads

-----------------------------------------------------------------------------
(* What holds of every state.                                               *)

(* The invariant holds at the start.                                      *)
LEMMA LearnInitially == Init => LearnInv
<1> SUFFICES ASSUME Init PROVE LearnInv
  OBVIOUS
<1>1. file \in Stores \cup {None} /\ persist \in BOOLEAN /\ (~ persist => file = None)
  BY FilesAssumption DEF Init, StoreInit, Stores
<1>2. StoresInv
  <2>1. store \in Stores
    BY <1>1, OpeningIs DEF Init, StoreInit
  <2>2. saver = [th \in Threads |-> None] /\ unsaved = 0 /\ restarts = 0
    BY DEF Init, StoreInit
  <2> QED
    BY <1>1, <2>1, <2>2, SaveEveryAssumption DEF StoresInv
<1>3. DOMAIN call = Calls /\ \A c \in Calls : call[c] \in {New, [New EXCEPT !.at = "done"]}
  BY DEF Init
<1>4. CallsInv
  BY <1>3, NewFits DEF CallsInv
<1>5. HandsInv
  <2>1. hand = [th \in Threads |-> None]
    BY DEF Init
  <2>2. \A c \in Calls : call[c].at \notin Held
    BY <1>3 DEF New, Held
  <2> QED
    BY <2>1, <2>2 DEF HandsInv, Held
<1> QED
  BY <1>2, <1>4, <1>5 DEF LearnInv

(* It always holds.                                                       *)
LEMMA LearnAlways == Spec => [](LearnInv /\ SaverInv)
<1>1. Init => LearnInv /\ SaverInv
  BY LearnInitially, SaverInitially
<1>2. LearnInv /\ SaverInv /\ [Next]_vars => LearnInv' /\ SaverInv'
  <2>1. ASSUME LearnInv, SaverInv, [Next]_vars PROVE LearnInv'
    <3>1. StoresInv' /\ CallsInv' /\ HandsInv'
      BY <2>1, StoresStep, CallsStep, HandsStep
    <3> QED
      BY <3>1 DEF LearnInv
  <2>2. ASSUME SaverInv, [Next]_vars PROVE SaverInv'
    BY <2>2, SaverStep
  <2> QED
    BY <2>1, <2>2
<1> QED
  BY <1>1, <1>2, PTL DEF Spec

(* Every variable has its type; a call has an estimate as long as it is       *)
(* queued or in flight, and some thread has it in hand exactly when it is   *)
(* neither (adaptive_executor.py:949-988, 1132-1165).                       *)
THEOREM LearningTypes == Spec => []TypeOK
<1>1. LearnInv /\ SaverInv => TypeOK
  <2> SUFFICES ASSUME LearnInv, SaverInv PROVE TypeOK
    OBVIOUS
  <2>1. /\ store \in [Buckets -> LearnedProfile]
        /\ unsaved \in Nat /\ (persist => unsaved < SaveEvery)
        /\ ~ persist => file = None /\ \A th \in Threads : saver[th] = None
    BY DEF LearnInv, StoresInv, Stores
  <2>2. saveLock # None => saver[saveLock] # None
    BY DEF SaverInv
  <2>3. ASSUME NEW c \in Calls
        PROVE  /\ call[c].at \in Places
               /\ call[c].at \in Places \ {"new", "done"} => call[c].est \in Twentieths
               /\ call[c].retries \in 0 .. MaxRetries
               /\ call[c].at \in {"returned", "lost", "penalized"} <=>
                    \E th \in Threads : hand[th] # None /\ hand[th].call = c
    <3>1. CallOk(call[c])
      BY DEF LearnInv, CallsInv
    <3>2. \A th \in Threads :
            hand[th] # None => call[hand[th].call].at \in {"returned", "lost", "penalized"}
      BY HeldFits
    <3>3. call[c].at \in {"returned", "lost", "penalized"} =>
            \E th \in Threads : hand[th] # None /\ hand[th].call = c
      BY DEF LearnInv, HandsInv
    <3>4. /\ call[c].at \in Places /\ call[c].retries \in 0 .. MaxRetries
          /\ call[c].at \in Places \ {"new", "done"} => call[c].est \in Twentieths
      BY <3>1 DEF CallOk, CallType
    <3> QED
      BY <3>2, <3>3, <3>4
  <2> QED
    BY <2>1, <2>2, <2>3 DEF TypeOK
<1> QED
  BY <1>1, LearnAlways, PTL

(* An entry that re-estimation skips carries the stamp of its profile's       *)
(* floor, and no estimate is below the floor it was stamped with            *)
(* (adaptive_executor.py:422-456).                                          *)
THEOREM SkippedEntriesAreProtected == Spec => []SkippedKeepsFloor
<1>1. LearnInv /\ SaverInv => SkippedKeepsFloor
  BY DEF LearnInv, CallsInv, CallOk, SkippedKeepsFloor, Stale, In
<1> QED
  BY <1>1, LearnAlways, PTL

-----------------------------------------------------------------------------
(* What no step does to the profiles.                                       *)

(* The store only changes by an observation, by a floor and by a restart. *)
LEMMA StoreChanges ==
  ASSUME LearnInv, [Next]_vars, store' # store, restarts' = restarts
  PROVE  \/ \E key \in Buckets, o \in Peaks : store' = Recorded(store, key, o)
         \/ \E key \in Buckets, f \in Twentieths : store' = FloorRecorded(store, key, f)
<1>1. ASSUME NEW th \in Threads, NEW overdue, Record(th, overdue)
      PROVE  \E key \in Buckets, o \in Peaks : store' = Recorded(store, key, o)
  <2>1. hand[th] # None /\ hand[th].peak # None
        /\ store' = Recorded(store, Key[hand[th].call], hand[th].peak)
    BY <1>1 DEF Record, Update
  <2>2. Key[hand[th].call] \in Buckets /\ hand[th].peak \in Peaks
    BY <2>1, HandFits DEF LearnInv
  <2> QED
    BY <2>1, <2>2
<1>2. ASSUME NEW overdue, RaiseFloor(overdue)
      PROVE  \E key \in Buckets, f \in Twentieths : store' = FloorRecorded(store, key, f)
  <2> DEFINE c == hand["dispatch"].call
  <2>1. store' = FloorRecorded(store, Key[c], call[c].est)
    BY <1>2 DEF RaiseFloor, Update
  <2>2. Key[c] \in Buckets /\ call[c].est \in Twentieths
    BY <1>2, RaiseMakesStore
  <2> HIDE DEF c
  <2> QED
    BY <2>1, <2>2
<1>3. ASSUME NEW readable, NewProcess(readable) PROVE FALSE
  BY <1>3 DEF NewProcess, Restart, LearnInv, StoresInv
<1> QED
  BY <1>1, <1>2, <1>3
     DEF Next, SaveStep, vars, profileVars, storeVars, Submit, Lose, Cycle, Collect, Requeue,
         Shutdown, Stop, JoinThreads, Join, BeginSave, ReplaceFile, FailSave, EndSave, Flush

(* A restart loads the file as it is, or nothing of it                        *)
(* (profiles.py:380-409).                                                   *)
THEOREM RestartLoadsTheFile == Spec => RestartsFromFile
<1>1. LearnInv /\ [Next]_vars => [restarts' # restarts => store' \in {EmptyStore, file}]_vars
  <2> SUFFICES ASSUME LearnInv, [Next]_vars, restarts' # restarts
               PROVE  store' \in {EmptyStore, file}
    OBVIOUS
  <2>1. ASSUME NEW th \in Threads, NEW overdue, Record(th, overdue) PROVE FALSE
    BY <2>1 DEF Record, Update
  <2>2. ASSUME NEW overdue, RaiseFloor(overdue) PROVE FALSE
    BY <2>2 DEF RaiseFloor, Update
  <2>3. PICK readable : Restart(readable)
    BY <2>1, <2>2
       DEF Next, SaveStep, vars, profileVars, Submit, Lose, Cycle, Collect, Requeue, Shutdown,
           Stop, JoinThreads, Join, BeginSave, ReplaceFile, FailSave, EndSave, Flush, NewProcess
  <2>4. store' \in {EmptyStore, Opening(file)}
    BY <2>3 DEF Restart
  <2> QED
    BY <2>4, OpeningIs DEF LearnInv, StoresInv
<1> QED
  BY <1>1, LearnAlways, PTL DEF Spec, RestartsFromFile

(* An update takes no observation away from the profile a key draws from. *)
LEMMA WarmStays ==
  ASSUME NEW s \in Stores, NEW t \in Stores, NEW k \in Buckets,
         Samples(Profile(s, k)) > 0,
         \A x \in Buckets : Len(s[x].obs) > 0 => Len(t[x].obs) > 0
  PROVE  Samples(Profile(t, k)) > 0
<1>1. \A x \in Buckets : s[x].obs \in Seq(Peaks) /\ t[x].obs \in Seq(Peaks)
  BY DEF Stores, LearnedProfile
<1>2. \A x \in Buckets : (s[x].obs # <<>> <=> Len(s[x].obs) > 0)
                         /\ (t[x].obs # <<>> <=> Len(t[x].obs) > 0)
  BY <1>1, EmptySeq
<1>3. Base \in Buckets
  BY DEF Buckets
<1> QED
  BY <1>2, <1>3 DEF Profile, Selected, Samples

(* Within a process a key that is estimated from observations stays so        *)
(* (profiles.py:189-246).                                                   *)
THEOREM WarmKeysStayWarm == Spec => StaysWarm
<1> DEFINE Keeps == restarts' = restarts =>
             \A k \in Buckets : Samples(Profile(store, k)) > 0 => Samples(Profile(store', k)) > 0
<1>1. ASSUME LearnInv, LearnInv', [Next]_vars, restarts' = restarts,
             NEW k \in Buckets, Samples(Profile(store, k)) > 0
      PROVE  Samples(Profile(store', k)) > 0
  <2>0. store \in Stores /\ store' \in Stores
    BY <1>1 DEF LearnInv, StoresInv
  <2>1. CASE store' = store
    BY <1>1, <2>1
  <2>2. ASSUME NEW key \in Buckets, NEW o \in Peaks, store' = Recorded(store, key, o)
        PROVE  \A x \in Buckets : Len(store[x].obs) > 0 => Len(store'[x].obs) > 0
    <3>1. \A x \in Buckets : store[x] \in LearnedProfile
      BY <2>0 DEF Stores
    <3>2. \A x \in Buckets : Len(Add(store[x], o).obs) > 0
      BY <3>1, AddKeeps
    <3>3. \A x \in Buckets : store'[x] = IF x \in {Base, key} THEN Add(store[x], o) ELSE store[x]
      BY <2>0, <2>2, RecordedIs
    <3> QED
      BY <3>2, <3>3
  <2>3. ASSUME NEW key \in Buckets, NEW f \in Twentieths, store' = FloorRecorded(store, key, f)
        PROVE  \A x \in Buckets : Len(store[x].obs) > 0 => Len(store'[x].obs) > 0
    <3>1. \A x \in Buckets : store[x] \in LearnedProfile
      BY <2>0 DEF Stores
    <3>2. \A x \in Buckets : SetFloor(store[x], f).obs = store[x].obs
      BY <3>1, FloorKeeps
    <3>3. \A x \in Buckets :
            store'[x] = IF x \in {Base, key} THEN SetFloor(store[x], f) ELSE store[x]
      BY <2>0, <2>3, FloorRecordedIs
    <3> QED
      BY <3>2, <3>3
  <2>4. CASE store' # store
    <3>1. \A x \in Buckets : Len(store[x].obs) > 0 => Len(store'[x].obs) > 0
      BY <1>1, <2>2, <2>3, <2>4, StoreChanges
    <3> QED
      BY <1>1, <2>0, <3>1, WarmStays
  <2> QED
    BY <2>1, <2>4
<1>2. LearnInv /\ LearnInv' /\ [Next]_vars => [Keeps]_vars
  BY <1>1
<1> QED
  BY <1>2, LearnAlways, PTL DEF Spec, StaysWarm

(* Within a process a floor only rises, until enough of the latest            *)
(* observations are small (profiles.py:64-97, 281-313).                     *)
THEOREM FloorsOnlyRise == Spec => FloorsRatchet
<1> DEFINE Rises(k) == store[k].floor # None =>
             IF store'[k].floor = None THEN Recovered(store'[k].obs, store[k].floor)
                                       ELSE store'[k].floor >= store[k].floor
<1>1. ASSUME LearnInv, [Next]_vars, restarts' = restarts, NEW k \in Buckets
      PROVE  Rises(k)
  <2>0. store \in Stores
    BY <1>1 DEF LearnInv, StoresInv
  <2>1. store[k] \in LearnedProfile /\ store[k].floor \in Twentieths \cup {None}
    BY <2>0 DEF Stores, LearnedProfile
  <2>2. CASE store' = store \/ store'[k] = store[k]
    BY <2>1, <2>2 DEF Twentieths
  <2>3. ASSUME NEW key \in Buckets, NEW o \in Peaks, store' = Recorded(store, key, o)
        PROVE  Rises(k)
    <3>1. store'[k] = IF k \in {Base, key} THEN Add(store[k], o) ELSE store[k]
      BY <2>0, <2>3, RecordedIs
    <3> DEFINE p == Add(store[k], o)
    <3>2. p.floor = IF Recovered(p.obs, store[k].floor) THEN None ELSE store[k].floor
      BY <2>1, AddKeeps
    <3> HIDE DEF p
    <3>3. CASE store'[k] = p
      BY <2>1, <3>2, <3>3 DEF Twentieths
    <3> QED
      BY <2>2, <3>1, <3>3 DEF p
  <2>4. ASSUME NEW key \in Buckets, NEW f \in Twentieths, store' = FloorRecorded(store, key, f)
        PROVE  Rises(k)
    <3>1. store'[k] = IF k \in {Base, key} THEN SetFloor(store[k], f) ELSE store[k]
      BY <2>0, <2>4, FloorRecordedIs
    <3>2. /\ SetFloor(store[k], f).floor # None
          /\ store[k].floor # None => SetFloor(store[k], f).floor >= store[k].floor
      BY <2>1, FloorKeeps
    <3> QED
      BY <2>2, <3>1, <3>2
  <2> QED
    BY <1>1, <2>2, <2>3, <2>4, StoreChanges
<1>2. LearnInv /\ [Next]_vars => [restarts' = restarts => \A k \in Buckets : Rises(k)]_vars
  BY <1>1
<1> QED
  BY <1>2, LearnAlways, PTL DEF Spec, FloorsRatchet
==============================================================================
