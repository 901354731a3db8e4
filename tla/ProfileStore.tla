---------------------------- MODULE ProfileStore ----------------------------
(***************************************************************************)
(* ProfileStore (profiles.py): the profiles in memory, the file on disk,   *)
(* and the threads that save one to the other.                             *)
(*                                                                         *)
(* A thread updates the store and decides whether to save in one critical  *)
(* section of the store lock; it then leaves with a snapshot and waits for *)
(* the save lock, writes a temporary file and renames it over the real     *)
(* one.  The process may be killed at any moment; the next one starts from *)
(* whatever the file is then.  That save_interval_seconds have elapsed may *)
(* be found at any update.                                                 *)
(*                                                                         *)
(* Updates and Stop, Join leave to the module that extends this one what   *)
(* else happens in their steps (Learning).                                 *)
(***************************************************************************)
EXTENDS Profiles

CONSTANTS Keys,         \* the profile keys in use
          Files,        \* files earlier processes may have left
          SaveEvery,    \* save_every_n
          MaxRestarts   \* bound on the restarts of the process

ASSUME SaveEveryAssumption == SaveEvery \in Nat \ {0}
ASSUME KeysAssumption == None \notin Keys

Buckets == {Base} \cup Keys
Threads == {"collector", "dispatch", "caller"}
EmptyStore == [k \in Buckets |-> Empty]

ASSUME NoneAssumption == None \notin Threads

VARIABLES
  persist,   \* whether persist_path is set
  store,     \* profiles
  unsaved,   \* _pending_since_save
  saver,     \* the snapshot each thread is about to write, or None
  saveLock,  \* the thread in _write_atomic, or None
  file,      \* the content of persist_path, None while there is none
  phase,     \* "open", "stopping", "joined", "flushing", "closed"
  gaveUp,    \* history: the join of some thread timed out
  failed,    \* history: the write of the last flush failed
  restarts,  \* how often the process was restarted
  known      \* history: the contents a store has had

storeVars == <<store, unsaved, known>>
saveVars == <<saver, saveLock, file>>
exitVars == <<phase, gaveUp, failed>>
profileVars == <<persist, storeVars, saveVars, exitVars, restarts>>

\* _load, at the construction of the store.
Opening(content) ==
  IF content = None THEN EmptyStore ELSE [k \in Buckets |-> Loaded(content[k])]

StoreInit ==
  /\ persist \in BOOLEAN
  /\ file \in IF persist THEN {None} \cup Files ELSE {None}
  /\ store = Opening(file)
  /\ unsaved = 0
  /\ saver = [th \in Threads |-> None]
  /\ saveLock = None
  /\ phase = "open" /\ gaveUp = FALSE /\ failed = FALSE
  /\ restarts = 0
  /\ known = {EmptyStore, store}

-----------------------------------------------------------------------------
(* Updates and the decision to save.                                        *)

\* The critical section of record and record_memory_floor; overdue is that the
\* interval has elapsed since the last save.
Update(th, s, overdue) ==
  LET saves == persist /\ (unsaved + 1 >= SaveEvery \/ overdue) IN
    /\ saver[th] = None
    /\ store' = s
    /\ known' = IF persist THEN known \cup {s} ELSE known
    /\ unsaved' = IF saves THEN 0 ELSE unsaved + 1
    /\ saver' = IF saves THEN [saver EXCEPT ![th] = s] ELSE saver
    /\ UNCHANGED <<persist, saveLock, file, exitVars, restarts>>

-----------------------------------------------------------------------------
(* _persist_snapshot and _write_atomic.                                     *)

OpenedInPlaceBug == None
Opened == file

\* The save lock is taken and a temporary file opened.
BeginSave(th) ==
  /\ saver[th] # None
  /\ saveLock = None
  /\ saveLock' = th
  /\ file' = Opened
  /\ UNCHANGED <<persist, storeVars, saver, exitVars, restarts>>

EndSave(th) ==
  /\ saveLock = th
  /\ saveLock' = None
  /\ saver' = [saver EXCEPT ![th] = None]
  /\ phase' = IF th = "caller" THEN "closed" ELSE phase
  /\ UNCHANGED <<persist, storeVars, gaveUp, restarts>>

\* The temporary file is complete and renamed.
ReplaceFile(th) ==
  /\ EndSave(th)
  /\ file' = saver[th]
  /\ UNCHANGED failed

\* An error is logged; what the snapshot held does not count as unsaved.
FailSave(th) ==
  /\ EndSave(th)
  /\ failed' = (failed \/ th = "caller")
  /\ UNCHANGED file

-----------------------------------------------------------------------------
(* shutdown: the background threads are joined, then flush saves all.       *)

Stop ==
  /\ phase = "open"
  /\ phase' = "stopping"
  /\ UNCHANGED <<persist, storeVars, saveVars, gaveUp, failed, restarts>>

\* quiet: the background threads have ended.  Each is waited for two seconds.
Join(quiet) ==
  /\ phase = "stopping"
  /\ phase' = "joined"
  /\ gaveUp' = ~ quiet
  /\ UNCHANGED <<persist, storeVars, saveVars, failed, restarts>>

FlushDueBug == persist /\ unsaved > 0
FlushDue == persist

Flush ==
  /\ phase = "joined"
  /\ IF FlushDue
       THEN /\ saver' = [saver EXCEPT !["caller"] = store]
            /\ unsaved' = 0
            /\ phase' = "flushing"
       ELSE /\ phase' = "closed"
            /\ UNCHANGED <<saver, unsaved>>
  /\ UNCHANGED <<persist, store, known, saveLock, file, gaveUp, failed, restarts>>

-----------------------------------------------------------------------------
(* The process ends, cleanly or not, and another one loads the file.        *)

\* A file that is missing or cannot be read or parsed leaves the store empty.
Restart(readable) ==
  /\ restarts < MaxRestarts
  /\ restarts' = restarts + 1
  /\ store' = IF persist /\ readable THEN Opening(file) ELSE EmptyStore
  /\ unsaved' = 0
  /\ saver' = [th \in Threads |-> None] /\ saveLock' = None
  /\ known' = IF persist THEN known \cup {store'} ELSE known
  /\ phase' = "open" /\ gaveUp' = FALSE /\ failed' = FALSE
  /\ UNCHANGED <<persist, file>>

SaveStep ==
  \/ \E th \in Threads : BeginSave(th) \/ ReplaceFile(th) \/ FailSave(th)
  \/ Flush
=============================================================================
