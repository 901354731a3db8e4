SPECIFICATION Spec
CONSTANTS
  a = a
  b = b
  c = c
  Tasks = {a, b}
  Fn <- OwnFn
  Unlearned <- Small
  Learned <- SmallShort
  Hinted = {}
  Memory = 4
  Vram <- NoVram
  MaxWorkers = 2
  GpuOrder <- NoGpus
  Never = 2
  None = None
  OnTimeouts = {"fail_future", "kill_worker"}
  MaxRetries = 1
  Recycle = 1
  Waits = {TRUE}
  Raises = {b}
  Slow = {a, b}
  Hung = {a}
  Cancels = {}
  Shutdowns = FALSE
  CrashExits = {"oom", "error"}
  MaxCrashes = 1
  MaxSpawns = 3
CHECK_DEADLOCK FALSE
INVARIANT EveryTaskHasOneHome
INVARIANT InFlightIsWatched
 
INVARIANT IdleWorkersAreFree
PROPERTY ImplementsTaskLifecycle
