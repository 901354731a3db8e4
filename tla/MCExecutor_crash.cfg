SPECIFICATION Spec
CONSTANTS
  a = a
  b = b
  c = c
  Tasks = {a, b}
  Fn <- SameFn
  Unlearned <- Small
  Learned <- SmallShort
  Hinted = {b}
  Memory = 4
  Vram <- NoVram
  MaxWorkers = 2
  GpuOrder <- NoGpus
  Never = 2
  None = None
  OnTimeouts = {"fail_future"}
  MaxRetries = 1
  Recycle = None
  Waits = {TRUE}
  Raises = {}
  Slow = {}
  Hung = {}
  Cancels = {b}
  Shutdowns = FALSE
  CrashExits = {"oom", "error"}
  MaxCrashes = 2
  MaxSpawns = 4
CHECK_DEADLOCK FALSE
INVARIANT TypeOK
INVARIANT EveryTaskHasOneHome
INVARIANT InFlightIsWatched
INVARIANT ExclusiveAloneInFlight
INVARIANT CancelledNeverRuns
PROPERTY PenaltyIsKept
PROPERTY ImplementsTaskLifecycle
