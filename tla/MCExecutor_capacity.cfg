SPECIFICATION Spec
CONSTANTS
  a = a
  b = b
  c = c
  Tasks = {a, b, c}
  Fn <- OwnFn
  Unlearned <- OnGpus
  Learned <- OnGpuShort
  Hinted = {}
  Memory = 4
  Vram <- TwoVram
  MaxWorkers = 2
  GpuOrder <- TwoGpus
  Never = 2
  None = None
  OnTimeouts = {"fail_future"}
  MaxRetries = 1
  Recycle = 2
  Waits = {TRUE}
  Raises = {}
  Slow = {b}
  Hung = {}
  Cancels = {}
  Shutdowns = FALSE
  CrashExits = {"oom", "error"}
  MaxCrashes = 0
  MaxSpawns = 3
CHECK_DEADLOCK FALSE
INVARIANT OneCanaryPerProfile
INVARIANT InFlightFitsMachine
INVARIANT PoolWithinCap
