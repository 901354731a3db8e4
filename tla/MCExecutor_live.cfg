SPECIFICATION FairSpec
CONSTANTS
  a = a
  b = b
  c = c
  Tasks = {a, c}
  Fn <- OwnFn
  Unlearned <- OnGpu
  Learned <- OnGpuShort
  Hinted = {}
  Memory = 4
  Vram <- OneVram
  MaxWorkers = 1
  GpuOrder <- OneGpu
  Never = 2
  None = None
  OnTimeouts = {"kill_worker"}
  MaxRetries = 1
  Recycle = None
  Waits = {TRUE}
  Raises = {}
  Slow = {a}
  Hung = {a}
  Cancels = {}
  Shutdowns = FALSE
  CrashExits = {"oom"}
  MaxCrashes = 1
  MaxSpawns = 3
CHECK_DEADLOCK FALSE
PROPERTY EveryTaskSettles
