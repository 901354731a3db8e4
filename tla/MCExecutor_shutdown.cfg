SPECIFICATION Spec
CONSTANTS
  a = a
  b = b
  c = c
  Tasks = {a, b}
  Fn <- OwnFn
  Unlearned <- Small
  Learned <- SmallShort
  Hinted = {}
  Memory = 4
  Vram <- NoVram
  MaxWorkers = 2
  GpuOrder <- NoGpus
  Never = 2
  None = None
  OnTimeouts = {"fail_future"}
  MaxRetries = 1
  Recycle = None
  Waits = {TRUE, FALSE}
  Raises = {}
  Slow = {}
  Hung = {}
  Cancels = {a}
  Shutdowns = TRUE
  CrashExits = {"oom"}
  MaxCrashes = 1
  MaxSpawns = 3
CHECK_DEADLOCK FALSE
 
 
INVARIANT ShutdownWaitsForWork
 
