SPECIFICATION Spec
CONSTANTS
  a = a
  b = b
  c = c
  d = d
  w1 = w1
  w2 = w2
  w3 = w3
  MaxWorkers = 3
  GpuOrder <- NoGpu
  Never = 1
  None = None
  Queues <- Twice
  Estimate <- TwoBig
  Peak <- TwoBig
  Workers = {w1, w2, w3}
  Pin <- NoPin
  Mem = "memory"
  Budget <- Tight
  Keeps = {0}
CHECK_DEADLOCK FALSE
INVARIANT HeadroomPreserved
