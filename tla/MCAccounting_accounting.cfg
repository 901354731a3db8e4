SPECIFICATION Spec
CONSTANTS
  a = a
  b = b
  c = c
  d = d
  w1 = w1
  w2 = w2
  w3 = w3
  MaxWorkers = 3
  GpuOrder <- OneGpu
  Never = 1
  None = None
  Queues <- Lines
  Estimate <- Estimates
  Peak <- Overrun
  Workers = {w1, w2, w3}
  Pin <- TwoPinned
  Mem = "memory"
  Budget <- Narrow
  Keeps = {0, 1}
CHECK_DEADLOCK FALSE
INVARIANT TypeOK
INVARIANT FreshAccountingIsExact
PROPERTY AdmissionFits
