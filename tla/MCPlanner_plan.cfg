SPECIFICATION MCSpec
CONSTANTS
  MaxWorkers = 3
  GpuOrder <- ThreeGpus
  Never = 3
  None = None
  PendingEntries <- Pendings
  RunningEntries <- Runnings
  Capacities <- Capacity
  KnownGpus = {1, 2}
  MaxQueue = 3
CHECK_DEADLOCK FALSE
INVARIANT TypeOK
INVARIANT HeadKeepsReservation
INVARIANT ExclusiveRunsAlone
INVARIANT OneColdPerIdentity
INVARIANT WithinCapacity
INVARIANT InfiniteReservationAdmitsNothing
