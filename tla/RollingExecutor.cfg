\* Downstream preparation with host leases; the consumer takes in row order
\* and now and then whatever is ready.
SPECIFICATION FairSpec
CONSTANTS
  PerWorker = 1
  QueueMin = 1
  QueueMax = 1
  SurfaceMax = 1
  NRows = 5
  Workers = 2
  ReadyLimit = 3
  Hosts <- MCHosts
  HostsOf <- MCHostsOf
  HasDownstream = TRUE
  SkipRows = {}
  UseTakeReady = TRUE
INVARIANTS
  RowConservation
  NoStuckTaker
  DrainSucceeds
PROPERTIES
  Termination
CHECK_DEADLOCK FALSE
