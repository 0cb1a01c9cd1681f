SPECIFICATION FetchSpec
CONSTANTS
  Fetchers = {"main", "worker"}
  Buffered = {"worker"}
  HostsOf <- MCHostsOf
  Labels = {p, q}
  LedgerLimit = 5
  Second = 1
  Routes <- MCRoutes
  Pages <- MCPages
  Cooldowns <- MCCooldowns
  DefaultCooldown <- MCDefault
  ClientCooldown = 1
  MaxAttempts = 2
  PlaywrightEnabled = TRUE
  SessionTtl = 1
  MaxFetches = 2
  MaxNow = 1
SYMMETRY MCSymmetry
INVARIANTS
  RestartKeepsCaution
  MemoryTellsTheTruth
PROPERTIES
  BlockedProxyIsAvoided
  CoolingHostIsSpared
CHECK_DEADLOCK FALSE
