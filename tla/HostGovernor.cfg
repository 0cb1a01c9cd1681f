\* Three tasks with overlapping needs, and the main thread, which fetches
\* without a lease.
SPECIFICATION FairSpec
CONSTANTS
  Labels = {}
  LedgerLimit = 2
  Second = 2
  Tasks = {1, 2, 3}
  Hosts <- MCHosts
  HostsOf <- MCHostsOf
  Cooldowns = {3}
  EarlierMemory <- MCEarlier
  MaxTime = 1
  MaxMemory = 1
INVARIANTS
  HostExclusive
PROPERTIES
  CooldownRespected
  EveryWaitEnds
CHECK_DEADLOCK FALSE
