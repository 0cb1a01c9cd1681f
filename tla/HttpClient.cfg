\* Two threads with two requests each over two proxies, one of them reserved.
SPECIFICATION Spec
CONSTANTS
  NProxies = 2
  Reserved = 1
  Ban = 1
  StickyTtl = 1
  Strategies = {"sticky_by_host"}
  Hosts = {"tender", "site"}
  Sources = {"bicotender", "company_site"}
  Priority = {"bicotender"}
  Protected = {"company_site"}
  Assisted = {"bicotender", "company_site"}
  Threads = {"t1", "t2"}
  HostOf <- MCHostOf
  Bound = {"bicotender"}
  MinDelay = 1
  Cooldown429 = 1
  CooldownBot = 1
  InsecureTls = TRUE
  Given = {1}
  MaxRequests = 3
INVARIANTS
  ReserveHeld
  ProxiesInTurn
PROPERTIES
  HostIsSpared
CHECK_DEADLOCK FALSE
