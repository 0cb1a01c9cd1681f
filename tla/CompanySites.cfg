SPECIFICATION Spec
CONSTANTS
  Home <- MCHome
  Url <- MCUrl
  Documents = {"apdf", "adup", "azip"}
  Links <- MCLinks
  Guessed <- MCGuessed
  FamilyOrder <- MCFamilyOrder
  Weight <- MCWeight
  Bonus <- MCBonus
  FamilyLimit <- MCFamilyLimit
  DepthLimit <- MCDepthLimit
  PathLimit <- MCPathLimit
  HostLimit = 4
  Groups <- MCGroups
  GlobalBudget = 4
  MaxRanked = 3
  MaxDiscoveryPages = 2
  MaxSubdomainChecks = 2
  Probes <- MCProbes
  File <- MCFile
  Content <- MCContent
  Type <- MCType
  MaxLinksPerPage = 2
  MaxQueueItems = 3
  MaxItemBytes = 0
  MaxTotalBytes = 3
  MaxPerType = 2
  MaxArchiveDepth = 2
  Serve <- MCServe
  Flaky = {"azip"}
  SignalCap <- MCSignalCap
  MaxSites = 2
  MaxRoutesPerSite = 3
  BrowserEnabled = TRUE
  KeyOf <- MCKeyOf
  SectionOf <- MCSectionOf
  Lead <- MCLead
  Companies <- MCCompanies
  DryRuns <- MCDryRuns
  Overlap <- MCOverlap
  DomainOrder <- MCDomainOrder
  FrontPage <- MCFrontPage
  Extra <- MCExtra
  GeoSignals <- MCGeoSignals
  AllowedBuckets = {"core"}
  Answers <- MCAnswers
  RunCap = 3
  OthersCalls = 2
  CompanyCap = 2
  LlmEnabled = TRUE
INVARIANTS
  HeavyOnlyIfTrusted
  SitesAreJudged
  CrawlAccounted
  BudgetsAddUp
CHECK_DEADLOCK FALSE
