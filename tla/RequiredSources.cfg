\* Three rows (a cap of two), three runs with kills.
SPECIFICATION Spec
CONSTANTS
  NRows = 3
  Orders <- MCOrders
  FailuresSeen <- MCFailures
  TenderPagesSeen <- MCTenderPages
  NBatches = 2
  MaxRuns = 3
CHECK_DEADLOCK FALSE
INVARIANTS
  DeferralIsSafe
  LookupIsHonest
