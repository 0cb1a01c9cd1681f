CONSTANTS
  NCompanies = 1
  QueueLimit = 1
  MaxFailures = 2
  Reprocess = TRUE
  CrashInReset = FALSE
SPECIFICATION Spec
INVARIANTS
  StoredResultIsOfUnit
