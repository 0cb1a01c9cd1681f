\* Two companies, the deque of a prefetch pool, two failures, no retries.
CONSTANTS
  NCompanies = 2
  QueueLimit = 2
  MaxFailures = 2
  Reprocess = FALSE
  CrashInReset = FALSE
SPECIFICATION FairSpec
INVARIANTS
  EvidenceMirrorsUnits
  AdmittedIsRecoverable
  AnnouncedExactlyOnce
  SessionsComplete
  ResultIsCurrent
PROPERTIES
  ImplementsLifecycle
  EventuallyAllStored
