CONSTANTS
  NCompanies = 1
  QueueLimit = 1
  MaxFailures = 2
  Reprocess = TRUE
  CrashInReset = TRUE
  Company = 1
  None = None
  Names = {"before", "after"}
  Materials <- MCMaterials
SPECIFICATION LDSpec
INVARIANTS
  ReferenceHolds
  DirectoryIsSound
  ReadIsWritten
