SPECIFICATION Spec
CONSTANTS
  NCompanies = 1
  Workers = {"w1"}
  MaxCalls = 1
  MaxTime = 3
  MaxRestarts = 1
  Threshold = 0
INVARIANTS
  FinalFileIsMemory
  RecoverableAlone
  EvidenceIsHonest
CHECK_DEADLOCK FALSE
