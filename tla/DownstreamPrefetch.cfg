\* Four rows, the second recovered, and two workers.
SPECIFICATION FairSpec
CONSTANTS
  Stages <- MCStages
  Budget <- MCBudget
  Program <- MCProgram
  Threads = {"w1", "w2", "main"}
  Cancellable = {"w1", "w2"}
  Workers = {"w1", "w2"}
  Main = "main"
  NRows = 4
  Recovered = {2}
  PerWorker = 1
  QueueMin = 1
  QueueMax = 1
  SurfaceMax = 1
  QueueLimit = 3
  ReadyLimit = 3
  LowWatermark = 1
  DeepParseFrom = 3
INVARIANTS
  PermitsConserved
  NothingLeftBehind
PROPERTIES
  RunEnds
