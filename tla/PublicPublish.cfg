\* Two rows, three failures; five ids are enough for what can be remembered.
SPECIFICATION FairPublishSpec
CONSTANTS
  NRows = 2
  Gens = {1, 2, 3, 4, 5}
  NoGen = 0
  Callers = {"w1"}
  MaxFailures = 3
INVARIANTS
  PublicIsCurrent
  OutputsNeverAhead
  RestoredIsCommitted
PROPERTIES
  EventuallyPublished
