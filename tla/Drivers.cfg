CONSTANTS
  MaxPolls = 2
  HasTtl = TRUE
  MaxGen = 3
  MaxAttempts = 2
  MaxFrames = 2
  MaxIssued = 2
  Candidates <- MCCandidates
  Tables <- MCTables
  Weights <- MCWeights
SPECIFICATION FairSpec
INVARIANTS
  NotDominated
PROPERTIES
  PromiseKept
  NotLeftBilling
  NewGeneration
  CallsReturn
CHECK_DEADLOCK FALSE
