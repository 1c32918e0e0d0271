SPECIFICATION Spec
CONSTANTS
  Runs = {r1}
  MaxEpoch = 2
  MaxFaults = 1
  Faults = {"refuse", "unknown"}
  MaxAsks = 1
  ClientOps = {"wake", "sleep", "delete"}
  MaxStrikes = 1
  MaxStreak = 1
  MaxRequeues = 1
  WakeRetries = 1
  SupportsWarm = TRUE
  FreezesWhenWarm = TRUE
  UsesS3 = FALSE
  AlarmAtLeastOnce = TRUE
INVARIANTS
  WakingIsWatched
  ColdIsEmpty
CHECK_DEADLOCK FALSE
