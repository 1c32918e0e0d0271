SPECIFICATION LiveSpec
CONSTANTS
  Runs = {r1}
  MaxEpoch = 2
  MaxFaults = 1
  Faults = {"crash"}
  MaxAsks = 0
  ClientOps = {}
  MaxStrikes = 2
  MaxStreak = 0
  MaxRequeues = 1
  WakeRetries = 1
  SupportsWarm = FALSE
  FreezesWhenWarm = FALSE
  UsesS3 = TRUE
  AlarmAtLeastOnce = TRUE
PROPERTIES
  RotationStands WakingEnds
CHECK_DEADLOCK FALSE
