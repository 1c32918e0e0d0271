SPECIFICATION Spec
CONSTANTS
  Runs = {r1}
  MaxEpoch = 2
  MaxFaults = 1
  Faults = {"crash"}
  MaxAsks = 1
  ClientOps = {"stop", "deepSleep", "health"}
  MaxStrikes = 2
  MaxStreak = 1
  MaxRequeues = 1
  WakeRetries = 1
  SupportsWarm = TRUE
  FreezesWhenWarm = TRUE
  UsesS3 = FALSE
  AlarmAtLeastOnce = TRUE

   
PROPERTIES
  HeadNeverGoesBack
CHECK_DEADLOCK FALSE
