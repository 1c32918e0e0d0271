SPECIFICATION LiveSpec
CONSTANTS
  Runs = {r1}
  MaxEpoch = 2
  MaxFaults = 1
  Faults = {"evict", "drop"}
  MaxAsks = 0
  ClientOps = {}
  MaxStrikes = 2
  MaxStreak = 1
  MaxRequeues = 1
  WakeRetries = 1
  SupportsWarm = TRUE
  FreezesWhenWarm = TRUE
  UsesS3 = FALSE
  AlarmAtLeastOnce = TRUE
PROPERTIES
  LossIsNoticed
  HandshakeEnds
CHECK_DEADLOCK FALSE
