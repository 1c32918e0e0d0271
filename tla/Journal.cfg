SPECIFICATION LiveSpec
CONSTANTS
    MaxBytes = 2
    FrameChunk = 2
    MaxConns = 3
    MaxGens = 2
    MaxRestarts = 1
    MaxFailures = 1
INVARIANTS InPlace NeverPastEnd DivergesOnlyHoled
PROPERTIES Delivered PromiseKept
CHECK_DEADLOCK FALSE
