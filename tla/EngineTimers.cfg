SPECIFICATION Spec
CONSTANTS
    TubeNames = {default}
    DefaultTube = default
    ConnIds = {1, 2}
    NanosPerSec = 2
    Journal = FALSE
    None = None
    TooBig = TooBig
    MaxJobs = 2
    MaxTime = 5
    Pris = {0}
    Delays = {0, 1}
    Ttrs = {0, 1}
    Timeouts = {0, 1, None}
    Pauses = {0, 1}
    Kicks = {}
    Commands = {"disconnect", "half-close", "put", "pause-tube", "reserve", "touch", "release"}
INVARIANTS IndexesExact NothingToAssign
PROPERTIES WaitEndsForCause
