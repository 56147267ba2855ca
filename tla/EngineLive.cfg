SPECIFICATION FairSpec
CONSTANTS
    TubeNames = {default}
    DefaultTube = default
    ConnIds = {1, 2}
    NanosPerSec = 1
    Journal = FALSE
    None = None
    TooBig = TooBig
    MaxJobs = 1
    MaxTime = 3
    Pris = {0}
    Delays = {0, 1}
    Ttrs = {1}
    Timeouts = {1}
    Pauses = {0}
    Kicks = {1}
    Commands = {"disconnect", "put", "reserve", "release", "touch", "half-close"}
PROPERTIES WaitsEnd DelaysEnd ReservationsEnd CallsReturn
