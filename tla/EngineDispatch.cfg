SPECIFICATION Spec
CONSTANTS
    TubeNames = {default, a}
    DefaultTube = default
    ConnIds = {1, 2}
    NanosPerSec = 1
    Journal = FALSE
    None = None
    TooBig = TooBig
    MaxJobs = 2
    MaxTime = 0
    Pris = {0, 1024}
    Delays = {0}
    Ttrs = {1}
    Timeouts = {None}
    Pauses = {0}
    Kicks = {1, 2}
    Commands = {"put", "use", "watch", "ignore", "reserve", "disconnect", "delete", "half-close"}
INVARIANTS WaitersRegistered TubesReferenced
 
