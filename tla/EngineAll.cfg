SPECIFICATION Spec
CONSTANTS
    TubeNames = {default}
    DefaultTube = default
    ConnIds = {1, 2}
    NanosPerSec = 1
    Journal = FALSE
    None = None
    TooBig = TooBig
    MaxJobs = 2
    MaxTime = 2
    Pris = {0}
    Delays = {0, 1}
    Ttrs = {1}
    Timeouts = {1}
    Pauses = {0}
    Kicks = {1}
    Commands = {"disconnect", "half-close", "put", "put-rejected", "use", "watch", "ignore", "pause-tube", "reserve", "reserve-job", "touch", "delete", "kick-job", "release", "bury", "kick", "drain"}
INVARIANTS TypeOK JobPlacement RepliesOwed PendingIdsFresh 
PROPERTIES IdsNeverReused ReservationKept
