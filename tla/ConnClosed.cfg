SPECIFICATION Spec
CONSTANTS
    a = a
    b = b
    Conns = {a, b}
    Casts <- MCClustered
    max_pending = 1
    MAX_BUFFERED_WHILE_WAITING = 2
INVARIANTS DisconnectSent
CHECK_DEADLOCK FALSE
