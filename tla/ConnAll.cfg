SPECIFICATION Spec
CONSTANTS
    a = a
    b = b
    Conns = {a, b}
    Casts <- MCCasts
    max_pending = 1
    MAX_BUFFERED_WHILE_WAITING = 2
INVARIANTS TypeOK OneInFlight AnswersInOrder  AuthenticatedFirst PendingExact
PROPERTIES  PermitsReturn
CHECK_DEADLOCK FALSE
