SPECIFICATION LiveSpec
CONSTANTS
    me = me
    p = p
    None = None
    Me = me
    Nodes = {me, p}
    Conns <- MCConns
    Commands = {"Put"}
    MAX_QUEUE_ITEMS = 2
    MAX_BATCH_ITEMS = 1
    Budgets <- MCLiveBudgets
    MaxLag = 1
    q = q
PROPERTIES InputsArrive GoneIsClosed
CHECK_DEADLOCK FALSE
