SPECIFICATION Spec
CONSTANTS
    me = me
    p = p
    None = None
    Me = me
    Nodes = {me, p}
    Conns <- MCConns
    Commands = {"Put"}
    MAX_QUEUE_ITEMS = 2
    MAX_BATCH_ITEMS = 1
    Budgets <- MCBudgets
    MaxLag = 1
    q = q
INVARIANTS TypeOK   GoneWillClose
PROPERTY ExactlyOnce
CHECK_DEADLOCK FALSE
