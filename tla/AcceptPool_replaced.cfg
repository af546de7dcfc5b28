SPECIFICATION SafeSpec
CONSTANTS
    Threads = {t1, t2, t3}
    Main = main
    Conns = {c1, c2, c3}
    NoConn = null
    PoolSize = 1
    Backlog = 1
    Habits <- GoodHabits
    c1 = c1
    c2 = c2
    c3 = c3
    MaxFaults = 0
SYMMETRY Symmetry
PROPERTY ReplacedUnlessExhausted
CHECK_DEADLOCK FALSE
