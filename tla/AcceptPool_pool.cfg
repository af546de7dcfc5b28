\* One pool thread and the main thread, three clients, three threads in all:
\* replacements run out, and both kinds of thread meet every kind of client.
SPECIFICATION Spec
CONSTANTS
    Threads = {t1, t2, t3}
    Main = main
    Conns = {c1, c2, c3}
    NoConn = null
    PoolSize = 1
    Backlog = 1
    Habits <- MCHabits
    c1 = c1
    c2 = c2
    c3 = c3
    MaxFaults = 1
INVARIANTS TypeOK AcceptorConservation OneHandler
PROPERTIES QueuedAccepted ImplementsService
\* The server may wait in accept or in read for ever.
CHECK_DEADLOCK FALSE
