SPECIFICATION Spec
CONSTANTS
    Pool = {p1}
    Main = main
    Names = {n1, n2}
    NoName = noname
    NoFile = nofile
    Chunks = 2
    MaxFaults = 2
INVARIANTS TypeOK SentAfterExit OwnOutput
PROPERTIES Answered EndSeen
CHECK_DEADLOCK FALSE
