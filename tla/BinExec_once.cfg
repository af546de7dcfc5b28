SPECIFICATION SafeSpec
CONSTANTS
    Pool = {p1}
    Main = main
    Names = {n1, n2}
    NoName = noname
    NoFile = nofile
    Chunks = 2
    MaxFaults = 1
INVARIANT OneAnswer
CHECK_DEADLOCK FALSE
