SPECIFICATION SafeSpec
CONSTANTS
    Symbols <- MCSymbols
    Requests <- MCRequests
    Files <- MCFiles
    ReadSize = 6
    Window = 1
INVARIANT RequestedFileArrives
CHECK_DEADLOCK FALSE
