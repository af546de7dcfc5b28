SPECIFICATION Spec
CONSTANTS
    Symbols <- MCSymbols
    Requests <- MCRequests
    Files <- MCFiles
    ReadSize = 6
    Window = 1
INVARIANTS TypeOK RoomToRead AnswerAsAsked ShortRequestHarmless 
PROPERTIES Released ServesAsService
\* A client may fall silent, and the connection ends.
CHECK_DEADLOCK FALSE
