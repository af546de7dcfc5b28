SPECIFICATION FileSpec
CONSTANTS
    Bodies <- MCBodies
    MaxGreeting = 1
    Files <- MCFiles
    Block = 3
INVARIANTS
    TypeOK
    OnlyTheMail
    FileTypeOK
    MailAsInFile
    DefinedIfWellFormed
PROPERTIES
    DeliveredIfAccepted
    Ends
\* The dialogue ends.
CHECK_DEADLOCK FALSE
