SPECIFICATION Spec
CONSTANTS
    Automata <- MCAutomata
    BufSize = 4
    ReadSize = 3
    Inputs <- MCInputs
INVARIANTS
    TypeOK
    InBuffer
    BacksUpInText
PROPERTIES
    ScansByRules
    ScansToTheEnd
CHECK_DEADLOCK FALSE
