SPECIFICATION Spec
CONSTANTS
    Automata <- MCAutomata
    BufSize = 4
    ReadSize = 3
    Inputs <- MCTags
PROPERTY
    ImagesFetched
CHECK_DEADLOCK FALSE
