SPECIFICATION Spec
CONSTANTS
    x = x
    y = y
    None = None
    Earlier = Earlier
    Tasks = {x, y}
    Page <- MCPage
    MaxFaults = 1
INVARIANTS
    TypeOK
    DefinedAlone
    OwnFile
    OwnImages
PROPERTY Returns
CHECK_DEADLOCK FALSE
