SPECIFICATION Spec
CONSTANTS
    x = x
    y = y
    None = None
    Earlier = Earlier
    Tasks = {x, y}
    Page <- LinkPage
    MaxFaults = 0
INVARIANT LinksCompleted
CHECK_DEADLOCK FALSE
