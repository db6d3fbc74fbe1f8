SPECIFICATION Spec
CONSTANTS
    p1 = p1
    p2 = p2
    Photos = {p1, p2}
    MaxChanges = 4
    MaxFaults = 1
    MaxExpiries = 1
    MaxWork = 1
    Contended = FALSE
INVARIANT GateIsCurrent
PROPERTIES Mirrors 
CHECK_DEADLOCK FALSE
