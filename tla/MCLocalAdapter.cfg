\* Three calls, two keys, two processes.
CONSTANTS
    c1 = c1
    c2 = c2
    c3 = c3
    k1 = k1
    k2 = k2
    p1 = p1
    p2 = p2
    Calls = {c1, c2, c3}
    Keys = {k1, k2}
    Key <- KeyOf
    Processes = {p1, p2}
    Process <- ProcessOf
    NoRun = NoRun
    Free = Free
SPECIFICATION Spec
INVARIANTS NothingIsForgotten
PROPERTIES ImplementsContract
CHECK_DEADLOCK FALSE
