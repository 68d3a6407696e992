SPECIFICATION Spec
CONSTANTS
    c1 = c1  c2 = c2  c3 = c3  c4 = c4  c5 = c5  p1 = p1  p2 = p2  p3 = p3
    Clients = {c1, c2, c3, c4, c5}
    Procs = {p1, p2, p3}
    Proc <- ThreeProcesses
    Threaded = {p2}
    MayFail = {c1, c3}
    MayRaise = {c4, c5}
    MaxCrashes = 1
    Nobody = Nobody
INVARIANTS SerialCollectsComplete StatusHonest
PROPERTY AllEnd
\* All clients end, or a process waits for itself.
CHECK_DEADLOCK FALSE
