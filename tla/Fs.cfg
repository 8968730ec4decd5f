\* The tests, grind and five programs more; they end, so no step is left in the end.
CHECK_DEADLOCK FALSE
CONSTANTS
    p1 = p1
    p2 = p2
    p3 = p3
    p4 = p4
    Procs = {p1, p2, p3, p4}
    NONE = NONE
    NInodes = 11
    NINODE = 5
    NFILE = 4
    NOFILE = 4
SPECIFICATION Spec
INVARIANTS CountsAgree  TestsPass
 
