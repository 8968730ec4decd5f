CONSTANTS
    p1 = p1
    p2 = p2
    p3 = p3
    Procs = {p1, p2, p3}
    Prios = {1, 2}
    MaxWrites = 3
SPECIFICATION FairSpec
INVARIANTS TaskAccounting PageAccounting
PROPERTIES HeadNotOvertaken ImplementsChannel ReadersServed
