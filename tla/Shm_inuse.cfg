\* The page is freed while it is in use.
CONSTANTS
    p1 = p1
    p2 = p2
    p3 = p3
    m1 = m1
    m2 = m2
    Procs = {p1, p2, p3}
    Pages = {m1, m2}
    NULL = NULL
    NONE = NONE
SYMMETRY Symmetry
SPECIFICATION Spec
INVARIANTS UsedPageNotFree
