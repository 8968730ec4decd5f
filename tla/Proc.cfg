\* Four slots, three pids besides init's: a slot is freed and used again, and a
\* process may leave two orphans.
\* For the CPUs, three slots and two CPUs; three processes
\* share a page, with two pages to take it from.
CONSTANTS
    NPROC = 4
    MaxPid = 4
    NSLOTS = 3
    NCPU = 2
    Masks <- SomeMasks
    p1 = p1
    Procs = {p1, p2, p3}
    Pages = {m1, m2}
    NOPAGE = NOPAGE
    NONE = NONE
SPECIFICATION SpecAll
INVARIANTS ParentAlive OneCPU RefsShortByGets
PROPERTIES OrphansReaped RunnableRuns
