\* Two system calls; three blocks in a log with room for three.
CONSTANTS
    p1 = p1
    p2 = p2
    b1 = b1
    b2 = b2
    b3 = b3
    Procs = {p1, p2}
    Blocks = {b1, b2, b3}
    Vals = {0, 1}
    MAXOPBLOCKS = 2
    LOGSIZE = 4
    nlog = 4
SPECIFICATION FairSpec
 
PROPERTIES ImplementsAtomicDisk SleeperWakes
