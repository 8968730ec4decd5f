\* Memory for two processes and part of a third, in half pages.
CONSTANTS
    NPROC = 3
    NPAGES = 17
    PGSIZE = 2
    LEVELS = 2
    Grows = {1, 3}
    Shrinks = {3}
    Segments = {0, 1}
    NSEGS = 1
    USERSTACK = 1
    MAXARG = 2
SPECIFICATION FairSpec
INVARIANTS PagesAccounted TablesMatchSizes
PROPERTIES CallsEnd
