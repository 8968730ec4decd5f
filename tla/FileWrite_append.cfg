\* Two processes append to one file.
CONSTANTS
    p1 = p1
    p2 = p2
    Procs = {p1, p2}
    NONE = NONE
    Lengths = {1}
    MAXFILE = 3
    DiskBlocks = 5
    MAXOPBLOCKS = 10
SPECIFICATION Spec
PROPERTIES AppendAtEnd
