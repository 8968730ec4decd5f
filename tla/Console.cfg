\* Two readers, or two writers, of a console with small buffers; a file
\* written in one turn and in two, on a disk that fills up.
CONSTANTS
    Readers = {p1, p2}
    Writers = {p1, p2}
    Keys = {"x", "nl", "^D", "^U", "^H"}
    Sizes = {1, 2}
    INPUT_BUF_SIZE = 3
    UART_TX_BUF_SIZE = 2
    WRAP = 6
    NONE = NONE
    Procs = {p1, p2}
    Blocks = {1, 4}
    MAXFILE = 5
    DiskBlocks = 4
    MAXOPBLOCKS = 10
SPECIFICATION SpecAll
INVARIANTS TextInOrder SleepersHaveReason BlocksAccounted WriteInOnePiece
PROPERTIES AcceptedDrains 
