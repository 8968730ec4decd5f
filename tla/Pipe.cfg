\* A pipe between two processes, where five bytes take both counters past
\* their wrap.
CONSTANTS
    Procs = {p1, p2}
    PIPESIZE = 2
    Modulus = 4
    Lengths = {3}
    MaxBytes = 5
SPECIFICATION FairSpec
INVARIANTS NoLostWakeup NoUseAfterFree
PROPERTIES ImplementsStream HangupEndsCalls
