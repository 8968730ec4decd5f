\* One slot, which is freed and used again; three periods.  Slots do not
\* interact: each only meets the clock, before, at or after its turn.
CONSTANTS
    NPROC = 1
    Periods = {1, 2, 3}
    Sleeps = {1, 3}
    FAR = 4
    NONE = NONE
    b1 = b1
    b2 = b2
    b3 = b3
SPECIFICATION SpecAll
INVARIANTS CrashOnlyInInit  DescriptorsAccounted
PROPERTIES WaitsEnd ImplementsDevice RequestsEnd
