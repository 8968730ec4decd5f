\* Four processes compete for one sleep lock; two use a cache of three
\* buffers for four blocks, so that buffers are recycled.
CONSTANTS
    Contenders = {p1, p2, p3, p4}
    Procs = {p1, p2}
    NONE = NONE
    Blocks = {1, 2, 3, 4}
    Written = {1}
    Vals = {0, 1}
    NBUF = 3
SPECIFICATION SpecAll
INVARIANTS MutualExclusion Coherent RefsCounted
PROPERTIES SomebodyGetsIt
