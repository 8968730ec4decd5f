--------------------------------- MODULE Bio ---------------------------------
(***************************************************************************)
(* The buffer cache, kernel/bio.c, on the disk that BlockDevice describes. *)
(*                                                                         *)
(* Processes use it as log.c does: a block is read, changed in its buffer  *)
(* and either written to the disk before the buffer is released (the log's *)
(* own blocks), or pinned by log_write() and written, and unpinned, by a   *)
(* later commit.  The sections under bcache.lock are steps; a sleep lock   *)
(* is taken when it is free, in no particular order (module SleepLock).    *)
(* What virtio_disk_rw() does to a locked buffer is BlockDevice's.         *)
(***************************************************************************)
EXTENDS Integers, FiniteSets

CONSTANTS
    Procs,      \* processes
    Blocks,     \* block numbers
    Vals,       \* contents of a block
    Written,    \* blocks that processes change; the others they only read
    NBUF,       \* buffers
    NONE

VARIABLES
    sectors, call,      \* the disk and the calls virtio_disk_rw() under way
    buf,                \* the buffers
    lru,                \* bcache.head: buffers, most recently used first
    proc,               \* where each process is, and its buffer
    logged,             \* the block log_write() has pinned
    panic,              \* "bget: no buffers"
    latest              \* history: what was last put in a block's buffer

vars == <<sectors, call, buf, lru, proc, logged, panic, latest>>

Bufs == 1..NBUF

(* bget() needs a buffer for each process and one for the pinned block.    *)
CacheAssumption ==
    /\ IsFiniteSet(Procs) /\ NBUF \in Nat /\ Cardinality(Procs) < NBUF
    /\ NONE \notin Blocks /\ NONE \notin 1..NBUF /\ NONE \notin Procs

ASSUME CacheLargeEnough == CacheAssumption

INSTANCE BlockDevice

Goto(p, at, b) == proc' = [proc EXCEPT ![p] = [at |-> at, b |-> b]]
Held(p, at) == proc[p].at = at

-----------------------------------------------------------------------------
(* bget(), up to the sleep lock: the block's buffer, or the least recently *)
(* used one without references.  Mutated form: recycles whatever buffer is *)
(* last in the list.                                                       *)
Unused_Any(b) == TRUE
Unused(b) == buf[b].refcnt = 0

LastUnused(b) ==
    \E i \in Bufs : lru[i] = b /\ Unused(b) /\ \A j \in Bufs : j > i => ~Unused(lru[j])

bget(p, k) ==
    LET cached == {b \in Bufs : buf[b].blockno = k}
    IN  /\ Held(p, "idle") /\ ~panic
        /\ \/ \E b \in cached :
                /\ buf' = [buf EXCEPT ![b].refcnt = @ + 1]
                /\ Goto(p, "lock", b) /\ UNCHANGED panic
           \/ \E b \in Bufs :
                /\ cached = {} /\ LastUnused(b)
                /\ buf' = [buf EXCEPT ![b].blockno = k, ![b].valid = 0, ![b].refcnt = 1]
                /\ Goto(p, "lock", b) /\ UNCHANGED panic
           \/ /\ cached = {} /\ \A b \in Bufs : ~Unused(b)
              /\ panic' = TRUE /\ UNCHANGED <<buf, proc>>
        /\ UNCHANGED <<sectors, call, lru, logged, latest>>

(* acquiresleep(), and what bread() does next.                             *)
Lock(p) ==
    LET b == proc[p].b
    IN  /\ Held(p, "lock") /\ buf[b].lock = NONE
        /\ buf' = [buf EXCEPT ![b].lock = p]
        /\ IF buf[b].valid = 1
           THEN Goto(p, "have", b) /\ UNCHANGED <<sectors, call>>
           ELSE Goto(p, "read", b) /\ Begin(b, buf[b].blockno, 0, NONE)
        /\ UNCHANGED <<lru, logged, panic, latest>>

(* The rest of bread(), and of bwrite().                                   *)
ReadEnds(p) ==
    LET b == proc[p].b
    IN  /\ Held(p, "read")
        /\ End(b)
        /\ buf' = [buf EXCEPT ![b].data = call[b].data, ![b].valid = 1]
        /\ Goto(p, "have", b)
        /\ UNCHANGED <<lru, logged, panic, latest>>

WriteEnds(p) ==
    /\ Held(p, "write")
    /\ End(proc[p].b)
    /\ Goto(p, "written", proc[p].b)
    /\ UNCHANGED <<buf, lru, logged, panic, latest>>

(* The holder changes the buffer and calls log_write(), which pins it the  *)
(* first time, or bwrite().                                                *)
log_write(p, v) ==
    LET b == proc[p].b
    IN  /\ Held(p, "have") /\ logged \in {NONE, buf[b].blockno}
        /\ buf' = [buf EXCEPT ![b].refcnt = IF logged = NONE THEN @ + 1 ELSE @, ![b].data = v]
        /\ logged' = buf[b].blockno
        /\ latest' = [latest EXCEPT ![buf[b].blockno] = v]
        /\ Goto(p, "written", b)
        /\ UNCHANGED <<sectors, call, lru, panic>>

bwrite(p, v) ==
    LET b == proc[p].b
    IN  /\ Held(p, "have") /\ logged # buf[b].blockno
        /\ buf' = [buf EXCEPT ![b].data = v]
        /\ latest' = [latest EXCEPT ![buf[b].blockno] = v]
        /\ Begin(b, buf[b].blockno, 1, v)
        /\ Goto(p, "write", b)
        /\ UNCHANGED <<lru, logged, panic>>

(* install_trans(): the logged block goes home and is unpinned.            *)
install_trans(p) ==
    LET b == proc[p].b
    IN  /\ Held(p, "have") /\ logged = buf[b].blockno
        /\ Begin(b, buf[b].blockno, 1, buf[b].data)
        /\ Goto(p, "install", b)
        /\ UNCHANGED <<buf, lru, logged, panic, latest>>

bunpin(p) ==
    LET b == proc[p].b
    IN  /\ Held(p, "install")
        /\ End(b)
        /\ buf' = [buf EXCEPT ![b].refcnt = @ - 1]
        /\ logged' = NONE
        /\ Goto(p, "written", b)
        /\ UNCHANGED <<lru, panic, latest>>

(* brelse(): the sleep lock, then the reference.  Mutated form: the buffer *)
(* is moved to the head without giving the reference back.                 *)
brelse(p) ==
    LET b == proc[p].b
    IN  /\ proc[p].at \in {"have", "written"}
        /\ buf' = [buf EXCEPT ![b].lock = NONE]
        /\ Goto(p, "release", b)
        /\ UNCHANGED <<sectors, call, lru, logged, panic, latest>>

ToFront(b) ==
    LET at == CHOOSE i \in Bufs : lru[i] = b
    IN  [i \in Bufs |-> IF i = 1 THEN b ELSE IF i <= at THEN lru[i - 1] ELSE lru[i]]

Drop_KeepsRef(p) ==
    LET b == proc[p].b
    IN  /\ Held(p, "release")
        /\ lru' = ToFront(b)
        /\ Goto(p, "idle", NONE)
        /\ UNCHANGED <<sectors, call, buf, logged, panic, latest>>

Drop(p) ==
    LET b == proc[p].b
    IN  /\ Held(p, "release")
        /\ buf' = [buf EXCEPT ![b].refcnt = @ - 1]
        /\ lru' = IF buf[b].refcnt = 1 THEN ToFront(b) ELSE lru
        /\ Goto(p, "idle", NONE)
        /\ UNCHANGED <<sectors, call, logged, panic, latest>>

Disk(b) == Transfer(b) /\ UNCHANGED <<buf, lru, proc, logged, panic, latest>>

-----------------------------------------------------------------------------
(* binit().                                                                *)
Init ==
    /\ DeviceInit /\ \A k, l \in Blocks : sectors[k] = sectors[l]
    /\ buf = [b \in Bufs |-> [blockno |-> NONE, valid |-> 0, refcnt |-> 0, lock |-> NONE,
                              data |-> NONE]]
    /\ lru = [i \in Bufs |-> NBUF + 1 - i]
    /\ proc = [p \in Procs |-> [at |-> "idle", b |-> NONE]]
    /\ logged = NONE
    /\ panic = FALSE
    /\ latest = sectors

Next ==
    \/ \E p \in Procs :
          \/ \E k \in Blocks : bget(p, k)
          \/ Lock(p) \/ ReadEnds(p) \/ WriteEnds(p) \/ install_trans(p) \/ bunpin(p)
          \/ brelse(p) \/ Drop(p)
          \/ /\ Held(p, "have")
             /\ buf[proc[p].b].blockno \in Written
             /\ \E v \in Vals : log_write(p, v) \/ bwrite(p, v)
    \/ \E b \in Bufs : Disk(b)

Spec == Init /\ [][Next]_vars

-----------------------------------------------------------------------------
(* Whoever bread() hands a buffer to finds in it what the last holder of   *)
(* the block left, in whichever buffer that was: a block never has two     *)
(* buffers, and bget() recycles none whose contents are not on the disk.   *)
Coherent ==
    /\ \A b, c \in Bufs : buf[b].blockno = buf[c].blockno /\ buf[b].blockno # NONE => b = c
    /\ \A p \in Procs : Held(p, "have") => buf[proc[p].b].data = latest[buf[proc[p].b].blockno]

(* refcnt is the number of processes between bget() and the end of         *)
(* brelse(), and one more for a pinned buffer: bget() finds an unused      *)
(* buffer as long as there are more buffers than those.                    *)
RefsCounted ==
    /\ ~panic
    /\ \A b \in Bufs :
          buf[b].refcnt = Cardinality({p \in Procs : proc[p].b = b})
                          + IF logged # NONE /\ buf[b].blockno = logged THEN 1 ELSE 0
=============================================================================
