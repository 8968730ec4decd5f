------------------------------- MODULE Virtio --------------------------------
(***************************************************************************)
(* The disk driver, kernel/virtio_disk.c: virtio_disk_rw(), called by the  *)
(* process that holds a buffer's sleep lock, and virtio_disk_intr(), run   *)
(* by the CPU that takes the interrupt; and the device they share the      *)
(* descriptors and the two rings with.                                     *)
(*                                                                         *)
(* virtio_disk_rw() runs under vdisk_lock from one sleep() to the next, so *)
(* each such stretch is a step.  The interrupt handler holds vdisk_lock    *)
(* while it reads the used ring, and the device does not care: every turn  *)
(* of the handler's loop is a step.  A pointer in a descriptor is modelled *)
(* by what it points to.  A ring entry that its reader has passed is not   *)
(* read again before it is rewritten; it is shown empty.                   *)
(***************************************************************************)
EXTENDS Integers, FiniteSets, FiniteSetsExt

CONSTANTS
    Bufs,       \* locked buffers, each with the process that holds it
    Blocks,     \* block numbers
    Vals,       \* contents of a block
    NUM,        \* descriptors, and entries of a ring
    WRAP,       \* the ring indices are counted modulo 2^16, a multiple of NUM
    NONE

VARIABLES
    req,        \* req[b]: the call virtio_disk_rw() for b, b->disk and b->data
    disk,       \* the driver's struct disk
    dev,        \* the device: how far it has read, what it works on, its interrupt
    sectors,    \* the blocks on the disk
    intr        \* virtio_disk_intr(): "idle", or "loop" with vdisk_lock held

vars == <<req, disk, dev, sectors, intr>>

Descs == 0..(NUM - 1)
NoDesc == [addr |-> NONE, next |-> NONE]
Out == [at |-> "idle", disk |-> 0, idx |-> NONE]
Succ(i) == (i + 1) % WRAP

(* wakeup(&disk.free[0])                                                   *)
Woken(r) == [b \in Bufs |-> IF r[b].at = "nodesc" THEN [r[b] EXCEPT !.at = "alloc"] ELSE r[b]]

RECURSIVE Chain(_)
Chain(i) == IF i = NONE THEN {} ELSE {i} \cup Chain(disk.desc[i].next)

-----------------------------------------------------------------------------
(* virtio_disk_rw().                                                       *)
virtio_disk_rw(b, k, w, v) ==
    /\ req[b] = Out
    /\ req' = [req EXCEPT ![b] = [at |-> "alloc", disk |-> 0, idx |-> NONE,
                                  blockno |-> k, write |-> w, data |-> v]]
    /\ UNCHANGED <<disk, dev, sectors, intr>>

alloc3_desc(free) ==
    LET i == Min(free)
        j == Min(free \ {i})
    IN  <<i, j, Min(free \ {i, j})>>

(* alloc3_desc() finds too few: it gives back the ones it took, which      *)
(* wakes whoever else is waiting for descriptors, and the process sleeps.  *)
AllocSleeps(b) ==
    /\ intr = "idle" /\ req[b].at = "alloc" /\ Cardinality(disk.free) < 3
    /\ LET others == IF disk.free = {} THEN req ELSE Woken(req)
       IN  req' = [others EXCEPT ![b].at = "nodesc"]
    /\ UNCHANGED <<disk, dev, sectors, intr>>

(* alloc3_desc() takes the three lowest; the request is put on the avail   *)
(* ring and the process sleeps until b->disk is cleared.                   *)
(* Mutated form: b->disk is not set.                                       *)
Submit_NotMarked(b) ==
    /\ intr = "idle" /\ req[b].at = "alloc" /\ Cardinality(disk.free) >= 3
    /\ LET idx == alloc3_desc(disk.free)
       IN  /\ req' = [req EXCEPT ![b].at = "asleep", ![b].idx = idx[1]]
           /\ disk' = [disk EXCEPT
                !.free = @ \ {idx[1], idx[2], idx[3]},
                !.desc[idx[1]] = [addr |-> <<req[b].write, req[b].blockno>>, next |-> idx[2]],
                !.desc[idx[2]] = [addr |-> b, next |-> idx[3]],
                !.desc[idx[3]] = [addr |-> idx[1], next |-> NONE],
                !.info[idx[1]] = [b |-> b, status |-> 255],
                !.avail_ring[disk.avail_idx % NUM] = idx[1],
                !.avail_idx = Succ(@)]
    /\ UNCHANGED <<dev, sectors, intr>>

Submit(b) ==
    /\ intr = "idle" /\ req[b].at = "alloc" /\ Cardinality(disk.free) >= 3
    /\ LET idx == alloc3_desc(disk.free)
       IN  /\ req' = [req EXCEPT ![b].at = "asleep", ![b].idx = idx[1], ![b].disk = 1]
           /\ disk' = [disk EXCEPT
                !.free = @ \ {idx[1], idx[2], idx[3]},
                !.desc[idx[1]] = [addr |-> <<req[b].write, req[b].blockno>>, next |-> idx[2]],
                !.desc[idx[2]] = [addr |-> b, next |-> idx[3]],
                !.desc[idx[3]] = [addr |-> idx[1], next |-> NONE],
                !.info[idx[1]] = [b |-> b, status |-> 255],
                !.avail_ring[disk.avail_idx % NUM] = idx[1],
                !.avail_idx = Succ(@)]
    /\ UNCHANGED <<dev, sectors, intr>>

(* kill() makes a sleeping process runnable, whatever it waits for.        *)
kill(b) ==
    /\ req[b].at \in {"asleep", "nodesc"}
    /\ req' = [req EXCEPT ![b].at = IF @ = "asleep" THEN "awake" ELSE "alloc"]
    /\ UNCHANGED <<disk, dev, sectors, intr>>

SleepsAgain(b) ==
    /\ intr = "idle" /\ req[b].at = "awake" /\ req[b].disk = 1
    /\ req' = [req EXCEPT ![b].at = "asleep"]
    /\ UNCHANGED <<disk, dev, sectors, intr>>

(* free_chain() and the return.  Mutated form: only the first descriptor   *)
(* of the chain is freed.                                                  *)
Finish_FirstOnly(b) ==
    /\ intr = "idle" /\ req[b].at = "awake" /\ req[b].disk = 0
    /\ disk' = [disk EXCEPT !.info[req[b].idx].b = NONE, !.free = @ \cup {req[b].idx},
                            !.desc[req[b].idx] = NoDesc]
    /\ req' = Woken([req EXCEPT ![b] = Out])
    /\ UNCHANGED <<dev, sectors, intr>>

Finish(b) ==
    /\ intr = "idle" /\ req[b].at = "awake" /\ req[b].disk = 0
    /\ LET chain == Chain(req[b].idx)
       IN  disk' = [disk EXCEPT
             !.info[req[b].idx].b = NONE,
             !.free = @ \cup chain,
             !.desc = [i \in Descs |-> IF i \in chain THEN NoDesc ELSE @[i]],
             !.panic = @ \/ chain \cap disk.free # {}]
    /\ req' = Woken([req EXCEPT ![b] = Out])
    /\ UNCHANGED <<dev, sectors, intr>>

-----------------------------------------------------------------------------
(* The device.  It serves requests in any order, and raises its interrupt  *)
(* after it has written to the used ring.                                  *)
DevFetch ==
    /\ dev.seen # disk.avail_idx
    /\ dev' = [dev EXCEPT !.busy = @ \cup {disk.avail_ring[dev.seen % NUM]}, !.seen = Succ(@)]
    /\ disk' = [disk EXCEPT !.avail_ring[dev.seen % NUM] = NONE]
    /\ UNCHANGED <<req, sectors, intr>>

DevServe(h) ==
    LET buf == disk.desc[disk.desc[h].next]
        write == disk.desc[h].addr[1]
        blockno == disk.desc[h].addr[2]
    IN  /\ h \in dev.busy
        /\ IF write = 1
           THEN sectors' = [sectors EXCEPT ![blockno] = req[buf.addr].data] /\ UNCHANGED req
           ELSE req' = [req EXCEPT ![buf.addr].data = sectors[blockno]] /\ UNCHANGED sectors
        /\ disk' = [disk EXCEPT !.info[disk.desc[buf.next].addr].status = 0,
                                !.used_ring[disk.used_end % NUM] = h,
                                !.used_end = Succ(@)]
        /\ dev' = [dev EXCEPT !.busy = @ \ {h}, !.raise = TRUE]
        /\ UNCHANGED intr

DevRaise ==
    /\ dev.raise
    /\ dev' = [dev EXCEPT !.raise = FALSE, !.isr = TRUE]
    /\ UNCHANGED <<req, disk, sectors, intr>>

-----------------------------------------------------------------------------
(* virtio_disk_intr(): the interrupt is acknowledged first, so that an     *)
(* entry the loop misses raises another.                                   *)
IntrAck ==
    /\ intr = "idle" /\ dev.isr
    /\ dev' = [dev EXCEPT !.isr = FALSE]
    /\ intr' = "loop"
    /\ UNCHANGED <<req, disk, sectors>>

(* Mutated form: one entry is handled, not all.                            *)
IntrTakes_Once ==
    LET h == disk.used_ring[disk.used_idx % NUM]
    IN  /\ intr = "loop" /\ disk.used_idx # disk.used_end
        /\ req' = [req EXCEPT ![disk.info[h].b].disk = 0,
                              ![disk.info[h].b].at = IF @ = "asleep" THEN "awake" ELSE @]
        /\ disk' = [disk EXCEPT !.used_ring[disk.used_idx % NUM] = NONE, !.used_idx = Succ(@)]
        /\ intr' = "idle"
        /\ UNCHANGED <<dev, sectors>>

IntrTakes ==
    LET h == disk.used_ring[disk.used_idx % NUM]
        b == disk.info[h].b
    IN  /\ intr = "loop" /\ disk.used_idx # disk.used_end
        /\ IF disk.info[h].status # 0 \/ b = NONE
           THEN disk' = [disk EXCEPT !.panic = TRUE] /\ UNCHANGED req
           ELSE /\ req' = [req EXCEPT ![b].disk = 0,
                                      ![b].at = IF @ = "asleep" THEN "awake" ELSE @]
                /\ disk' = [disk EXCEPT !.used_ring[disk.used_idx % NUM] = NONE,
                                        !.used_idx = Succ(@)]
        /\ UNCHANGED <<dev, sectors, intr>>

IntrEnds ==
    /\ intr = "loop" /\ disk.used_idx = disk.used_end
    /\ intr' = "idle"
    /\ UNCHANGED <<req, disk, dev, sectors>>

-----------------------------------------------------------------------------
(* virtio_disk_init().                                                     *)
Init ==
    /\ req = [b \in Bufs |-> Out]
    /\ sectors \in [Blocks -> Vals]
    /\ disk = [free |-> Descs, desc |-> [i \in Descs |-> NoDesc],
               info |-> [i \in Descs |-> [b |-> NONE, status |-> 0]],
               avail_ring |-> [i \in Descs |-> NONE], avail_idx |-> 0,
               used_ring |-> [i \in Descs |-> NONE], used_end |-> 0, used_idx |-> 0,
               panic |-> FALSE]
    /\ dev = [seen |-> 0, busy |-> {}, raise |-> FALSE, isr |-> FALSE]
    /\ intr = "idle"

Driver(b) == AllocSleeps(b) \/ Submit(b) \/ SleepsAgain(b) \/ Finish(b)
Device == DevFetch \/ DevRaise \/ \E h \in Descs : DevServe(h)
Interrupt == IntrAck \/ IntrTakes \/ IntrEnds
Caller(b) ==
    \E k \in Blocks : \/ virtio_disk_rw(b, k, 0, NONE)
                      \/ \E v \in Vals : virtio_disk_rw(b, k, 1, v)

Next ==
    \/ \E b \in Bufs : Caller(b) \/ Driver(b) \/ kill(b)
    \/ Device
    \/ Interrupt

(* Processes that can run are scheduled, the device works and interrupts   *)
(* are taken.                                                              *)
Fairness ==
    /\ \A b \in Bufs : WF_vars(Driver(b))
    /\ WF_vars(Device \/ Interrupt)

Spec == Init /\ [][Next]_vars /\ Fairness

-----------------------------------------------------------------------------
Submitted(b) == req[b].at \in {"asleep", "awake"}

(* Every descriptor is free or in the chain of exactly one request under   *)
(* way, whatever requests were retried, woken or completed in between, and *)
(* the driver's panics ("free_desc 2", "virtio_disk_intr status") are not  *)
(* reached: alloc3_desc(), free_chain() and virtio_disk_intr().            *)
DescriptorsAccounted ==
    /\ ~disk.panic
    /\ \A b \in Bufs : Submitted(b) =>
          /\ Cardinality(Chain(req[b].idx)) = 3
          /\ Chain(req[b].idx) \cap disk.free = {}
          /\ \A c \in Bufs \ {b} : Submitted(c) => Chain(req[b].idx) \cap Chain(req[c].idx) = {}
    /\ disk.free \cup UNION {Chain(req[b].idx) : b \in {c \in Bufs : Submitted(c)}} = Descs

(* virtio_disk_rw() implements one transfer per call between its start and *)
(* its return: a call that has come back has been served, once.            *)
Calls == [b \in Bufs |->
    IF req[b] = Out THEN [at |-> "idle"]
    ELSE [at |-> IF Submitted(b) /\ disk.info[req[b].idx].status = 0 THEN "done" ELSE "begun",
          blockno |-> req[b].blockno, write |-> req[b].write, data |-> req[b].data]]

D == INSTANCE BlockDevice WITH call <- Calls

ImplementsDevice == D!DeviceSpec

(* A call that never returns, be it in alloc3_desc()'s loop, for want of   *)
(* vdisk_lock or of a completion, is one that others overtake for ever:    *)
(* no interrupt is lost between the device's write to the used ring and    *)
(* the acknowledgement by virtio_disk_intr(), and waiting processes do not *)
(* just wake each other.                                                   *)
RequestsEnd ==
    \A b \in Bufs : <>[](req[b] # Out) =>
        \E c \in Bufs \ {b} : []<>Submitted(c) /\ []<>~Submitted(c)
=============================================================================
