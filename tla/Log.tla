--------------------------------- MODULE Log ---------------------------------
(***************************************************************************)
(* The redo log of kernel/log.c: begin_op(), log_write(), end_op(), the    *)
(* steps of commit(), and recover_from_log() after a crash.  A crash may   *)
(* come between any two disk writes, during recovery too; the disk keeps   *)
(* the blocks written so far and writes one block as a whole.  A process   *)
(* that holds log.lock runs without interruption, so what is done under it *)
(* is one step; every block that commit() and recovery write is a step.    *)
(***************************************************************************)
EXTENDS Integers, Sequences, FiniteSetsExt

CONSTANTS
    Procs,          \* processes that make file system calls
    Blocks,         \* home blocks of the file system
    Vals,           \* contents of a block, 0 a block of zeros
    MAXOPBLOCKS,    \* param.h: blocks one system call may log
    LOGSIZE,        \* param.h: bound of begin_op()
    nlog            \* superblock: blocks of the on-disk log, header included

ASSUME LogAssumption ==
    /\ MAXOPBLOCKS \in Nat \ {0} /\ LOGSIZE \in Nat /\ nlog \in Nat
    /\ MAXOPBLOCKS <= LOGSIZE
    /\ IsFiniteSet(Procs)
    /\ 0 \in Vals

VARIABLES
    home,       \* disk: the blocks at their home locations
    logd,       \* disk: the blocks of the log
    hd,         \* disk: the header block, a sequence of block numbers
    cache,      \* what bread() returns for a block
    pinned,     \* blocks whose buffer bpin() holds
    lh,         \* log.lh
    committing, \* log.committing
    pc,         \* pc[p]: where p is in its system call
    wrote,      \* wrote[p]: blocks that p's system call has logged
    phase,      \* what commit() or recovery does next
    tail,       \* loop variable of write_log() and install_trans()
    panicked    \* log_write() has called panic()

vars == <<home, logd, hd, cache, pinned, lh, committing, pc, wrote, phase, tail, panicked>>
disk == <<home, logd, hd>>

Blocknos(s) == {s[k] : k \in DOMAIN s}

outstanding == Cardinality({p \in Procs : pc[p] = "op"})

Recovery == {"read_head", "r_install"}

Up == phase \notin Recovery /\ ~panicked

(* wakeup(&log) *)
wakeup(ps) == [p \in Procs |-> IF ps[p] = "sleep" THEN "begin" ELSE ps[p]]

-----------------------------------------------------------------------------
(* Mutated form: the reservation of the operations under way is forgotten. *)
MustWait_NoReserve ==
    committing \/ Len(lh) + MAXOPBLOCKS > LOGSIZE

(* begin_op(): a woken process tests again.                                *)
MustWait ==
    committing \/ Len(lh) + (outstanding + 1) * MAXOPBLOCKS > LOGSIZE

begin_op(p) ==
    /\ Up /\ pc[p] \in {"user", "begin"}
    /\ pc' = [pc EXCEPT ![p] = IF MustWait THEN "sleep" ELSE "op"]
    /\ wrote' = [wrote EXCEPT ![p] = {}]
    /\ UNCHANGED <<disk, cache, pinned, lh, committing, phase, tail, panicked>>

(* A system call changes a block in the cache and calls log_write().  It   *)
(* keeps within the MAXOPBLOCKS that begin_op() reserved for it.           *)
MayLog(p, b) ==
    Up /\ pc[p] = "op" /\ Cardinality(wrote[p] \cup {b}) <= MAXOPBLOCKS

LogFull == Len(lh) >= LOGSIZE \/ Len(lh) >= nlog - 1

bpin(b) == pinned' = pinned \cup {b}

log_write(p, b, v) ==
    /\ MayLog(p, b)
    /\ IF LogFull
       THEN panicked' = TRUE /\ UNCHANGED <<cache, pinned, lh, wrote>>
       ELSE /\ cache' = [cache EXCEPT ![b] = v]
            /\ lh' = IF b \in Blocknos(lh) THEN lh ELSE Append(lh, b)
            /\ bpin(b)
            /\ wrote' = [wrote EXCEPT ![p] = @ \cup {b}]
            /\ UNCHANGED panicked
    /\ UNCHANGED <<disk, committing, pc, phase, tail>>

(* Mutated form: the header is written before the log is.                  *)
commit_HeadFirst == IF lh # <<>> THEN "write_head" ELSE "done"

(* commit() has nothing to do when nothing was logged.                     *)
commit == IF lh # <<>> THEN "write_log" ELSE "done"

(* Mutated form: the processes in begin_op() are not woken.                *)
Leave_NoWakeup(p) == [pc EXCEPT ![p] = "user"]

(* end_op() returns after wakeup(&log).                                    *)
Leave(p) == wakeup([pc EXCEPT ![p] = "user"])

(* end_op(): the last system call commits, any other wakes the waiters.    *)
end_op(p) ==
    /\ Up /\ pc[p] = "op"
    /\ IF outstanding = 1
       THEN /\ committing' = TRUE
            /\ pc' = [pc EXCEPT ![p] = "commit"]
            /\ phase' = commit
            /\ tail' = 0
       ELSE /\ pc' = Leave(p)
            /\ UNCHANGED <<committing, phase, tail>>
    /\ wrote' = [wrote EXCEPT ![p] = {}]
    /\ UNCHANGED <<disk, cache, pinned, lh, panicked>>

-----------------------------------------------------------------------------
(* commit(): write_log() copies the cached blocks to the log, write_head() *)
(* commits, install_trans() copies the log to the home locations, and the  *)
(* second write_head() empties the log.                                    *)
write_log ==
    /\ ~panicked /\ phase = "write_log" /\ tail < Len(lh)
    /\ logd' = [logd EXCEPT ![tail + 1] = cache[lh[tail + 1]]]
    /\ tail' = tail + 1
    /\ phase' = IF tail + 1 = Len(lh) THEN "write_head" ELSE phase
    /\ UNCHANGED <<home, hd, cache, pinned, lh, committing, pc, wrote, panicked>>

write_head ==
    /\ ~panicked /\ phase = "write_head"
    /\ hd' = lh
    /\ phase' = "install" /\ tail' = 0
    /\ UNCHANGED <<home, logd, cache, pinned, lh, committing, pc, wrote, panicked>>

install_trans ==
    /\ ~panicked /\ phase \in {"install", "r_install"} /\ tail < Len(lh)
    /\ home' = [home EXCEPT ![lh[tail + 1]] = logd[tail + 1]]
    /\ cache' = [cache EXCEPT ![lh[tail + 1]] = logd[tail + 1]]
    /\ pinned' = IF phase = "install" THEN pinned \ {lh[tail + 1]} ELSE pinned
    /\ tail' = tail + 1
    /\ UNCHANGED <<logd, hd, lh, committing, pc, wrote, phase, panicked>>

(* log.lh.n = 0 and write_head(), after the last block is installed.       *)
clear_log ==
    /\ ~panicked /\ phase \in {"install", "r_install"} /\ tail = Len(lh)
    /\ lh' = <<>> /\ hd' = <<>>
    /\ phase' = IF phase = "install" THEN "done" ELSE "none"
    /\ tail' = 0
    /\ UNCHANGED <<home, logd, cache, pinned, committing, pc, wrote, panicked>>

(* The end of end_op() after commit().                                     *)
EndCommit(p) ==
    /\ ~panicked /\ phase = "done" /\ pc[p] = "commit"
    /\ committing' = FALSE
    /\ pc' = Leave(p)
    /\ phase' = "none"
    /\ UNCHANGED <<disk, cache, pinned, lh, wrote, tail, panicked>>

-----------------------------------------------------------------------------
(* The buffer of a block that nobody has pinned may be recycled: the next  *)
(* bread() gets the block from the disk.                                   *)
Recycle(b) ==
    /\ Up /\ b \notin pinned
    /\ cache' = [cache EXCEPT ![b] = home[b]]
    /\ UNCHANGED <<disk, pinned, lh, committing, pc, wrote, phase, tail, panicked>>

(* The machine stops and starts again; all that is in memory is lost.      *)
Crash ==
    /\ cache' = home /\ pinned' = {} /\ lh' = <<>>
    /\ committing' = FALSE
    /\ pc' = [p \in Procs |-> "user"] /\ wrote' = [p \in Procs |-> {}]
    /\ phase' = "read_head" /\ tail' = 0
    /\ panicked' = FALSE
    /\ UNCHANGED disk

(* recover_from_log(): read_head(), then install_trans(1) and clear_log.   *)
read_head ==
    /\ phase = "read_head"
    /\ lh' = hd /\ tail' = 0
    /\ phase' = "r_install"
    /\ UNCHANGED <<disk, cache, pinned, committing, pc, wrote, panicked>>

-----------------------------------------------------------------------------
(* initlog() of a file system that mkfs made: the log is empty, and its    *)
(* blocks are all zero.                                                    *)
Init ==
    /\ home \in [Blocks -> Vals]
    /\ logd = [k \in 1..LOGSIZE |-> 0]
    /\ hd = <<>>
    /\ cache = home /\ pinned = {} /\ lh = <<>>
    /\ committing = FALSE
    /\ pc = [p \in Procs |-> "user"] /\ wrote = [p \in Procs |-> {}]
    /\ phase = "read_head" /\ tail = 0
    /\ panicked = FALSE

CommitStep ==
    write_log \/ write_head \/ install_trans \/ clear_log \/ \E p \in Procs : EndCommit(p)

Next ==
    \/ \E p \in Procs : begin_op(p) \/ end_op(p)
    \/ \E p \in Procs, b \in Blocks, v \in Vals : log_write(p, b, v)
    \/ CommitStep
    \/ \E b \in Blocks : Recycle(b)
    \/ Crash \/ read_head

Spec == Init /\ [][Next]_vars

(* Processes run: a system call that has begun ends, a commit goes on, a   *)
(* woken process tests again.  Crashes are not fair.                       *)
Fairness ==
    /\ WF_vars(CommitStep) /\ WF_vars(read_head)
    /\ \A p \in Procs : WF_vars(end_op(p)) /\ WF_vars(pc[p] = "begin" /\ begin_op(p))

FairSpec == Spec /\ Fairness

-----------------------------------------------------------------------------
(* Every variable keeps its type.                                          *)
TypeOK ==
    /\ home \in [Blocks -> Vals] /\ cache \in [Blocks -> Vals]
    /\ logd \in [1..LOGSIZE -> Vals]
    /\ hd \in Seq(Blocks) /\ Len(hd) <= LOGSIZE
    /\ lh \in Seq(Blocks) /\ Len(lh) <= LOGSIZE
    /\ pinned \subseteq Blocks
    /\ committing \in BOOLEAN /\ panicked \in BOOLEAN
    /\ pc \in [Procs -> {"user", "sleep", "begin", "op", "commit"}]
    /\ wrote \in [Procs -> SUBSET Blocks]
    /\ phase \in {"none", "write_log", "write_head", "install", "done", "read_head", "r_install"}
    /\ tail \in 0..Len(lh)

(* What a crash would leave: the home blocks, and over them the log when   *)
(* its header says that it is committed.                                   *)
Recovered ==
    [b \in Blocks |-> IF b \in Blocknos(hd)
                      THEN logd[CHOOSE k \in DOMAIN hd : hd[k] = b]
                      ELSE home[b]]

Disk == INSTANCE AtomicDisk WITH
            durable <- Recovered,
            current <- IF phase \in Recovery THEN Recovered ELSE cache,
            active <- {p \in Procs : pc[p] = "op"}

(* The log implements AtomicDisk: at every moment a crash and the recovery *)
(* after it give the contents the cache had at a moment when no system     *)
(* call was under way.                                                     *)
ImplementsAtomicDisk == Disk!Spec

(* The blocks that the system calls under way may still log: those of p    *)
(* are numbered on from the ones it has logged.                            *)
Reserved ==
    {r \in Procs \X (1..MAXOPBLOCKS) : pc[r[1]] = "op" /\ r[2] > Cardinality(wrote[r[1]])}

(* The reservation of begin_op() is kept: the system calls under way can   *)
(* log all the blocks they may without more than LOGSIZE in the log.       *)
ReservationKept == Len(lh) + Cardinality(Reserved) <= LOGSIZE

(* A process asleep in begin_op() has somebody to wake it: a system call   *)
(* or a commit is under way.                                               *)
SleeperHasWaker ==
    (\E p \in Procs : pc[p] = "sleep") => outstanding > 0 \/ committing

(* The buffer of a logged block cannot be recycled before the block is at  *)
(* home: bpin() and bunpin() pair up with the log.                         *)
LoggedIsCached ==
    \A b \in Blocks : cache[b] # home[b] => b \in pinned /\ b \in Blocknos(lh)

(* A process asleep in begin_op() wakes up: every end_op() frees           *)
(* reservation and wakes the sleepers, also when it does not commit (the   *)
(* kernel may panic first).                                                *)
SleeperWakes == \A p \in Procs : pc[p] = "sleep" ~> pc[p] # "sleep" \/ panicked
==============================================================================
