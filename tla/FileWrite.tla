------------------------------ MODULE FileWrite ------------------------------
(***************************************************************************)
(* open(), read() and write() on one regular file: sys_open() of           *)
(* kernel/sysfile.c with the O_APPEND of project 5, fileread() and         *)
(* filewrite() of kernel/file.c, readi(), writei() and itrunc() of         *)
(* kernel/fs.c.  The unit of data is a block; a block holds the name of    *)
(* the process that wrote it.  The inode's sleep lock is held by one       *)
(* process at a time (module SleepLock) and each turn of the loop of       *)
(* filewrite() is a step.  Files are short enough to need no indirect      *)
(* block.                                                                  *)
(***************************************************************************)
EXTENDS Integers, Sequences

CONSTANTS
    Procs,          \* processes, each with one descriptor of its own
    NONE,           \* no process
    Lengths,        \* numbers of blocks that processes read and write
    MAXFILE,        \* blocks a file may have
    DiskBlocks,     \* blocks of the disk
    MAXOPBLOCKS     \* param.h: blocks one operation may log

(* An operation may log a block of data, the inode and two blocks of the    *)
(* bitmap with room to spare, so that filewrite() writes something.        *)
FileWriteAssumption ==
    /\ NONE \notin Procs
    /\ Lengths \subseteq Nat /\ MAXFILE \in Nat /\ DiskBlocks \in Nat
    /\ MAXOPBLOCKS \in Nat /\ MAXOPBLOCKS >= 6

VARIABLES
    data,       \* the blocks of the file; ip->size is their number
    spare,      \* blocks the inode owns beyond its size
    free,       \* free blocks of the disk
    lock,       \* the holder of ip->lock
    fd,         \* fd[p]: p's struct file, or the closed one
    pc,         \* "user" or "write"
    n, i,       \* write: blocks asked for, blocks written
    good        \* write: blocks that copyin() can read

vars == <<data, spare, free, lock, fd, pc, n, i, good>>

size == Len(data)

(* fcntl.h, and the fields of struct file; append is kept as a history.    *)
O_RDONLY == 0
O_WRONLY == 1
O_RDWR == 2
O_APPEND == 1024

Modes == {O_RDONLY, O_WRONLY, O_RDWR}
Bit(w, b) == (w \div b) % 2 = 1

Closed == [open |-> FALSE, off |-> 0, writable |-> 0, readable |-> FALSE, append |-> FALSE]

Least(a, b) == IF a <= b THEN a ELSE b

max == (MAXOPBLOCKS - 1 - 1 - 2) \div 2

-----------------------------------------------------------------------------
(* itrunc().  Mutated form: it frees the blocks up to the size only.       *)
itrunc_SizeOnly == data' = <<>> /\ spare' = 0 /\ free' = free + size

itrunc == data' = <<>> /\ spare' = 0 /\ free' = free + size + spare

(* sys_open() of an existing file: the offset is taken from the size       *)
(* before O_TRUNC empties the file.                                        *)
sys_open(p, mode, append, trunc) ==
    /\ pc[p] = "user" /\ ~fd[p].open /\ lock = NONE
    /\ fd' = [fd EXCEPT ![p] = [open |-> TRUE, off |-> IF append THEN size ELSE 0,
                                writable |-> mode, readable |-> mode # O_WRONLY,
                                append |-> append]]
    /\ IF trunc
       THEN itrunc
       ELSE UNCHANGED <<data, spare, free>>
    /\ UNCHANGED <<lock, pc, n, i, good>>

sys_close(p) ==
    /\ pc[p] = "user" /\ fd[p].open
    /\ fd' = [fd EXCEPT ![p] = Closed]
    /\ UNCHANGED <<data, spare, free, lock, pc, n, i, good>>

(* fileread(): readi() returns nothing beyond the end of the file, and -1  *)
(* when the data cannot be copied out.                                     *)
readi(off, len, ok) ==
    IF off > size THEN 0 ELSE IF ok THEN Least(len, size - off) ELSE -1

fileread(p, len, ok) ==
    /\ pc[p] = "user" /\ fd[p].open /\ fd[p].readable /\ lock = NONE
    /\ fd' = [fd EXCEPT ![p].off = IF readi(@, len, ok) > 0 THEN @ + readi(@, len, ok) ELSE @]
    /\ UNCHANGED <<data, spare, free, lock, pc, n, i, good>>

-----------------------------------------------------------------------------
(* filewrite(): begin_op(), ilock(), and the O_APPEND test on f->writable. *)
filewrite(p, len, readable) ==
    /\ pc[p] = "user" /\ fd[p].open /\ fd[p].writable # 0 /\ lock = NONE
    /\ lock' = p
    /\ pc' = [pc EXCEPT ![p] = "write"]
    /\ fd' = [fd EXCEPT ![p].off = IF Bit(fd[p].writable, O_APPEND) THEN size ELSE @]
    /\ n' = [n EXCEPT ![p] = len]
    /\ i' = [i EXCEPT ![p] = 0]
    /\ good' = [good EXCEPT ![p] = readable]
    /\ UNCHANGED <<data, spare, free>>

(* What writei() does: it refuses an offset beyond the end and a file that *)
(* would become too long; otherwise it writes block after block until      *)
(* there is no space (bmap) or no data (either_copyin).  When the data is  *)
(* missing, the block that bmap() added stays with the inode.              *)
n1(p) == Least(n[p] - i[p], max)

Refused(p) == fd[p].off > size \/ fd[p].off + n1(p) > MAXFILE

Space(p) == size + spare + free - fd[p].off

Written(p) == Least(Least(n1(p), good[p] - i[p]), Space(p))

(* Blocks the inode owns after writei().                                   *)
Owned(p) ==
    LET touched == fd[p].off + Written(p) + (IF Written(p) < Least(n1(p), Space(p)) THEN 1 ELSE 0)
    IN  IF touched > size + spare THEN touched ELSE size + spare

writei(p) ==
    LET end == fd[p].off + Written(p)
        newsize == IF end > size THEN end ELSE size
    IN  /\ data' = [k \in 1..newsize |-> IF k \in (fd[p].off + 1)..end THEN p ELSE data[k]]
        /\ spare' = Owned(p) - newsize
        /\ free' = free - (Owned(p) - (size + spare))

(* Mutated form: the inode is unlocked between two turns.                  *)
WriteTurn_Unlocks(p) ==
    /\ pc[p] = "write" /\ i[p] < n[p] /\ ~Refused(p)
    /\ writei(p)
    /\ fd' = [fd EXCEPT ![p].off = @ + Written(p)]
    /\ i' = [i EXCEPT ![p] = @ + Written(p)]
    /\ lock' = NONE
    /\ UNCHANGED <<pc, n, good>>

(* One turn of the loop.  A writei() that returns 0 leaves the loop where  *)
(* it was.                                                                 *)
WriteTurn(p) ==
    /\ pc[p] = "write" /\ i[p] < n[p] /\ ~Refused(p)
    /\ writei(p)
    /\ fd' = [fd EXCEPT ![p].off = @ + Written(p)]
    /\ i' = [i EXCEPT ![p] = @ + Written(p)]
    /\ UNCHANGED <<lock, pc, n, good>>

(* Mutated form: the loop goes on when writei() returns -1.                *)
WriteReturns_OnlyDone(p) ==
    \/ /\ pc[p] = "write" /\ i[p] = n[p]
       /\ lock' = NONE
       /\ pc' = [pc EXCEPT ![p] = "user"]
       /\ n' = [n EXCEPT ![p] = 0]
       /\ i' = [i EXCEPT ![p] = 0]
       /\ good' = [good EXCEPT ![p] = 0]
       /\ UNCHANGED <<data, spare, free, fd>>
    \/ pc[p] = "write" /\ Refused(p) /\ UNCHANGED vars

(* The loop ends when everything is written or writei() returns -1.        *)
WriteReturns(p) ==
    /\ pc[p] = "write"
    /\ i[p] = n[p] \/ Refused(p)
    /\ lock' = NONE
    /\ pc' = [pc EXCEPT ![p] = "user"]
    /\ n' = [n EXCEPT ![p] = 0]
    /\ i' = [i EXCEPT ![p] = 0]
    /\ good' = [good EXCEPT ![p] = 0]
    /\ UNCHANGED <<data, spare, free, fd>>

-----------------------------------------------------------------------------
Init ==
    /\ data = <<>> /\ spare = 0 /\ free = DiskBlocks
    /\ lock = NONE
    /\ fd = [p \in Procs |-> Closed]
    /\ pc = [p \in Procs |-> "user"]
    /\ n = [p \in Procs |-> 0] /\ i = n /\ good = n

Next ==
    \E p \in Procs :
        \/ \E mode \in Modes, append, trunc \in BOOLEAN : sys_open(p, mode, append, trunc)
        \/ sys_close(p)
        \/ \E len \in Lengths, ok \in BOOLEAN : fileread(p, len, ok)
        \/ \E len \in Lengths : \E readable \in 0..len : filewrite(p, len, readable)
        \/ WriteTurn(p) \/ WriteReturns(p)

Spec == Init /\ [][Next]_vars

(* A process in filewrite() is scheduled; nothing it waits for there is    *)
(* held by another process.                                                *)
Fairness == \A p \in Procs : WF_vars(WriteTurn(p) \/ WriteReturns(p))

FairSpec == Spec /\ Fairness

-----------------------------------------------------------------------------
(* Every variable keeps its type, and the inode's lock is held exactly by  *)
(* the process in the loop of filewrite().                                 *)
TypeOK ==
    /\ data \in Seq(Procs) /\ size <= MAXFILE
    /\ spare \in Nat /\ free \in Nat
    /\ fd \in [Procs -> [open : BOOLEAN, off : 0..MAXFILE,
                         writable : Modes, readable : BOOLEAN, append : BOOLEAN]]
    /\ pc \in [Procs -> {"user", "write"}]
    /\ n \in [Procs -> Nat] /\ i \in [Procs -> Nat] /\ good \in [Procs -> Nat]
    /\ \A p \in Procs : i[p] <= good[p] /\ good[p] <= n[p]
    /\ \A p \in Procs : pc[p] = "write" <=> lock = p

(* No block is lost or given out twice: the blocks of the file, the block  *)
(* a failed copyin() left beyond its end and the free blocks are the disk. *)
BlocksAccounted == size + spare + free = DiskBlocks /\ spare <= 1

(* What write() has written so far is in the file in one piece, at the     *)
(* offset where it started, although it is written in several turns and    *)
(* others write and truncate the file: the inode stays locked.             *)
WriteInOnePiece ==
    \A p \in Procs : pc[p] = "write" =>
        /\ i[p] <= fd[p].off
        /\ i[p] > 0 => fd[p].off <= size
        /\ \A k \in (fd[p].off - i[p] + 1)..(fd[p].off) : data[k] = p

(* write() returns, unless it has come to a block for which the disk has   *)
(* no space or which copyin() cannot read: there the loop, which ends only *)
(* on a negative result of writei(), goes round for ever.                  *)
NoProgress(p) == Space(p) = 0 \/ good[p] = i[p]

WriteEnds == \A p \in Procs : pc[p] = "write" ~> (pc[p] = "user" \/ NoProgress(p))

-----------------------------------------------------------------------------
(* "Append mode ensures all writes occur at end of file": what a           *)
(* descriptor opened with O_APPEND writes begins where the file ended.     *)
AppendAtEnd ==
    [][\A p \in Procs : pc[p] = "write" /\ i[p] = 0 /\ i'[p] > 0 /\ fd[p].append
          => fd[p].off = size]_vars
=============================================================================
