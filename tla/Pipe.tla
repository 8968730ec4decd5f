-------------------------------- MODULE Pipe --------------------------------
(***************************************************************************)
(* The ordinary pipe of kernel/pipe.c: a ring buffer with two free-running *)
(* unsigned counters, writers that sleep while it is full and readers that *)
(* sleep while it is empty.                                                *)
(*                                                                         *)
(* What a process does between taking pi->lock and giving it up (in        *)
(* sleep() or on return) is one step.  kill() needs no lock of the pipe    *)
(* and pipewrite() tests killed() for every byte, so the step has a form   *)
(* in which the kill comes while it runs.  One pipe is modelled, from      *)
(* sys_pipe() to kfree().                                                  *)
(***************************************************************************)
EXTENDS Naturals, Sequences

CONSTANTS
    Procs,      \* processes
    PIPESIZE,   \* bytes in the ring
    Modulus,    \* the counters are unsigned integers modulo this (2^32)
    Lengths,    \* lengths that processes pass to read() and write()
    MaxBytes    \* bound on the bytes ever written

(* The size of the ring divides the range of the counters (512 and 2^32),  *)
(* so that counter % PIPESIZE goes on where it was when the counter wraps. *)
ASSUME PipeAssumption ==
    /\ PIPESIZE \in Nat \ {0} /\ Modulus \in Nat /\ Modulus > PIPESIZE
    /\ Modulus % PIPESIZE = 0
    /\ Lengths \subseteq Nat /\ MaxBytes \in Nat

VARIABLES
    page,       \* the page of struct pipe: "none", "live", "freed"
    data,       \* pi->data; a byte is its number in the order of writing
    nread,      \* pi->nread
    nwrite,     \* pi->nwrite
    open,       \* the ends whose readopen or writeopen is set
    holds,      \* holds[p]: the ends for which p has an open descriptor
    pc,         \* where each process is
    todo,       \* n - i of the read() or write() that p is in (0 outside)
    killed,     \* p->killed
    nsent,      \* history: bytes written
    got,        \* history: the bytes copied out to readers, in order
    silent      \* history: a killed writer has put bytes in and woken nobody

vars == <<page, data, nread, nwrite, open, holds, pc, todo, killed,
          nsent, got, silent>>

Ends == {"r", "w"}

(* "write": in pipewrite, about to take the lock.  "wsleep": it sleeps on  *)
(* &pi->nwrite.  "read", "rsleep": the same for piperead and &pi->nread.   *)
(* "closing_r", "closing_w": fileclose() has dropped the last reference to *)
(* the end and has not called pipeclose() yet.                             *)
PCs == {"unborn", "user", "write", "wsleep", "read", "rsleep",
        "closing_r", "closing_w"}

InWrite(p) == pc[p] \in {"write", "wsleep"}
InRead(p) == pc[p] \in {"read", "rsleep"}

ClosingPC(e) == IF e = "r" THEN "closing_r" ELSE "closing_w"

-----------------------------------------------------------------------------
(* Counter arithmetic, and the two tests.                                  *)
Plus(c, k) == (c + k) % Modulus

(* Mutated form: the comparison forgets that nread + PIPESIZE wraps.       *)
Full_NoWrap(w) == w = nread + PIPESIZE

Full(w) == w = Plus(nread, PIPESIZE)

Empty == nread = nwrite

(* How many bytes are in the ring, and which.                              *)
Used == (nwrite + Modulus - nread) % Modulus

Contents == [k \in 1..Used |-> data[Plus(nread, k - 1) % PIPESIZE]]

(* wakeup(&pi->nread) and wakeup(&pi->nwrite), on a map of places.         *)
WakeReaders(m) == [p \in Procs |-> IF m[p] = "rsleep" THEN "read" ELSE m[p]]
WakeWriters(m) == [p \in Procs |-> IF m[p] = "wsleep" THEN "write" ELSE m[p]]

-----------------------------------------------------------------------------
(* sys_pipe() that succeeds.  When a page, a file structure or a descriptor*)
(* is missing it undoes what it did and nothing is left.                   *)
sys_pipe(p) ==
    /\ pc[p] = "user" /\ ~killed[p] /\ page = "none"
    /\ page' = "live"
    /\ open' = Ends /\ nread' = 0 /\ nwrite' = 0
    /\ holds' = [holds EXCEPT ![p] = Ends]
    /\ UNCHANGED <<data, pc, todo, killed, nsent, got, silent>>

(* fork(): the child's descriptors are duplicates of the parent's.         *)
fork(p, c) ==
    /\ pc[p] = "user" /\ ~killed[p] /\ pc[c] = "unborn"
    /\ pc' = [pc EXCEPT ![c] = "user"]
    /\ holds' = [holds EXCEPT ![c] = holds[p]]
    /\ UNCHANGED <<page, data, nread, nwrite, open, todo, killed,
                   nsent, got, silent>>

(* kill(): the victim is made runnable if it sleeps.                       *)
kill(p) ==
    /\ pc[p] # "unborn"
    /\ killed' = [killed EXCEPT ![p] = TRUE]
    /\ pc' = [pc EXCEPT ![p] = CASE @ = "rsleep" -> "read"
                                 [] @ = "wsleep" -> "write"
                                 [] OTHER -> @]
    /\ UNCHANGED <<page, data, nread, nwrite, open, holds, todo,
                   nsent, got, silent>>

-----------------------------------------------------------------------------
(* pipewrite().                                                            *)
pipewrite(p) ==
    /\ pc[p] = "user" /\ ~killed[p] /\ "w" \in holds[p]
    /\ \E n \in Lengths : todo' = [todo EXCEPT ![p] = n]
    /\ pc' = [pc EXCEPT ![p] = "write"]
    /\ UNCHANGED <<page, data, nread, nwrite, open, holds, killed,
                   nsent, got, silent>>

MayWrite(p) == "r" \in open /\ ~killed[p]

(* Turns of the loop that put k bytes in, the ring never being full before *)
(* one of them.                                                            *)
PutBytes(k) ==
    /\ nsent + k <= MaxBytes
    /\ \A j \in 0..k-1 : ~Full(Plus(nwrite, j))
    /\ nsent' = nsent + k
    /\ nwrite' = Plus(nwrite, k)
    /\ data' = [x \in DOMAIN data |->
                  IF \E j \in 0..k-1 : Plus(nwrite, j) % PIPESIZE = x
                  THEN nsent + 1 + (CHOOSE j \in 0..k-1 :
                                       Plus(nwrite, j) % PIPESIZE = x)
                  ELSE data[x]]

(* kill() may come between the last look at p->killed and the moment when  *)
(* sleep() takes p->lock; the process then sleeps in spite of it.          *)
KillMayLand(p) == killed' \in {killed, [killed EXCEPT ![p] = TRUE]}

(* Full: the readers are woken, then the writer sleeps.                    *)
WriteSleeps(p) ==
    /\ pc[p] = "write" /\ MayWrite(p)
    /\ \E k \in 0..todo[p]-1 :
          /\ PutBytes(k) /\ Full(Plus(nwrite, k))
          /\ todo' = [todo EXCEPT ![p] = @ - k]
    /\ pc' = [WakeReaders(pc) EXCEPT ![p] = "wsleep"]
    /\ KillMayLand(p)
    /\ silent' = FALSE
    /\ UNCHANGED <<page, nread, open, holds, got>>

(* No reader is left, or the writer was killed: it returns -1 at once.     *)
WriteFails(p) ==
    /\ pc[p] = "write" /\ todo[p] > 0 /\ ~MayWrite(p)
    /\ pc' = [pc EXCEPT ![p] = "user"]
    /\ todo' = [todo EXCEPT ![p] = 0]
    /\ UNCHANGED <<page, data, nread, nwrite, open, holds, killed,
                   nsent, got, silent>>

(* The kill comes after the writer has put bytes in: it returns -1 at the  *)
(* next turn, without the wakeup.                                          *)
WriteKilled(p) ==
    /\ pc[p] = "write" /\ MayWrite(p)
    /\ \E k \in 1..todo[p]-1 : PutBytes(k)
    /\ killed' = [killed EXCEPT ![p] = TRUE]
    /\ pc' = [pc EXCEPT ![p] = "user"]
    /\ todo' = [todo EXCEPT ![p] = 0]
    /\ silent' = TRUE
    /\ UNCHANGED <<page, nread, open, holds, got>>

(* Mutated form: the readers are not told.                                 *)
WriteReturns_NoWakeup(p) ==
    /\ pc[p] = "write" /\ (todo[p] = 0 \/ MayWrite(p))
    /\ \E k \in 0..todo[p] : PutBytes(k) /\ (k = todo[p] \/ ~Full(Plus(nwrite, k)))
    /\ pc' = [pc EXCEPT ![p] = "user"]
    /\ todo' = [todo EXCEPT ![p] = 0]
    /\ silent' = FALSE
    /\ UNCHANGED <<page, nread, open, holds, killed, got>>

(* All bytes are in, or copyin() of the next one fails.                    *)
WriteReturns(p) ==
    /\ pc[p] = "write" /\ (todo[p] = 0 \/ MayWrite(p))
    /\ \E k \in 0..todo[p] :
          PutBytes(k) /\ (k = todo[p] \/ ~Full(Plus(nwrite, k)))
    /\ pc' = [WakeReaders(pc) EXCEPT ![p] = "user"]
    /\ todo' = [todo EXCEPT ![p] = 0]
    /\ silent' = FALSE
    /\ UNCHANGED <<page, nread, open, holds, killed, got>>

-----------------------------------------------------------------------------
(* piperead().                                                             *)
piperead(p) ==
    /\ pc[p] = "user" /\ ~killed[p] /\ "r" \in holds[p]
    /\ \E n \in Lengths : todo' = [todo EXCEPT ![p] = n]
    /\ pc' = [pc EXCEPT ![p] = "read"]
    /\ UNCHANGED <<page, data, nread, nwrite, open, holds, killed,
                   nsent, got, silent>>

MustWait == Empty /\ "w" \in open

ReadSleeps(p) ==
    /\ pc[p] = "read"
    /\ MustWait /\ ~killed[p]
    /\ pc' = [pc EXCEPT ![p] = "rsleep"]
    /\ KillMayLand(p)
    /\ UNCHANGED <<page, data, nread, nwrite, open, holds, todo,
                   nsent, got, silent>>

ReadFails(p) ==
    /\ pc[p] = "read"
    /\ MustWait /\ killed[p]
    /\ pc' = [pc EXCEPT ![p] = "user"]
    /\ todo' = [todo EXCEPT ![p] = 0]
    /\ UNCHANGED <<page, data, nread, nwrite, open, holds, killed,
                   nsent, got, silent>>

(* Up to n bytes are taken; copyout() of the last one taken may fail, and  *)
(* that byte is gone.                                                      *)
ReadCopies(p) ==
    /\ pc[p] = "read"
    /\ ~MustWait
    /\ LET most == IF todo[p] < Used THEN todo[p] ELSE Used IN
       \/ /\ nread' = Plus(nread, most)
          /\ got' = got \o SubSeq(Contents, 1, most)
       \/ \E k \in 1..most :
             /\ nread' = Plus(nread, k)
             /\ got' = got \o SubSeq(Contents, 1, k - 1)
    /\ pc' = [WakeWriters(pc) EXCEPT ![p] = "user"]
    /\ todo' = [todo EXCEPT ![p] = 0]
    /\ UNCHANGED <<page, data, nwrite, open, holds, killed, nsent, silent>>

-----------------------------------------------------------------------------
(* fileclose() of one end, by close() or by exit().  Only the last         *)
(* reference leads to pipeclose().                                         *)
fileclose(p, e) ==
    /\ pc[p] = "user" /\ e \in holds[p]
    /\ holds' = [holds EXCEPT ![p] = @ \ {e}]
    /\ pc' = [pc EXCEPT ![p] = IF \E o \in Procs \ {p} : e \in holds[o]
                               THEN "user" ELSE ClosingPC(e)]
    /\ UNCHANGED <<page, data, nread, nwrite, open, todo, killed,
                   nsent, got, silent>>

(* Mutated forms: nobody is woken; the first close frees the page.         *)
pipeclose_NoWakeup(p, e) ==
    /\ pc[p] = ClosingPC(e)
    /\ open' = open \ {e}
    /\ pc' = [pc EXCEPT ![p] = "user"]
    /\ page' = IF open' = {} THEN "freed" ELSE page
    /\ UNCHANGED <<data, nread, nwrite, holds, todo, killed, nsent, got, silent>>

pipeclose_FreesEarly(p, e) ==
    /\ pc[p] = ClosingPC(e)
    /\ open' = open \ {e}
    /\ pc' = [WakeReaders(WakeWriters(pc)) EXCEPT ![p] = "user"]
    /\ page' = "freed"
    /\ UNCHANGED <<data, nread, nwrite, holds, todo, killed, nsent, got, silent>>

(* pipeclose(): the other side is woken; the second of the two closers     *)
(* frees the page.                                                         *)
pipeclose(p, e) ==
    /\ pc[p] = ClosingPC(e)
    /\ open' = open \ {e}
    /\ pc' = [IF e = "w" THEN WakeReaders(pc) ELSE WakeWriters(pc)
              EXCEPT ![p] = "user"]
    /\ page' = IF open' = {} THEN "freed" ELSE page
    /\ UNCHANGED <<data, nread, nwrite, holds, todo, killed,
                   nsent, got, silent>>

-----------------------------------------------------------------------------
Init ==
    /\ page = "none"
    /\ data = [k \in 0..PIPESIZE-1 |-> 0]
    /\ nread = 0 /\ nwrite = 0 /\ open = {}
    /\ holds = [p \in Procs |-> {}]
    /\ \E p \in Procs : pc = [q \in Procs |-> IF q = p THEN "user" ELSE "unborn"]
    /\ todo = [p \in Procs |-> 0]
    /\ killed = [p \in Procs |-> FALSE]
    /\ nsent = 0 /\ got = <<>> /\ silent = FALSE

InPipewrite(p) ==
    WriteSleeps(p) \/ WriteFails(p) \/ WriteKilled(p) \/ WriteReturns(p)

InPiperead(p) == ReadSleeps(p) \/ ReadFails(p) \/ ReadCopies(p)

Next ==
    \E p \in Procs :
        \/ sys_pipe(p)
        \/ \E c \in Procs : fork(p, c)
        \/ kill(p)
        \/ pipewrite(p) \/ InPipewrite(p)
        \/ piperead(p) \/ InPiperead(p)
        \/ \E e \in Ends : fileclose(p, e) \/ pipeclose(p, e)

Spec == Init /\ [][Next]_vars

(* A runnable process in the kernel runs on, and no section under the      *)
(* pipe's lock blocks.  Nothing is assumed about what processes ask for,   *)
(* nor that a kill comes.                                                  *)
Fairness ==
    \A p \in Procs :
        /\ WF_vars(WriteSleeps(p) \/ WriteFails(p) \/ WriteReturns(p))
        /\ WF_vars(InPiperead(p))
        /\ \A e \in Ends : WF_vars(pipeclose(p, e))

FairSpec == Spec /\ Fairness

-----------------------------------------------------------------------------
(* Every variable keeps its type; the counters stay unsigned integers of   *)
(* their width.                                                            *)
TypeOK ==
    /\ page \in {"none", "live", "freed"}
    /\ data \in [0..PIPESIZE-1 -> 0..MaxBytes]
    /\ nread \in 0..Modulus-1 /\ nwrite \in 0..Modulus-1
    /\ open \subseteq Ends /\ holds \in [Procs -> SUBSET Ends]
    /\ pc \in [Procs -> PCs]
    /\ todo \in [Procs -> Nat] /\ killed \in [Procs -> BOOLEAN]
    /\ nsent \in 0..MaxBytes /\ silent \in BOOLEAN

(* No wakeup is lost.  A reader sleeps only while a write end is open and  *)
(* the pipe is empty, or holds bytes of a writer that was killed between   *)
(* two bytes (pipewrite then returns -1 without the wakeup).  A writer     *)
(* sleeps only while the pipe is full and a read end is open.              *)
NoLostWakeup ==
    \A p \in Procs :
        /\ pc[p] = "rsleep" => "w" \in open /\ (Empty \/ silent)
        /\ pc[p] = "wsleep" => "r" \in open /\ Full(nwrite)

(* The page is freed only after everybody has left: no process that is in  *)
(* the code of the pipe, is about to close an end or holds a descriptor is *)
(* left with a freed page.                                                 *)
NoUseAfterFree ==
    page # "live" =>
        \A p \in Procs : holds[p] = {} /\ pc[p] \in {"unborn", "user"}

(* The ring buffer implements a bounded stream of bytes: readers get the   *)
(* bytes in the order they were written, none twice, none overwritten,     *)
(* across any wrap of the counters.                                        *)
Stream == INSTANCE ByteStream WITH
              Capacity <- PIPESIZE,
              pending <- IF page = "live" THEN Contents ELSE <<>>

ImplementsStream == Stream!Spec

(* End of file and broken pipe reach whoever is inside: a reader leaves    *)
(* once the write end is closed, a writer once the read end is.            *)
HangupEndsCalls ==
    \A p \in Procs :
        /\ ("w" \notin open /\ InRead(p)) ~> ~InRead(p)
        /\ ("r" \notin open /\ InWrite(p)) ~> ~InWrite(p)
=============================================================================
