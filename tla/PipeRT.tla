------------------------------- MODULE PipeRT -------------------------------
(***************************************************************************)
(* The prioritised pipe of proj2/kernel/pipe_rt.c: a kernel object with a  *)
(* read end and a write end whose writers insert tasks into a linked list  *)
(* ordered by priority and whose readers remove the head, sleeping while   *)
(* the list is empty and a write end is open.                              *)
(*                                                                         *)
(* Every critical section under p->lock is one action.  sleep() releases   *)
(* the lock and sleeps atomically with respect to wakeup(); module         *)
(* SleepLock models that protocol itself.  One pipe is modelled, from the  *)
(* system call that creates it to the last fileclose().                    *)
(***************************************************************************)
EXTENDS Integers, SequencesExt

CONSTANTS
    Procs,      \* processes
    Prios,      \* values of task_t.priority that processes write
    MaxWrites   \* bound on the number of writes that report success

ASSUME PipeRTAssumption == Prios \subseteq Int /\ MaxWrites \in Nat

VARIABLES
    queue,      \* the list p->head: records of priority and write number
    nread,      \* p->nread
    nwrite,     \* p->nwrite
    active,     \* p->active
    pages,      \* pages of kernel memory that belong to the pipe
    holds,      \* holds[p]: the ends for which p has an open descriptor
    pc,         \* where each process is
    killed,     \* p->killed
    nsent,      \* history: writes that returned sizeof(task)
    got,        \* history: numbers of the tasks copied to a reader
    dropped     \* history: numbers of the tasks that no reader will get

vars == <<queue, nread, nwrite, active, pages, holds, pc, killed,
          nsent, got, dropped>>

Ends == {"r", "w"}

Task == [priority : Prios, id : Nat \ {0}]

(* "unborn": not yet forked.  "reading": inside pipe_rt_read and about to  *)
(* test the loop condition with the lock.  "sleeping": on &p->nread.       *)
(* "closing_r", "closing_w": fileclose() has dropped the last reference to *)
(* the end and has not called pipe_rt_close() yet.                         *)
PCs == {"unborn", "user", "reading", "sleeping", "closing_r", "closing_w"}

ClosingPC(e) == IF e = "r" THEN "closing_r" ELSE "closing_w"

InRead(p) == pc[p] \in {"reading", "sleeping"}

-----------------------------------------------------------------------------
(* Where pq_insert links the new node: before the head when the list is    *)
(* empty or the task beats the head, otherwise after the head and after    *)
(* every following node that beats the task, up to the first that does not.*)

StopsWalk(q, prio) ==
    {i \in 2..Len(q) : ~(q[i].priority > prio)} \cup {Len(q) + 1}

(* Mutated forms: the head is never compared; the head loses to an equal.  *)
InsertPos_NoHeadTest(q, prio) ==
    IF q = <<>> THEN 1
    ELSE CHOOSE i \in StopsWalk(q, prio) : \A j \in StopsWalk(q, prio) : i <= j

InsertPos_EqualBeatsHead(q, prio) ==
    IF q = <<>> \/ prio >= q[1].priority THEN 1
    ELSE CHOOSE i \in StopsWalk(q, prio) : \A j \in StopsWalk(q, prio) : i <= j

InsertPos(q, prio) ==
    IF q = <<>> \/ prio > q[1].priority
    THEN 1
    ELSE CHOOSE i \in StopsWalk(q, prio) : \A j \in StopsWalk(q, prio) : i <= j

pq_insert(q, task) == InsertAt(q, InsertPos(q, task.priority), task)

(* wakeup(&p->nread): every sleeping reader becomes runnable and will      *)
(* re-test the loop condition.                                             *)
wakeup == [p \in Procs |-> IF pc[p] = "sleeping" THEN "reading" ELSE pc[p]]

-----------------------------------------------------------------------------
(* sys_pipe_rt().  The call fails without a trace when a page or a file    *)
(* structure is missing (pipe_rt_alloc frees what it took).  When a        *)
(* descriptor is missing or copyout fails, both files are closed again,    *)
(* which runs pipe_rt_close on both ends; the page stays with the pipe.    *)

pipe_rt_alloc == nread' = 1 /\ nwrite' = 1 /\ active' = TRUE

sys_pipe_rt(p) ==
    /\ pc[p] = "user" /\ ~killed[p]
    /\ pages = 0
    /\ pages' = 1
    /\ \/ /\ pipe_rt_alloc
          /\ holds' = [holds EXCEPT ![p] = Ends]
       \/ /\ nread' = 0 /\ nwrite' = 0 /\ active' = FALSE
          /\ UNCHANGED holds
    /\ UNCHANGED <<queue, pc, killed, nsent, got, dropped>>

(* fork(): the child's descriptors are duplicates of the parent's.         *)
fork(p, c) ==
    /\ pc[p] = "user" /\ ~killed[p] /\ pc[c] = "unborn"
    /\ pc' = [pc EXCEPT ![c] = "user"]
    /\ holds' = [holds EXCEPT ![c] = holds[p]]
    /\ UNCHANGED <<queue, nread, nwrite, active, pages, killed,
                   nsent, got, dropped>>

(* kill(): the victim is made runnable if it sleeps.                       *)
kill(p) ==
    /\ pc[p] # "unborn"
    /\ killed' = [killed EXCEPT ![p] = TRUE]
    /\ pc' = [pc EXCEPT ![p] = IF @ = "sleeping" THEN "reading" ELSE @]
    /\ UNCHANGED <<queue, nread, nwrite, active, pages, holds,
                   nsent, got, dropped>>

(* pipe_rt_write() of a task.  It fails, changing nothing, when no read    *)
(* end is open or copyin fails.  Otherwise it returns sizeof(task), also   *)
(* when pq_insert finds no memory and returns without linking the task.    *)
WriteNoMemory(p) ==
    /\ pc[p] = "user" /\ ~killed[p] /\ "w" \in holds[p]
    /\ active /\ nread > 0
    /\ nsent < MaxWrites
    /\ nsent' = nsent + 1
    /\ dropped' = dropped \cup {nsent'}
    /\ pc' = wakeup
    /\ UNCHANGED <<queue, nread, nwrite, active, pages, holds, killed, got>>

(* Mutated form: the writer does not wake the readers.                     *)
pipe_rt_write_NoWakeup(p, prio) ==
    /\ pc[p] = "user" /\ ~killed[p] /\ "w" \in holds[p]
    /\ active /\ nread > 0 /\ nsent < MaxWrites
    /\ nsent' = nsent + 1
    /\ queue' = pq_insert(queue, [priority |-> prio, id |-> nsent'])
    /\ pages' = pages + 1
    /\ UNCHANGED <<nread, nwrite, active, holds, killed, got, dropped, pc>>

pipe_rt_write(p, prio) ==
    /\ pc[p] = "user" /\ ~killed[p] /\ "w" \in holds[p]
    /\ active /\ nread > 0
    /\ nsent < MaxWrites
    /\ nsent' = nsent + 1
    /\ queue' = pq_insert(queue, [priority |-> prio, id |-> nsent'])
    /\ pages' = pages + 1
    /\ pc' = wakeup
    /\ UNCHANGED <<nread, nwrite, active, holds, killed, got, dropped>>

(* pipe_rt_read(): the system call is entered, then each turn of the loop  *)
(* either sleeps, fails on an empty list, or removes the head.  The loop   *)
(* does not look at killed.                                                *)
EnterRead(p) ==
    /\ pc[p] = "user" /\ ~killed[p] /\ "r" \in holds[p]
    /\ pc' = [pc EXCEPT ![p] = "reading"]
    /\ UNCHANGED <<queue, nread, nwrite, active, pages, holds, killed,
                   nsent, got, dropped>>

ReadSleeps(p) ==
    /\ pc[p] = "reading"
    /\ queue = <<>> /\ active /\ nwrite > 0
    /\ pc' = [pc EXCEPT ![p] = "sleeping"]
    /\ UNCHANGED <<queue, nread, nwrite, active, pages, holds, killed,
                   nsent, got, dropped>>

ReadEmpty(p) ==
    /\ pc[p] = "reading"
    /\ queue = <<>> /\ ~(active /\ nwrite > 0)
    /\ pc' = [pc EXCEPT ![p] = "user"]
    /\ UNCHANGED <<queue, nread, nwrite, active, pages, holds, killed,
                   nsent, got, dropped>>

(* Mutated form: the head is copied out and stays linked.                  *)
ReadTask_NotUnlinked(p) ==
    /\ pc[p] = "reading" /\ queue # <<>>
    /\ got' = got \cup {Head(queue).id}
    /\ pc' = [pc EXCEPT ![p] = "user"]
    /\ UNCHANGED <<queue, pages, dropped, nread, nwrite, active, holds, killed, nsent>>

(* pq_remove() unlinks the head and frees its node; when copyout() then    *)
(* fails the task is gone.                                                 *)
pq_remove == queue' = Tail(queue) /\ pages' = pages - 1

ReadTask(p) ==
    /\ pc[p] = "reading"
    /\ queue # <<>>
    /\ pq_remove
    /\ \/ got' = got \cup {Head(queue).id} /\ UNCHANGED dropped
       \/ dropped' = dropped \cup {Head(queue).id} /\ UNCHANGED got
    /\ pc' = [pc EXCEPT ![p] = "user"]
    /\ UNCHANGED <<nread, nwrite, active, holds, killed, nsent>>

pipe_rt_read(p) == ReadSleeps(p) \/ ReadEmpty(p) \/ ReadTask(p)

(* fileclose() of one end, by close() or by exit() (which closes every     *)
(* descriptor).  Only the last reference leads to pipe_rt_close().         *)
fileclose(p, e) ==
    /\ pc[p] = "user" /\ e \in holds[p]
    /\ holds' = [holds EXCEPT ![p] = @ \ {e}]
    /\ pc' = [pc EXCEPT ![p] = IF \E o \in Procs \ {p} : e \in holds[o]
                               THEN "user" ELSE ClosingPC(e)]
    /\ UNCHANGED <<queue, nread, nwrite, active, pages, killed,
                   nsent, got, dropped>>

(* Mutated form: the list is unlinked without freeing its nodes.           *)
pipe_rt_close_KeepsPages(p, e) ==
    /\ pc[p] = ClosingPC(e)
    /\ nwrite' = IF e = "w" THEN nwrite - 1 ELSE nwrite
    /\ nread' = IF e = "r" THEN nread - 1 ELSE nread
    /\ pc' = [IF e = "w" THEN wakeup ELSE pc EXCEPT ![p] = "user"]
    /\ IF nwrite' = 0 /\ nread' = 0
       THEN /\ queue' = <<>>
            /\ dropped' = dropped \cup {queue[i].id : i \in DOMAIN queue}
            /\ active' = FALSE
       ELSE UNCHANGED <<queue, dropped, active>>
    /\ UNCHANGED <<pages, holds, killed, nsent, got>>

(* pipe_rt_close(): the closer of the write end wakes the readers; the     *)
(* second of the two closers empties the list and clears active.           *)
pipe_rt_close(p, e) ==
    /\ pc[p] = ClosingPC(e)
    /\ nwrite' = IF e = "w" THEN nwrite - 1 ELSE nwrite
    /\ nread' = IF e = "r" THEN nread - 1 ELSE nread
    /\ pc' = [IF e = "w" THEN wakeup ELSE pc EXCEPT ![p] = "user"]
    /\ IF nwrite' = 0 /\ nread' = 0
       THEN /\ queue' = <<>>
            /\ pages' = pages - Len(queue)
            /\ dropped' = dropped \cup {queue[i].id : i \in DOMAIN queue}
            /\ active' = FALSE
       ELSE UNCHANGED <<queue, pages, dropped, active>>
    /\ UNCHANGED <<holds, killed, nsent, got>>

-----------------------------------------------------------------------------
Init ==
    /\ queue = <<>> /\ nread = 0 /\ nwrite = 0 /\ active = FALSE
    /\ pages = 0
    /\ holds = [p \in Procs |-> {}]
    /\ \E p \in Procs : pc = [q \in Procs |-> IF q = p THEN "user" ELSE "unborn"]
    /\ killed = [p \in Procs |-> FALSE]
    /\ nsent = 0 /\ got = {} /\ dropped = {}

Next ==
    \E p \in Procs :
        \/ sys_pipe_rt(p)
        \/ \E c \in Procs : fork(p, c)
        \/ kill(p)
        \/ WriteNoMemory(p)
        \/ \E prio \in Prios : pipe_rt_write(p, prio)
        \/ EnterRead(p)
        \/ pipe_rt_read(p)
        \/ \E e \in Ends : fileclose(p, e) \/ pipe_rt_close(p, e)

Spec == Init /\ [][Next]_vars

(* A process in the kernel that is runnable is scheduled again: the round- *)
(* robin scheduler visits every RUNNABLE process, and no section under the *)
(* pipe's lock blocks.  Nothing is assumed about what processes ask for.   *)
Fairness ==
    \A p \in Procs : /\ WF_vars(pipe_rt_read(p))
                     /\ \A e \in Ends : WF_vars(pipe_rt_close(p, e))

FairSpec == Spec /\ Fairness

-----------------------------------------------------------------------------
(* Every variable keeps its type; the counters of open ends stay 0 or 1    *)
(* because pipe_rt_close runs once per file structure.                     *)
TypeOK ==
    /\ queue \in Seq(Task)
    /\ nread \in {0, 1} /\ nwrite \in {0, 1} /\ active \in BOOLEAN
    /\ pages \in Nat
    /\ holds \in [Procs -> SUBSET Ends]
    /\ pc \in [Procs -> PCs]
    /\ killed \in [Procs -> BOOLEAN]
    /\ nsent \in Nat /\ got \subseteq 1..nsent /\ dropped \subseteq 1..nsent

(* The list that pq_insert builds is ordered: no task stands behind one of *)
(* lower priority, whatever the order of writes and reads.                 *)
Ordered(q) == \A i, j \in DOMAIN q : i < j => q[i].priority >= q[j].priority

PriorityOrder == Ordered(queue)

(* An open end and the pipe's counters agree: nread (nwrite) is 1 exactly  *)
(* while some process holds the end or is between dropping the last        *)
(* reference in fileclose() and pipe_rt_close(), and active is cleared     *)
(* only when neither end can be used any more.                             *)
EndOpen(e) == \E p \in Procs : e \in holds[p] \/ pc[p] = ClosingPC(e)

EndCounts ==
    /\ nread = IF EndOpen("r") THEN 1 ELSE 0
    /\ nwrite = IF EndOpen("w") THEN 1 ELSE 0
    /\ active <=> nread + nwrite > 0

(* No wakeup is lost: a process sleeps in pipe_rt_read only while the list *)
(* is empty and a write end is open, so no task and no end-of-file waits   *)
(* for a reader that sleeps.                                               *)
NoLostWakeup ==
    \A p \in Procs : pc[p] = "sleeping" => queue = <<>> /\ active /\ nwrite > 0

(* Every task whose write reported success is exactly one of: queued (once)*)
(* delivered, or dropped (no memory in pq_insert, copyout failed after     *)
(* pq_remove, or still queued at the last close).                          *)
QueuedIds == {queue[i].id : i \in DOMAIN queue}

TaskAccounting ==
    /\ QueuedIds \cup got \cup dropped = 1..nsent
    /\ got \cap dropped = {} /\ QueuedIds \cap (got \cup dropped) = {}
    /\ \A i, j \in DOMAIN queue : queue[i].id = queue[j].id => i = j

(* Memory: once created, the pipe owns one page per queued task and one    *)
(* for struct pipe_rt; the latter is kept even after both ends are closed, *)
(* since pipe_rt_close never frees the structure.                          *)
PageAccounting ==
    IF pages = 0 THEN queue = <<>> /\ ~active ELSE pages = 1 + Len(queue)

(* After the last close no task stays behind in the list.                  *)
ClosedIsEmpty == ~EndOpen("r") /\ ~EndOpen("w") => queue = <<>>

(* A task never overtakes the head of the list unless its priority is      *)
(* strictly higher: the comparison with the head in pq_insert is strict.   *)
HeadKept ==
    Len(queue') > Len(queue) /\ queue # <<>> =>
        \/ Head(queue') = Head(queue)
        \/ Head(queue').priority > Head(queue).priority

HeadNotOvertaken == [][HeadKept]_vars

(* No reader is left behind: while a process is inside pipe_rt_read the    *)
(* list does not stay non-empty, because every insertion wakes the         *)
(* readers, and when the last write end is closed each of them leaves.     *)
ReadersServed ==
    /\ (queue # <<>> /\ \E p \in Procs : InRead(p)) ~>
          (queue = <<>> \/ \A p \in Procs : ~InRead(p))
    /\ \A p \in Procs : (nwrite = 0 /\ InRead(p)) ~> ~InRead(p)

(* The pipe implements the abstract priority channel.                      *)
Channel == INSTANCE PrioChannel WITH
              pending <- {queue[i] : i \in DOMAIN queue}

ImplementsChannel == Channel!Spec
=============================================================================
