-------------------------------- MODULE Proc --------------------------------
(***************************************************************************)
(* The process table of kernel/proc.c: allocproc, fork, exit, reparent,    *)
(* wait, kill and freeproc, with sleep and wakeup on the channel of wait.  *)
(*                                                                         *)
(* parent fields are guarded by wait_lock; exit() holds it from reparent() *)
(* until the process is a zombie and wait() holds it while it scans, so    *)
(* each of the two is one step.  fork() gives up the child's lock twice,   *)
(* and wait() can be overtaken by kill() between its look at p->killed and *)
(* its sleep, so these are several.  Which CPU runs a process is the       *)
(* subject of module Sched: RUNNABLE stands for RUNNABLE and RUNNING.      *)
(***************************************************************************)
EXTENDS Integers, FiniteSets

CONSTANTS
    NPROC,      \* slots of the process table
    MaxPid      \* bound on the pids handed out

ASSUME ProcAssumption == NPROC \in Nat \ {0} /\ MaxPid \in Nat

VARIABLES
    state,      \* p->state
    parent,     \* p->parent
    pid,        \* p->pid
    killed,     \* p->killed
    nextpid,    \* the next pid
    pc,         \* where the process is
    np,         \* the child fork() is setting up
    ppid        \* history: the pid of the process p->parent was set to

vars == <<state, parent, pid, killed, nextpid, pc, np, ppid>>

Slots == 0..(NPROC - 1)

NULL == -1

(* userinit() runs first and gets the first slot.                          *)
initproc == 0

States == {"UNUSED", "USED", "RUNNABLE", "SLEEPING", "ZOMBIE"}

(* "forked": fork() has filled in the child, which has no parent yet.      *)
(* "adopted": the child has its parent and is not RUNNABLE yet.            *)
(* "wait": in wait(), about to scan, or asleep on the channel p.           *)
(* "wait_sleep": wait() found nothing and is about to sleep; it holds      *)
(* wait_lock.                                                              *)
PCs == {"user", "forked", "adopted", "wait", "wait_sleep"}

Children(p) == {q \in Slots : parent[q] = p}

WaitLockFree == \A q \in Slots : pc[q] # "wait_sleep"

CanRun(p) == state[p] = "RUNNABLE"

IsFirst(s, S) == s \in S /\ \A t \in S : s <= t

(* wakeup(c) for the channels c of a set, in a state s of the table: the   *)
(* channel of a process is its own slot.                                   *)
wakeup(s, chans) ==
    [q \in Slots |-> IF s[q] = "SLEEPING" /\ q \in chans THEN "RUNNABLE" ELSE s[q]]

-----------------------------------------------------------------------------
(* fork().  allocproc() takes the first UNUSED slot and a new pid.  When   *)
(* there is no memory the slot is given back before its lock is released,  *)
(* and only the pid is used up.                                            *)
fork(p) ==
    /\ CanRun(p) /\ pc[p] = "user" /\ ~killed[p]
    /\ nextpid <= MaxPid
    /\ nextpid' = nextpid + 1
    /\ \E c \in Slots :
         /\ IsFirst(c, {q \in Slots : state[q] = "UNUSED"})
         /\ \/ /\ state' = [state EXCEPT ![c] = "USED"]
               /\ pid' = [pid EXCEPT ![c] = nextpid]
               /\ np' = [np EXCEPT ![p] = c]
               /\ pc' = [pc EXCEPT ![p] = "forked", ![c] = "user"]
            \/ UNCHANGED <<state, pid, np, pc>>
    /\ UNCHANGED <<parent, killed, ppid>>

fork_parent(p) ==
    /\ CanRun(p) /\ pc[p] = "forked" /\ WaitLockFree
    /\ parent' = [parent EXCEPT ![np[p]] = p]
    /\ ppid' = [ppid EXCEPT ![np[p]] = pid[p]]
    /\ pc' = [pc EXCEPT ![p] = "adopted"]
    /\ UNCHANGED <<state, pid, killed, nextpid, np>>

fork_runnable(p) ==
    /\ CanRun(p) /\ pc[p] = "adopted"
    /\ state' = [state EXCEPT ![np[p]] = "RUNNABLE"]
    /\ np' = [np EXCEPT ![p] = NULL]
    /\ pc' = [pc EXCEPT ![p] = "user"]
    /\ UNCHANGED <<parent, pid, killed, nextpid, ppid>>

-----------------------------------------------------------------------------
(* exit(), from a system call or from usertrap() for a killed process.     *)
(* reparent() hands the children to init and wakes init if there are any;  *)
(* the parent is woken before the process becomes a zombie, and has to     *)
(* wait for wait_lock.                                                     *)
(* Mutated forms: the children keep their parent; init is not woken for    *)
(* the children it inherits.                                               *)
exit_NoReparent(p) ==
    /\ CanRun(p) /\ pc[p] = "user" /\ p # initproc
    /\ WaitLockFree
    /\ state' = [wakeup(state, {parent[p]}) EXCEPT ![p] = "ZOMBIE"]
    /\ UNCHANGED <<parent, ppid, pid, killed, nextpid, pc, np>>

exit_InitNotWoken(p) ==
    /\ CanRun(p) /\ pc[p] = "user" /\ p # initproc
    /\ WaitLockFree
    /\ parent' = [q \in Slots |-> IF parent[q] = p THEN initproc ELSE parent[q]]
    /\ ppid' = [q \in Slots |-> IF parent[q] = p THEN pid[initproc] ELSE ppid[q]]
    /\ state' = [wakeup(state, {parent[p]}) EXCEPT ![p] = "ZOMBIE"]
    /\ UNCHANGED <<pid, killed, nextpid, pc, np>>

exit(p) ==
    /\ CanRun(p) /\ pc[p] = "user" /\ p # initproc
    /\ WaitLockFree
    /\ parent' = [q \in Slots |-> IF parent[q] = p THEN initproc ELSE parent[q]]
    /\ ppid' = [q \in Slots |-> IF parent[q] = p THEN pid[initproc] ELSE ppid[q]]
    /\ state' = [wakeup(state, {parent[p]}
                               \cup (IF Children(p) # {} THEN {initproc} ELSE {}))
                 EXCEPT ![p] = "ZOMBIE"]
    /\ UNCHANGED <<pid, killed, nextpid, pc, np>>

-----------------------------------------------------------------------------
(* wait().  The scan stops at the first child that is a zombie; it is      *)
(* freed unless copyout() of its status fails (init passes no address).    *)
EnterWait(p) ==
    /\ CanRun(p) /\ pc[p] = "user" /\ ~killed[p]
    /\ pc' = [pc EXCEPT ![p] = "wait"]
    /\ UNCHANGED <<state, parent, pid, killed, nextpid, np, ppid>>

Zombies(p) == {q \in Children(p) : state[q] = "ZOMBIE"}

WaitReaps(p) ==
    /\ CanRun(p) /\ pc[p] = "wait" /\ WaitLockFree
    /\ Zombies(p) # {}
    /\ \/ \E z \in Slots :
            /\ IsFirst(z, Zombies(p))
            /\ state' = [state EXCEPT ![z] = "UNUSED"]
            /\ parent' = [parent EXCEPT ![z] = NULL]
            /\ pid' = [pid EXCEPT ![z] = 0]
            /\ killed' = [killed EXCEPT ![z] = FALSE]
       \/ p # initproc /\ UNCHANGED <<state, parent, pid, killed>>
    /\ pc' = [pc EXCEPT ![p] = "user"]
    /\ UNCHANGED <<nextpid, np, ppid>>

WaitFails(p) ==
    /\ CanRun(p) /\ pc[p] = "wait" /\ WaitLockFree
    /\ Zombies(p) = {}
    /\ Children(p) = {} \/ killed[p]
    /\ pc' = [pc EXCEPT ![p] = "user"]
    /\ UNCHANGED <<state, parent, pid, killed, nextpid, np, ppid>>

WaitFindsNone(p) ==
    /\ CanRun(p) /\ pc[p] = "wait" /\ WaitLockFree
    /\ Zombies(p) = {} /\ Children(p) # {} /\ ~killed[p]
    /\ pc' = [pc EXCEPT ![p] = "wait_sleep"]
    /\ UNCHANGED <<state, parent, pid, killed, nextpid, np, ppid>>

(* sleep(p, &wait_lock): from here on wait() starts over when it is woken. *)
WaitSleeps(p) ==
    /\ CanRun(p) /\ pc[p] = "wait_sleep"
    /\ state' = [state EXCEPT ![p] = "SLEEPING"]
    /\ pc' = [pc EXCEPT ![p] = "wait"]
    /\ UNCHANGED <<parent, pid, killed, nextpid, np, ppid>>

(* kill() of a process other than init, which would panic in exit().       *)
kill(q) ==
    /\ state[q] # "UNUSED" /\ q # initproc
    /\ killed' = [killed EXCEPT ![q] = TRUE]
    /\ state' = [state EXCEPT ![q] = IF @ = "SLEEPING" THEN "RUNNABLE" ELSE @]
    /\ UNCHANGED <<parent, pid, nextpid, pc, np, ppid>>

-----------------------------------------------------------------------------
Init ==
    /\ state = [p \in Slots |-> IF p = initproc THEN "RUNNABLE" ELSE "UNUSED"]
    /\ parent = [p \in Slots |-> NULL]
    /\ pid = [p \in Slots |-> IF p = initproc THEN 1 ELSE 0]
    /\ killed = [p \in Slots |-> FALSE]
    /\ nextpid = 2
    /\ pc = [p \in Slots |-> "user"]
    /\ np = [p \in Slots |-> NULL]
    /\ ppid = [p \in Slots |-> 0]

(* What a process does once it is inside fork() or wait().                 *)
InKernel(p) ==
    \/ fork_parent(p) \/ fork_runnable(p)
    \/ WaitReaps(p) \/ WaitFails(p) \/ WaitFindsNone(p) \/ WaitSleeps(p)

Next ==
    \E p \in Slots :
        \/ fork(p) \/ exit(p) \/ EnterWait(p) \/ kill(p)
        \/ InKernel(p)

Spec == Init /\ [][Next]_vars

(* A process inside the kernel is scheduled until it returns.  A killed    *)
(* process exits on its way back to user space, and init (user/init.c)     *)
(* calls wait() for ever.                                                  *)
Fairness ==
    \A p \in Slots :
        /\ WF_vars(InKernel(p))
        /\ WF_vars(killed[p] /\ exit(p))
        /\ WF_vars(p = initproc /\ EnterWait(p))

FairSpec == Spec /\ Fairness

-----------------------------------------------------------------------------
(* Every variable keeps its type; fork() remembers a child exactly while   *)
(* it sets one up, and that slot is USED.                                  *)
TypeOK ==
    /\ state \in [Slots -> States]
    /\ parent \in [Slots -> Slots \cup {NULL}]
    /\ pid \in [Slots -> Nat]
    /\ killed \in [Slots -> BOOLEAN]
    /\ nextpid \in Nat
    /\ pc \in [Slots -> PCs]
    /\ np \in [Slots -> Slots \cup {NULL}]
    /\ ppid \in [Slots -> Nat]
    /\ \A p \in Slots : /\ np[p] # NULL <=> pc[p] \in {"forked", "adopted"}
                        /\ np[p] # NULL => state[np[p]] = "USED"

(* kill() finds a process by its pid: a slot in use has a pid of its own,  *)
(* a free slot has none, and a new process does not start out killed.      *)
PidsUnique ==
    \A p, q \in Slots :
        /\ pid[p] = 0 <=> state[p] = "UNUSED"
        /\ pid[p] = pid[q] /\ pid[p] # 0 => p = q
        /\ state[p] = "UNUSED" => ~killed[p]

(* The parent of a process that has started is alive, has not exited, and  *)
(* is the process that forked it or init: a slot that is freed and reused  *)
(* never becomes the parent of somebody else's child.                      *)
ParentAlive ==
    \A p \in Slots \ {initproc} :
        state[p] \notin {"UNUSED", "USED"} =>
            /\ parent[p] # NULL
            /\ state[parent[p]] \in {"RUNNABLE", "SLEEPING"}
            /\ pid[parent[p]] = ppid[p]

(* No exit is missed: a process that sleeps in wait() has a child, and     *)
(* none of its children is a zombie.                                       *)
NoMissedExit ==
    \A p \in Slots : state[p] = "SLEEPING" => Children(p) # {} /\ Zombies(p) = {}

(* Every zombie that init inherits, or that is its own child, is freed.    *)
OrphansReaped ==
    \A p \in Slots : (state[p] = "ZOMBIE" /\ parent[p] = initproc) ~> state[p] = "UNUSED"
=============================================================================
