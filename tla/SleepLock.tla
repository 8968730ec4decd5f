------------------------------ MODULE SleepLock ------------------------------
(***************************************************************************)
(* A sleep lock (kernel/sleeplock.c) on top of sleep() and wakeup()        *)
(* (kernel/proc.c), at the granularity of their spinlocks: lk->lk, which   *)
(* guards the sleep lock, and p->lock, which guards the state of process   *)
(* p.  The other modules take "release the lock and sleep" as one step;    *)
(* here it takes three, and wakeup() takes one for each process it visits. *)
(*                                                                         *)
(* A section that runs with a spinlock held and touches only what that     *)
(* spinlock guards is one step.  There is one sleep lock, so the channel a *)
(* process sleeps on is not represented.                                   *)
(***************************************************************************)
EXTENDS Naturals, FiniteSets

CONSTANTS
    Procs,      \* processes that use the sleep lock
    NONE        \* no process

VARIABLES
    lk,         \* the holder of the spinlock lk->lk
    locked,     \* lk->locked
    pid,        \* lk->pid
    plock,      \* plock[p]: p holds its own p->lock
    state,      \* p->state
    scan,       \* scan[p]: processes wakeup(), called by p, has yet to visit
    pc          \* where each process is

vars == <<lk, locked, pid, plock, state, scan, pc>>

(* idle       outside                                                      *)
(* test       in acquiresleep, spinlock held, about to test lk->locked     *)
(* sleep      in sleep(), about to acquire p->lock                         *)
(* unlock     in sleep(), both locks held, about to release lk->lk         *)
(* park       in sleep(), p->lock held, about to become SLEEPING           *)
(* asleep     switched to the scheduler                                    *)
(* relock     sleep() is about to reacquire lk->lk                         *)
(* owner      holds the sleep lock                                         *)
(* wakeup     in releasesleep, spinlock held, visiting the processes       *)
PCs == {"idle", "test", "sleep", "unlock", "park", "asleep", "relock",
        "owner", "wakeup"}

SpinHeldAt == {"test", "sleep", "unlock", "wakeup"}

Goto(p, l) == pc' = [pc EXCEPT ![p] = l]

-----------------------------------------------------------------------------
(* acquiresleep(): acquire(&lk->lk), then the loop.                        *)
Acquire(p) ==
    /\ pc[p] \in {"idle", "relock"} /\ lk = NONE
    /\ lk' = p
    /\ Goto(p, "test")
    /\ UNCHANGED <<locked, pid, plock, state, scan>>

(* Mutated form: the lock is taken without looking at lk->locked.          *)
Take_NoTest(p) ==
    /\ pc[p] = "test"
    /\ locked' = TRUE /\ pid' = p
    /\ lk' = NONE
    /\ Goto(p, "owner")
    /\ UNCHANGED <<plock, state, scan>>

Take(p) ==
    /\ pc[p] = "test" /\ ~locked
    /\ locked' = TRUE /\ pid' = p
    /\ lk' = NONE
    /\ Goto(p, "owner")
    /\ UNCHANGED <<plock, state, scan>>

Wait(p) ==
    /\ pc[p] = "test" /\ locked
    /\ Goto(p, "sleep")
    /\ UNCHANGED <<lk, locked, pid, plock, state, scan>>

(* sleep(lk, &lk->lk): p->lock is acquired before lk->lk is released, so   *)
(* that a wakeup() that runs from then on has to wait for p to be asleep.  *)
(* Mutated form: the two are done in the other order.                      *)
SleepLocksProc_Swapped(p) ==
    /\ pc[p] = "sleep" /\ lk' = NONE
    /\ Goto(p, "unlock")
    /\ UNCHANGED <<locked, pid, state, scan, plock>>

SleepLocksProc(p) ==
    /\ pc[p] = "sleep"
    /\ plock' = [plock EXCEPT ![p] = TRUE]
    /\ Goto(p, "unlock")
    /\ UNCHANGED <<lk, locked, pid, state, scan>>

SleepReleases(p) ==
    /\ pc[p] = "unlock"
    /\ lk' = NONE
    /\ Goto(p, "park")
    /\ UNCHANGED <<locked, pid, plock, state, scan>>

(* p->state = SLEEPING; sched().  The scheduler, running on the same CPU,  *)
(* releases p->lock.                                                       *)
SleepParks(p) ==
    /\ pc[p] = "park"
    /\ state' = [state EXCEPT ![p] = "SLEEPING"]
    /\ plock' = [plock EXCEPT ![p] = FALSE]
    /\ Goto(p, "asleep")
    /\ UNCHANGED <<lk, locked, pid, scan>>

(* The scheduler acquires p->lock and resumes a RUNNABLE process, which    *)
(* leaves sched(), clears p->chan and releases p->lock.                    *)
SleepResumes(p) ==
    /\ pc[p] = "asleep" /\ state[p] = "RUNNABLE"
    /\ state' = [state EXCEPT ![p] = "RUNNING"]
    /\ Goto(p, "relock")
    /\ UNCHANGED <<lk, locked, pid, plock, scan>>

(* releasesleep(): everything up to the call of wakeup().                  *)
Release(p) ==
    /\ pc[p] = "owner" /\ lk = NONE
    /\ lk' = p
    /\ locked' = FALSE /\ pid' = NONE
    /\ scan' = [scan EXCEPT ![p] = Procs \ {p}]
    /\ Goto(p, "wakeup")
    /\ UNCHANGED <<plock, state>>

(* One turn of the loop of wakeup(): it waits for q's lock, and a SLEEPING *)
(* q becomes RUNNABLE.  The order of the visits is left open.              *)
WakeupVisits(p, q) ==
    /\ pc[p] = "wakeup" /\ q \in scan[p]
    /\ ~plock[q]
    /\ state' = [state EXCEPT ![q] = IF @ = "SLEEPING" THEN "RUNNABLE" ELSE @]
    /\ scan' = [scan EXCEPT ![p] = @ \ {q}]
    /\ UNCHANGED <<lk, locked, pid, plock, pc>>

WakeupDone(p) ==
    /\ pc[p] = "wakeup" /\ scan[p] = {}
    /\ lk' = NONE
    /\ Goto(p, "idle")
    /\ UNCHANGED <<locked, pid, plock, state, scan>>

(* kill(p), or the callback of p's period timer: a process that sleeps is  *)
(* made RUNNABLE whatever it sleeps for.                                   *)
SpuriousWakeup(p) ==
    /\ state[p] = "SLEEPING" /\ ~plock[p]
    /\ state' = [state EXCEPT ![p] = "RUNNABLE"]
    /\ UNCHANGED <<lk, locked, pid, plock, scan, pc>>

-----------------------------------------------------------------------------
Init ==
    /\ lk = NONE /\ locked = FALSE /\ pid = NONE
    /\ plock = [p \in Procs |-> FALSE]
    /\ state = [p \in Procs |-> "RUNNING"]
    /\ scan = [p \in Procs |-> {}]
    /\ pc = [p \in Procs |-> "idle"]

(* The steps of a process that is inside one of the two functions.         *)
Step(p) ==
    \/ pc[p] = "relock" /\ Acquire(p)
    \/ Take(p) \/ Wait(p)
    \/ SleepLocksProc(p) \/ SleepReleases(p) \/ SleepParks(p) \/ SleepResumes(p)
    \/ \E q \in Procs : WakeupVisits(p, q)
    \/ WakeupDone(p)

Next ==
    \E p \in Procs :
        \/ Acquire(p)
        \/ Release(p)
        \/ Step(p)
        \/ SpuriousWakeup(p)

Spec == Init /\ [][Next]_vars

(* A process inside the kernel keeps running: a CPU that holds a spinlock  *)
(* has its interrupts off, and RUNNABLE processes are scheduled.  A holder *)
(* of the sleep lock gives it back: every caller pairs the two functions.  *)
Fairness ==
    \A p \in Procs : WF_vars(Step(p)) /\ WF_vars(Release(p))

FairSpec == Spec /\ Fairness

-----------------------------------------------------------------------------
(* Every variable keeps its type, and only a process in wakeup() has       *)
(* processes left to visit.                                                *)
TypeOK ==
    /\ lk \in Procs \cup {NONE}
    /\ locked \in BOOLEAN
    /\ pid \in Procs \cup {NONE}
    /\ plock \in [Procs -> BOOLEAN]
    /\ state \in [Procs -> {"RUNNING", "RUNNABLE", "SLEEPING"}]
    /\ scan \in [Procs -> SUBSET Procs]
    /\ pc \in [Procs -> PCs]
    /\ \A p \in Procs : scan[p] # {} => pc[p] = "wakeup"

(* The spinlocks are balanced: lk->lk is held exactly in the sections that *)
(* the code brackets with acquire and release, and a process enters        *)
(* sched() with p->lock and without lk->lk, which sched() would panic on.  *)
SpinLocksBalanced ==
    \A p \in Procs :
        /\ lk = p <=> pc[p] \in SpinHeldAt
        /\ plock[p] <=> pc[p] \in {"unlock", "park"}
        /\ state[p] # "RUNNING" <=> pc[p] = "asleep"

(* acquiresleep gives the lock to one process at a time, although a waiter *)
(* holds no spinlock while it sleeps and tests lk->locked again later.     *)
MutualExclusion ==
    \A p, q \in Procs : pc[p] = "owner" /\ pc[q] = "owner" => p = q

(* lk->pid names the holder exactly while there is one: what holdingsleep  *)
(* tells bwrite, brelse and iunlock is right for the caller.               *)
HolderRecorded ==
    /\ \A p \in Procs : pc[p] = "owner" <=> locked /\ pid = p
    /\ ~locked => pid = NONE

(* No wakeup is lost between the test of lk->locked and the sleep: when    *)
(* the lock is free, a process that sleeps, or that has given up lk->lk in *)
(* order to sleep, is still to be visited by a wakeup() under way.         *)
NoLostWakeup ==
    \A q \in Procs :
        ~locked /\ (pc[q] = "park" \/ state[q] = "SLEEPING") =>
            \E p \in Procs : pc[p] = "wakeup" /\ q \in scan[p]

(* While processes want the lock, somebody gets it: no interleaving of     *)
(* sleep() and wakeup() leaves all of them asleep.                         *)
Wants(p) == pc[p] \notin {"idle", "owner", "wakeup"}

SomebodyGetsIt == (\E p \in Procs : Wants(p)) ~> (\E p \in Procs : pc[p] = "owner")
=============================================================================
