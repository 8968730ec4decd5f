------------------------------- MODULE MCProc --------------------------------
(* Small instances, for TLC, of the life cycle of processes (module Proc),  *)
(* of the CPUs that run them (Sched) and of the page that fork() and exit() *)
(* share and count (Shm).  A behaviour is one of the three; the state of    *)
(* the others does not change.                                              *)
EXTENDS Proc

CONSTANTS
    NSLOTS,     \* slots of the process table that the CPUs walk round
    NCPU,       \* CPUs that run scheduler()
    Masks,      \* arguments of set_cpu_affinity
    Procs,      \* processes that share the page
    p1,         \* the first of them
    Pages,      \* pages it may be taken from
    NOPAGE,     \* the null pointer
    NONE        \* no mapping

VARIABLES on
VARIABLES pstate, cpu_mask, cpu, scan, moved
VARIABLES shm_memory, shm_refs, free, mapped, at, reg, child, panicked, gets, lost

cpuvars == <<pstate, cpu_mask, cpu, scan, moved>>
shmvars == <<shm_memory, shm_refs, free, mapped, at, reg, child, panicked, gets, lost>>
allvars == <<on, vars, cpuvars, shmvars>>

K == INSTANCE Sched WITH NPROC <- NSLOTS, state <- pstate
H == INSTANCE Shm WITH NULL <- NOPAGE, pc <- at

ASSUME SchedAssumption == K!SchedAssumption
ASSUME ShmAssumption == H!ShmAssumption

(* -1 allows any CPU, 7 names a CPU that does not exist, and the mask of a *)
(* slot that nobody set is 0, the first CPU.                                *)
SomeMasks == {-1, 7}

InitAll == on \in {"life", "cpus", "page"} /\ Init /\ K!Init /\ H!Init /\ at[p1] = "user"

NextAll ==
    \/ on = "life" /\ Next /\ UNCHANGED <<on, cpuvars, shmvars>>
    \/ on = "cpus" /\ K!Next /\ UNCHANGED <<on, vars, shmvars>>
    \/ on = "page" /\ H!Next /\ UNCHANGED <<on, vars, cpuvars>>

(* The modules' fairness, each for the behaviours in which it moves.        *)
FairAll ==
    /\ \A p \in Slots :
          /\ WF_vars(on = "life" /\ InKernel(p))
          /\ WF_vars(on = "life" /\ killed[p] /\ exit(p))
          /\ WF_vars(on = "life" /\ p = initproc /\ EnterWait(p))
    /\ \A c \in K!CPUs :
          /\ WF_cpuvars(on = "cpus" /\ K!scheduler(c))
          /\ WF_cpuvars(on = "cpus" /\ K!yield(c))

SpecAll == InitAll /\ [][NextAll]_allvars /\ FairAll

(* No two CPUs run one process (scheduler() of proc.c).                     *)
OneCPU == K!OneCPU

(* shm_refs counts forks and exits, and no mapping of sys_shmget() (shm.c). *)
RefsShortByGets == H!RefsShortByGets

(* scheduler() starves no process whose mask names a CPU (proc.c).          *)
RunnableRuns == (on = "cpus") => K!RunnableRuns
=============================================================================
