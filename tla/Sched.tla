-------------------------------- MODULE Sched --------------------------------
(***************************************************************************)
(* scheduler() of kernel/proc.c on several CPUs, with the affinity of      *)
(* proj3/kernel/cpu_affinity.c.  Each CPU walks round the process table    *)
(* and runs the RUNNABLE processes whose cpu_mask lets it, until they      *)
(* yield, sleep or exit.  The process life cycle is module Proc's; here a  *)
(* slot is filled, freed and filled again because the fields scheduler()   *)
(* reads outlive the process that set them.                                *)
(***************************************************************************)
EXTENDS Integers

CONSTANTS
    NPROC,      \* slots of the process table
    NCPU,       \* CPUs that run scheduler()
    Masks       \* arguments of set_cpu_affinity

(* At least a slot and a CPU.                                             *)
SchedAssumption ==
    /\ NPROC \in Nat \ {0} /\ NCPU \in Nat \ {0}
    /\ Masks \subseteq Int

VARIABLES
    state,      \* p->state
    cpu_mask,   \* p->cpu_mask
    cpu,        \* c->proc
    scan,       \* the slot the scheduler of a CPU is looking at
    moved       \* history: p changed its mask since it was dispatched

vars == <<state, cpu_mask, cpu, scan, moved>>

Slots == 1..NPROC
CPUs == 0..(NCPU - 1)
NULL == 0
initproc == 1

(* The scheduler's condition: a mask is -1 for any CPU or the number of    *)
(* one CPU.                                                                *)
Allowed(p, c) == cpu_mask[p] = -1 \/ cpu_mask[p] = c

Following(p) == IF p = NPROC THEN 1 ELSE p + 1

-----------------------------------------------------------------------------
(* One turn of the scheduler's loop: run the process of the slot, or go on.*)
(* Mutated form: the state is not updated, so that another CPU finds the   *)
(* process RUNNABLE.                                                       *)
Dispatch_StaysRunnable(c) ==
    /\ cpu[c] = NULL
    /\ state[scan[c]] = "RUNNABLE" /\ Allowed(scan[c], c)
    /\ cpu' = [cpu EXCEPT ![c] = scan[c]]
    /\ moved' = [moved EXCEPT ![scan[c]] = FALSE]
    /\ UNCHANGED <<state, cpu_mask, scan>>

Dispatch(c) ==
    /\ cpu[c] = NULL
    /\ state[scan[c]] = "RUNNABLE" /\ Allowed(scan[c], c)
    /\ state' = [state EXCEPT ![scan[c]] = "RUNNING"]
    /\ cpu' = [cpu EXCEPT ![c] = scan[c]]
    /\ moved' = [moved EXCEPT ![scan[c]] = FALSE]
    /\ UNCHANGED <<cpu_mask, scan>>

Skip(c) ==
    /\ cpu[c] = NULL
    /\ ~(state[scan[c]] = "RUNNABLE" /\ Allowed(scan[c], c))
    /\ scan' = [scan EXCEPT ![c] = Following(@)]
    /\ UNCHANGED <<state, cpu_mask, cpu, moved>>

scheduler(c) == Dispatch(c) \/ Skip(c)

(* The process on a CPU enters sched() in a new state; the scheduler goes  *)
(* on with the slot that follows.  Mutated form: it starts over.           *)
sched_StartsOver(c, s) ==
    /\ state' = [state EXCEPT ![cpu[c]] = s]
    /\ cpu' = [cpu EXCEPT ![c] = NULL]
    /\ scan' = [scan EXCEPT ![c] = 1]
    /\ UNCHANGED <<cpu_mask, moved>>

sched(c, s) ==
    /\ state' = [state EXCEPT ![cpu[c]] = s]
    /\ cpu' = [cpu EXCEPT ![c] = NULL]
    /\ scan' = [scan EXCEPT ![c] = Following(@)]
    /\ UNCHANGED <<cpu_mask, moved>>

(* yield() on a timer interrupt, sleep(), exit().                          *)
yield(c) == cpu[c] # NULL /\ sched(c, "RUNNABLE")
sleep(c) == cpu[c] # NULL /\ sched(c, "SLEEPING")
exit(c) == cpu[c] \notin {NULL, initproc} /\ sched(c, "ZOMBIE")

(* wakeup(), kill() or a period timer makes a sleeper RUNNABLE.            *)
wakeup(p) ==
    /\ state[p] = "SLEEPING"
    /\ state' = [state EXCEPT ![p] = "RUNNABLE"]
    /\ UNCHANGED <<cpu_mask, cpu, scan, moved>>

(* fork() by the process on CPU c takes the first free slot.  Neither      *)
(* allocproc() nor fork() sets cpu_mask.                                   *)
fork(c) ==
    /\ cpu[c] # NULL
    /\ \E p \in Slots :
         /\ state[p] = "UNUSED" /\ \A q \in Slots : state[q] = "UNUSED" => p <= q
         /\ state' = [state EXCEPT ![p] = "RUNNABLE"]
    /\ UNCHANGED <<cpu_mask, cpu, scan, moved>>

(* wait() by the parent: freeproc() leaves cpu_mask alone.                 *)
freeproc(p) ==
    /\ state[p] = "ZOMBIE"
    /\ state' = [state EXCEPT ![p] = "UNUSED"]
    /\ UNCHANGED <<cpu_mask, cpu, scan, moved>>

(* sys_set_cpu_affinity() takes effect when the process is next dispatched.*)
set_cpu_affinity(c, mask) ==
    /\ cpu[c] # NULL
    /\ cpu_mask' = [cpu_mask EXCEPT ![cpu[c]] = mask]
    /\ moved' = [moved EXCEPT ![cpu[c]] = TRUE]
    /\ UNCHANGED <<state, cpu, scan>>

-----------------------------------------------------------------------------
(* The process table starts zeroed, so every mask names CPU 0.             *)
Init ==
    /\ state = [p \in Slots |-> IF p = initproc THEN "RUNNABLE" ELSE "UNUSED"]
    /\ cpu_mask = [p \in Slots |-> 0]
    /\ cpu = [c \in CPUs |-> NULL]
    /\ scan = [c \in CPUs |-> 1]
    /\ moved = [p \in Slots |-> FALSE]

Next ==
    \/ \E c \in CPUs :
          \/ scheduler(c)
          \/ yield(c) \/ sleep(c) \/ exit(c)
          \/ fork(c)
          \/ \E m \in Masks : set_cpu_affinity(c, m)
    \/ \E p \in Slots : wakeup(p) \/ freeproc(p)

Spec == Init /\ [][Next]_vars

(* Each CPU keeps running its scheduler, and timer interrupts keep coming  *)
(* to the process it runs, whose system calls all give up the CPU in the   *)
(* end: yield() follows each clock tick.                                   *)
Fairness == \A c \in CPUs : WF_vars(scheduler(c)) /\ WF_vars(yield(c))

FairSpec == Spec /\ Fairness

-----------------------------------------------------------------------------
(* Every variable keeps its type: the walk stays inside the table.         *)
TypeOK ==
    /\ state \in [Slots -> {"UNUSED", "RUNNABLE", "RUNNING", "SLEEPING", "ZOMBIE"}]
    /\ cpu_mask \in [Slots -> Masks \cup {0}]
    /\ cpu \in [CPUs -> Slots \cup {NULL}]
    /\ scan \in [CPUs -> Slots]
    /\ moved \in [Slots -> BOOLEAN]

(* A slot is RUNNING exactly while one CPU runs it: no two CPUs ever run   *)
(* one process on its one kernel stack.                                    *)
OneCPU ==
    /\ \A p \in Slots : state[p] = "RUNNING" <=> \E c \in CPUs : cpu[c] = p
    /\ \A c, d \in CPUs : cpu[c] = cpu[d] /\ cpu[c] # NULL => c = d
    /\ \A c \in CPUs : cpu[c] # NULL => scan[c] = cpu[c]

(* A process runs on a CPU that its mask names, from the first time it is  *)
(* dispatched after it called set_cpu_affinity.                            *)
AffinityKept ==
    \A c \in CPUs : cpu[c] # NULL => Allowed(cpu[c], c) \/ moved[cpu[c]]

(* A RUNNABLE process whose mask names a CPU that exists is run: the walk  *)
(* round the table starves nobody, whatever the others do.                 *)
RunnableRuns ==
    \A p \in Slots :
        (state[p] = "RUNNABLE" /\ cpu_mask[p] \in CPUs \cup {-1}) ~> state[p] = "RUNNING"

=============================================================================
