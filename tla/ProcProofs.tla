----------------------------- MODULE ProcProofs -----------------------------
(***************************************************************************)
(* Proofs about Proc for a process table of any size and any number of     *)
(* forks.  The strengthening says what fork() and wait() know in the       *)
(* middle of their work: the child that fork() sets up has no other        *)
(* creator, and a process that is about to sleep in wait() still has       *)
(* children and no zombie, because it holds wait_lock.                     *)
(***************************************************************************)
EXTENDS MCProc, TLAPS

(* Whoever is recorded as a parent is alive and is the same process still. *)
Parents ==
    /\ state[initproc] \in {"RUNNABLE", "SLEEPING"}
    /\ \A p \in Slots :
         /\ parent[p] # NULL => /\ state[parent[p]] \in {"RUNNABLE", "SLEEPING"}
                                /\ pid[parent[p]] = ppid[p]
         /\ state[p] = "UNUSED" => parent[p] = NULL
         /\ state[p] \notin {"UNUSED", "USED"} /\ p # initproc => parent[p] # NULL

(* A process in the middle of fork() or wait() is alive and awake, except  *)
(* that it may be asleep in wait().                                        *)
Forking ==
    \A p, q \in Slots :
        /\ pc[p] # "user" => state[p] \in {"RUNNABLE", "SLEEPING"}
        /\ state[p] = "SLEEPING" => pc[p] = "wait"
        /\ np[p] # NULL /\ np[p] = np[q] => p = q
        /\ pc[p] = "forked" => parent[np[p]] = NULL
        /\ pc[p] = "adopted" => parent[np[p]] = p

Waiting ==
    \A p, q \in Slots :
        /\ pc[p] = "wait_sleep" => Children(p) # {} /\ Zombies(p) = {}
        /\ pc[p] = "wait_sleep" /\ pc[q] = "wait_sleep" => p = q

Pids == \A p \in Slots : pid[p] < nextpid

IInv == /\ TypeOK /\ PidsUnique /\ NoMissedExit
        /\ Parents /\ Forking /\ Waiting /\ Pids

LEMMA InitSlot == initproc \in Slots /\ NULL \notin Slots
  BY ProcAssumption DEF Slots, initproc, NULL

LEMMA InitIInv == Init => IInv
<1> SUFFICES ASSUME Init PROVE IInv
  OBVIOUS
<1> USE InitSlot DEF Init
<1>1. TypeOK
  BY DEF TypeOK, States, PCs
<1>2. PidsUnique
  BY DEF PidsUnique
<1>3. NoMissedExit
  BY DEF NoMissedExit
<1>4. Parents /\ Forking /\ Waiting /\ Pids
  BY DEF Parents, Forking, Waiting, Pids
<1> QED
  BY <1>1, <1>2, <1>3, <1>4 DEF IInv

LEMMA StepIInv == IInv /\ [Next]_vars => IInv'
<1> SUFFICES ASSUME IInv, [Next]_vars PROVE IInv'
  OBVIOUS
<1> USE InitSlot DEF IInv, TypeOK, PidsUnique, NoMissedExit, Parents, Forking,
      Waiting, Pids, Children, Zombies, WaitLockFree, CanRun, States, PCs
<1>1. ASSUME NEW p \in Slots, fork(p) PROVE IInv'
  <2>1. PICK c \in Slots :
           /\ state[c] = "UNUSED"
           /\ nextpid' = nextpid + 1
           /\ \/ /\ state' = [state EXCEPT ![c] = "USED"]
                 /\ pid' = [pid EXCEPT ![c] = nextpid]
                 /\ np' = [np EXCEPT ![p] = c]
                 /\ pc' = [pc EXCEPT ![p] = "forked", ![c] = "user"]
              \/ UNCHANGED <<state, pid, np, pc>>
    BY <1>1, Zenon DEF fork, IsFirst
  <2> state[p] = "RUNNABLE" /\ pc[p] = "user" /\ UNCHANGED <<parent, killed, ppid>>
    BY <1>1, Zenon DEF fork
  <2>2. CASE UNCHANGED <<state, pid, np, pc>>
    BY <2>1, <2>2
  <2>3. ASSUME state' = [state EXCEPT ![c] = "USED"],
               pid' = [pid EXCEPT ![c] = nextpid],
               np' = [np EXCEPT ![p] = c],
               pc' = [pc EXCEPT ![p] = "forked", ![c] = "user"]
        PROVE  IInv'
    <3>1. TypeOK'
      BY <2>1, <2>3 DEF NULL
    <3>2. PidsUnique'
      BY <2>1, <2>3 DEF NULL
    <3>3. NoMissedExit'
      BY <2>1, <2>3 DEF NULL
    <3>4. Parents'
      BY <2>1, <2>3 DEF NULL
    <3>5. Forking'
      BY <2>1, <2>3 DEF NULL
    <3>6. Waiting'
      BY <2>1, <2>3 DEF NULL
    <3>7. Pids'
      BY <2>1, <2>3 DEF NULL
    <3> QED
      BY <3>1, <3>2, <3>3, <3>4, <3>5, <3>6, <3>7, Zenon DEF IInv
  <2> QED
    BY <2>1, <2>2, <2>3, Zenon
<1>2. ASSUME NEW p \in Slots, fork_parent(p) PROVE IInv'
  <2>1. TypeOK'
    BY <1>2 DEF fork_parent
  <2>2. PidsUnique'
    BY <1>2 DEF fork_parent
  <2>3. NoMissedExit'
    BY <1>2 DEF fork_parent
  <2>4. Parents'
    BY <1>2 DEF fork_parent
  <2>5. Forking'
    BY <1>2 DEF fork_parent
  <2>6. Waiting'
    BY <1>2 DEF fork_parent
  <2>7. Pids'
    BY <1>2, Zenon DEF fork_parent
  <2> QED
    BY <2>1, <2>2, <2>3, <2>4, <2>5, <2>6, <2>7, Zenon DEF IInv
<1>3. ASSUME NEW p \in Slots, fork_runnable(p) PROVE IInv'
  BY <1>3 DEF fork_runnable
<1>4. ASSUME NEW p \in Slots, exit(p) PROVE IInv'
  <2>1. TypeOK'
    BY <1>4 DEF exit, wakeup
  <2>2. PidsUnique'
    BY <1>4 DEF exit, wakeup
  <2>3. NoMissedExit'
    <3> SUFFICES ASSUME NEW q \in Slots, state'[q] = "SLEEPING"
                 PROVE  Children(q)' # {} /\ Zombies(q)' = {}
      BY Zenon DEF NoMissedExit
    <3>1. state[q] = "SLEEPING" /\ q # p /\ parent[p] # q
      BY <1>4, Zenon DEF exit, wakeup
    <3>2. \A r \in Slots : parent[r] = q => parent'[r] = q
      BY <1>4, <3>1, Zenon DEF exit
    <3>3. \A r \in Slots : parent'[r] = q => parent[r] = q
      <4> SUFFICES ASSUME NEW r \in Slots, parent[r] = p, q = initproc PROVE FALSE
        BY <1>4 DEF exit
      <4>1. Children(p) # {}
        OBVIOUS
      <4> QED
        BY <1>4, <3>1, <4>1, Zenon DEF exit, wakeup
    <3>4. \A r \in Slots : r # p /\ state'[r] = "ZOMBIE" => state[r] = "ZOMBIE"
      BY <1>4, Zenon DEF exit, wakeup
    <3> QED
      BY <3>1, <3>2, <3>3, <3>4
  <2>4. Parents'
    BY <1>4 DEF exit, wakeup
  <2>5. Forking'
    BY <1>4 DEF exit, wakeup
  <2>6. Waiting'
    BY <1>4, Zenon DEF exit, wakeup
  <2>7. Pids'
    BY <1>4, Zenon DEF exit, wakeup
  <2> QED
    BY <2>1, <2>2, <2>3, <2>4, <2>5, <2>6, <2>7 DEF IInv
<1>5. ASSUME NEW p \in Slots, EnterWait(p) PROVE IInv'
  BY <1>5 DEF EnterWait
<1>6. ASSUME NEW p \in Slots, WaitReaps(p) PROVE IInv'
  <2>1. CASE UNCHANGED <<state, parent, pid, killed>>
    BY <1>6, <2>1 DEF WaitReaps
  <2>2. ASSUME NEW z \in Slots, z \in Zombies(p),
               state' = [state EXCEPT ![z] = "UNUSED"],
               parent' = [parent EXCEPT ![z] = NULL],
               pid' = [pid EXCEPT ![z] = 0],
               killed' = [killed EXCEPT ![z] = FALSE]
        PROVE  IInv'
    <3> /\ state[p] = "RUNNABLE" /\ pc[p] = "wait"
        /\ pc' = [pc EXCEPT ![p] = "user"]
        /\ UNCHANGED <<nextpid, np, ppid>>
      BY <1>6, Zenon DEF WaitReaps
    <3>1. TypeOK'
      BY <2>2 DEF NULL
    <3>2. PidsUnique'
      BY <2>2 DEF NULL
    <3>3. NoMissedExit'
      BY <2>2 DEF NULL
    <3>4. Parents'
      BY <2>2 DEF NULL
    <3>5. Forking'
      BY <2>2 DEF NULL
    <3>6. Waiting'
      BY <2>2 DEF NULL
    <3>7. Pids'
      BY <2>2 DEF NULL
    <3> QED
      BY <3>1, <3>2, <3>3, <3>4, <3>5, <3>6, <3>7, Zenon DEF IInv
  <2> QED
    BY <1>6, <2>1, <2>2, Zenon DEF WaitReaps, IsFirst
<1>7. ASSUME NEW p \in Slots, WaitFails(p) PROVE IInv'
  BY <1>7 DEF WaitFails
<1>8. ASSUME NEW p \in Slots, WaitFindsNone(p) PROVE IInv'
  BY <1>8 DEF WaitFindsNone
<1>9. ASSUME NEW p \in Slots, WaitSleeps(p) PROVE IInv'
  BY <1>9 DEF WaitSleeps
<1>10. ASSUME NEW p \in Slots, kill(p) PROVE IInv'
  BY <1>10 DEF kill
<1>11. ASSUME UNCHANGED vars PROVE IInv'
  BY <1>11 DEF vars
<1> QED
  BY <1>1, <1>2, <1>3, <1>4, <1>5, <1>6, <1>7, <1>8, <1>9, <1>10, <1>11, Zenon
  DEF Next, InKernel

(* The inductive invariant holds throughout.                               *)
THEOREM Invariance == Spec => []IInv
  BY InitIInv, StepIInv, PTL DEF Spec

(* No process has a parent that is dead, or that is another process in a   *)
(* reused slot: reparent() runs before the parent becomes a zombie.        *)
THEOREM ParentAliveHolds == Spec => []ParentAlive
<1>1. IInv => ParentAlive
  BY InitSlot DEF IInv, TypeOK, Parents, ParentAlive
<1> QED
  BY <1>1, Invariance, PTL

(* wait() misses no exit: it does not sleep while a child is a zombie.     *)
THEOREM NoMissedExitHolds == Spec => []NoMissedExit
<1>1. IInv => NoMissedExit
  BY DEF IInv
<1> QED
  BY <1>1, Invariance, PTL

(* Pids identify processes, as kill() relies on.                           *)
THEOREM PidsUniqueHolds == Spec => [](TypeOK /\ PidsUnique)
<1>1. IInv => TypeOK /\ PidsUnique
  BY DEF IInv
<1> QED
  BY <1>1, Invariance, PTL

-----------------------------------------------------------------------------
(* The CPUs, for a table of any size, any number of CPUs and any masks.    *)
(* OneCPU is inductive because a CPU changes the state of a slot only when *)
(* the slot is RUNNABLE, or when it runs the slot itself.                  *)
CpuInv == K!TypeOK /\ K!OneCPU /\ K!AffinityKept

LEMMA SlotFacts == K!initproc \in K!Slots /\ K!NULL \notin K!Slots /\ 1 \in K!Slots
  BY SchedAssumption DEF K!SchedAssumption, K!initproc, K!NULL, K!Slots

(* The walk round the table stays in the table.                            *)
LEMMA FollowingInTable == \A p \in K!Slots : K!Following(p) \in K!Slots
  BY SchedAssumption DEF K!SchedAssumption, K!Slots, K!Following

LEMMA CpusInit == K!Init => CpuInv
  BY SlotFacts, SchedAssumption
  DEF K!SchedAssumption, K!Init, CpuInv, K!TypeOK, K!OneCPU, K!AffinityKept

(* The process on a CPU gives it up: every yield(), sleep() and exit().    *)
LEMMA SchedStep ==
  ASSUME CpuInv, NEW c \in K!CPUs, cpu[c] # K!NULL,
         NEW s \in {"RUNNABLE", "SLEEPING", "ZOMBIE"}, K!sched(c, s)
  PROVE  CpuInv'
<1>1. cpu[c] \in K!Slots /\ scan[c] = cpu[c]
  BY DEF CpuInv, K!TypeOK, K!OneCPU
<1>2. K!TypeOK'
  BY <1>1, FollowingInTable DEF CpuInv, K!TypeOK, K!sched
<1>3. K!OneCPU'
  BY <1>1, SlotFacts DEF CpuInv, K!TypeOK, K!OneCPU, K!sched
<1>4. K!AffinityKept'
  BY <1>1, SlotFacts DEF CpuInv, K!TypeOK, K!AffinityKept, K!Allowed, K!sched
<1> QED BY <1>2, <1>3, <1>4 DEF CpuInv

LEMMA CpusStep == CpuInv /\ [K!Next]_(K!vars) => CpuInv'
<1> SUFFICES ASSUME CpuInv, [K!Next]_(K!vars) PROVE CpuInv'
  OBVIOUS
<1>0. K!TypeOK /\ K!OneCPU /\ K!AffinityKept
  BY DEF CpuInv
<1>1. ASSUME NEW c \in K!CPUs, K!Dispatch(c) PROVE CpuInv'
  <2>1. K!TypeOK'
    BY <1>0, <1>1, Zenon DEF K!TypeOK, K!Dispatch
  <2>2. K!OneCPU'
    BY <1>0, <1>1, SlotFacts DEF K!TypeOK, K!OneCPU, K!Dispatch
  <2>3. K!AffinityKept'
    BY <1>0, <1>1, SlotFacts DEF K!TypeOK, K!OneCPU, K!AffinityKept, K!Allowed, K!Dispatch
  <2> QED BY <2>1, <2>2, <2>3 DEF CpuInv
<1>2. ASSUME NEW c \in K!CPUs, K!Skip(c) PROVE CpuInv'
  <2>1. K!TypeOK'
    BY <1>0, <1>2, FollowingInTable DEF K!TypeOK, K!Skip
  <2>2. K!OneCPU' /\ K!AffinityKept'
    BY <1>0, <1>2 DEF K!TypeOK, K!OneCPU, K!AffinityKept, K!Allowed, K!Skip
  <2> QED BY <2>1, <2>2 DEF CpuInv
<1>3. ASSUME NEW c \in K!CPUs, K!yield(c) \/ K!sleep(c) \/ K!exit(c) PROVE CpuInv'
  BY <1>3, SchedStep, Zenon DEF K!yield, K!sleep, K!exit
<1>4. ASSUME NEW c \in K!CPUs, K!fork(c) PROVE CpuInv'
  BY <1>0, <1>4 DEF CpuInv, K!TypeOK, K!OneCPU, K!AffinityKept, K!Allowed, K!fork
<1>5. ASSUME NEW c \in K!CPUs, NEW m \in Masks, K!set_cpu_affinity(c, m) PROVE CpuInv'
  <2>1. cpu[c] \in K!Slots
    BY <1>0, <1>5 DEF K!TypeOK, K!set_cpu_affinity
  <2>2. K!TypeOK' /\ K!OneCPU'
    BY <1>0, <1>5, <2>1 DEF K!TypeOK, K!OneCPU, K!set_cpu_affinity
  <2>3. K!AffinityKept'
    BY <1>0, <1>5, <2>1 DEF K!TypeOK, K!AffinityKept, K!Allowed, K!set_cpu_affinity
  <2> QED BY <2>2, <2>3 DEF CpuInv
<1>6. ASSUME NEW p \in K!Slots, K!wakeup(p) \/ K!freeproc(p) PROVE CpuInv'
  BY <1>0, <1>6 DEF CpuInv, K!TypeOK, K!OneCPU, K!AffinityKept, K!Allowed, K!wakeup, K!freeproc
<1>7. ASSUME UNCHANGED K!vars PROVE CpuInv'
  BY <1>0, <1>7 DEF CpuInv, K!TypeOK, K!OneCPU, K!AffinityKept, K!Allowed, K!vars
<1> QED BY <1>1, <1>2, <1>3, <1>4, <1>5, <1>6, <1>7 DEF K!Next, K!scheduler

(* What the CPUs and the process table agree on, at every moment.          *)
THEOREM CpuInvariance == K!Spec => []CpuInv
  BY CpusInit, CpusStep, PTL DEF K!Spec

(* No process is on two CPUs at once, and a slot is RUNNING exactly while  *)
(* a CPU runs it: scheduler() marks it under p->lock before it switches.   *)
THEOREM OneCPUHolds == K!Spec => []OneCPU
<1>1. CpuInv => OneCPU
  BY DEF CpuInv, OneCPU
<1> QED BY <1>1, CpuInvariance, PTL

(* A CPU runs only processes whose mask names it, except one that changed  *)
(* its own mask since it was dispatched.                                   *)
THEOREM AffinityKeptHolds == K!Spec => []K!AffinityKept
<1>1. CpuInv => K!AffinityKept
  BY DEF CpuInv
<1> QED BY <1>1, CpuInvariance, PTL

-----------------------------------------------------------------------------
(* The shared page.  What shm_refs counts at rest follows from what it     *)
(* counts in the middle of fork and exit: a process that leaves has        *)
(* unmapped the page and is still counted, a child that is being made maps *)
(* it and is not counted yet.                                              *)
INSTANCE FiniteSetTheorems

Leaving == {p \in Procs : at[p] \in {"exit_load", "exit_store"}}
InFork == {p \in Procs : at[p] \in {"fork_load", "fork_store"}}

(* Every fork under way has a child of its own, which does not run.        *)
OwnChild ==
    /\ \A p \in InFork : at[child[p]] = "embryo"
    /\ \A p, q \in InFork : child[p] = child[q] => p = q

(* A process unmaps the page before it touches the counter.                *)
Unmapped ==
    \A p \in Procs :
        at[p] \in {"unborn", "exited", "exit_load", "exit_store", "exit_test",
                  "exit_free", "exit_clear"} => mapped[p] = NONE

Count == ~lost => shm_refs = Cardinality(H!Users) + Cardinality(Leaving)
                             - Cardinality(InFork) - gets

ShmInv == H!TypeOK /\ Unmapped /\ OwnChild /\ Count

LEMMA ShmConstants ==
  NOPAGE \notin Pages /\ NONE \notin Pages \cup {NOPAGE} /\ IsFiniteSet(Procs)
  BY ShmAssumption DEF H!ShmAssumption, H!IsFiniteSet, IsFiniteSet

LEMMA Finite ==
  /\ \A S \in SUBSET Procs : IsFiniteSet(S) /\ Cardinality(S) \in Nat
  /\ \A S \in SUBSET Procs : \A x \in Procs \ S : Cardinality(S \cup {x}) = Cardinality(S) + 1
  /\ \A S \in SUBSET Procs : \A x \in S : Cardinality(S \ {x}) = Cardinality(S) - 1
<1>1. ASSUME NEW S \in SUBSET Procs PROVE IsFiniteSet(S) /\ Cardinality(S) \in Nat
  BY FS_Subset, FS_CardinalityType, ShmConstants, Zenon
<1>2. ASSUME NEW S \in SUBSET Procs, NEW x \in Procs \ S
      PROVE  Cardinality(S \cup {x}) = Cardinality(S) + 1
  BY <1>1, FS_AddElement, Zenon
<1>3. ASSUME NEW S \in SUBSET Procs, NEW x \in S
      PROVE  Cardinality(S \ {x}) = Cardinality(S) - 1
  BY <1>1, FS_RemoveElement
<1> QED BY <1>1, <1>2, <1>3, Zenon

LEMMA ShmInit == H!Init => ShmInv
<1> SUFFICES ASSUME H!Init PROVE ShmInv
  OBVIOUS
<1>1. H!TypeOK
  <2>1. at \in [Procs -> H!PCs] /\ \A p \in Procs : at[p] \in {"user", "unborn"}
    BY DEF H!Init, H!PCs
  <2>2. /\ reg \in [Procs -> Int \cup Pages] /\ mapped \in [Procs -> Pages \cup {NOPAGE, NONE}]
        /\ child \in [Procs -> Procs]
    BY DEF H!Init
  <2>3. lost \in BOOLEAN /\ free \subseteq Pages
    BY Zenon DEF H!Init
  <2>4. \A p \in Procs : /\ at[p] \in {"fork_store", "exit_store"} => reg[p] \in Int
                         /\ at[p] = "exit_free" => reg[p] \in Pages
    BY <2>1
  <2>5. /\ shm_memory \in Pages \cup {NOPAGE} /\ shm_refs \in Int /\ gets \in Nat
        /\ panicked \in {"no", "mappages: remap", "freewalk: leaf"}
    BY DEF H!Init
  <2> QED BY <2>1, <2>2, <2>3, <2>4, <2>5, Zenon DEF H!TypeOK
<1>2. Unmapped /\ OwnChild
  BY DEF H!Init, Unmapped, OwnChild, InFork
<1>3. H!Users = {} /\ Leaving = {} /\ InFork = {}
  BY DEF H!Init, H!Users, Leaving, InFork
<1>4. Count
  BY <1>3, FS_EmptySet DEF H!Init, Count
<1> QED BY <1>1, <1>2, <1>4, Zenon DEF ShmInv

(* Everything but the count.                                               *)
LEMMA ShmTypeStep == ShmInv /\ [H!Next]_(H!vars) => H!TypeOK' /\ Unmapped' /\ OwnChild'
<1> SUFFICES ASSUME ShmInv, [H!Next]_(H!vars) PROVE H!TypeOK' /\ Unmapped' /\ OwnChild'
  OBVIOUS
<1>0. H!TypeOK /\ Unmapped /\ OwnChild
  BY Zenon DEF ShmInv
<1> USE <1>0, ShmConstants DEF H!TypeOK, Unmapped, OwnChild, InFork, H!PCs, H!At, H!Goto
<1>1. ASSUME NEW p \in Procs, H!sys_shmget(p) PROVE H!TypeOK' /\ Unmapped' /\ OwnChild'
  BY <1>1, Zenon DEF H!sys_shmget
<1>2. ASSUME NEW p \in Procs, H!ShmgetAllocates(p) PROVE H!TypeOK' /\ Unmapped' /\ OwnChild'
  BY <1>2 DEF H!ShmgetAllocates
<1>3. ASSUME NEW p \in Procs, H!ShmgetMaps(p) PROVE H!TypeOK' /\ Unmapped' /\ OwnChild'
  <2>1. CASE mapped[p] # NONE
    BY <1>3, <2>1, Zenon DEF H!ShmgetMaps
  <2>2. CASE mapped[p] = NONE /\ mapped' = mapped
    BY <1>3, <2>2 DEF H!ShmgetMaps
  <2>3. CASE mapped[p] = NONE /\ mapped' = [mapped EXCEPT ![p] = shm_memory]
    BY <1>3, <2>3 DEF H!ShmgetMaps
  <2> QED BY <1>3, <2>1, <2>2, <2>3, Zenon DEF H!ShmgetMaps
<1>4. ASSUME NEW p \in Procs, NEW c \in Procs, H!fork(p, c)
      PROVE  H!TypeOK' /\ Unmapped' /\ OwnChild'
  BY <1>4 DEF H!fork
<1>5. ASSUME NEW p \in Procs, H!ForkLoads(p) PROVE H!TypeOK' /\ Unmapped' /\ OwnChild'
  BY <1>5 DEF H!ForkLoads
<1>6. ASSUME NEW p \in Procs, H!ForkStores(p) PROVE H!TypeOK' /\ Unmapped' /\ OwnChild'
  BY <1>6 DEF H!ForkStores
<1>7. ASSUME NEW p \in Procs, H!shmem_exit(p) PROVE H!TypeOK' /\ Unmapped' /\ OwnChild'
  BY <1>7 DEF H!shmem_exit
<1>8. ASSUME NEW p \in Procs, H!ExitLoads(p) PROVE H!TypeOK' /\ Unmapped' /\ OwnChild'
  BY <1>8, Zenon DEF H!ExitLoads
<1>9. ASSUME NEW p \in Procs, H!ExitStores(p) PROVE H!TypeOK' /\ Unmapped' /\ OwnChild'
  BY <1>9 DEF H!ExitStores
<1>10. ASSUME NEW p \in Procs, H!ExitTests(p) PROVE H!TypeOK' /\ Unmapped' /\ OwnChild'
  BY <1>10 DEF H!ExitTests
<1>11. ASSUME NEW p \in Procs, H!ExitFrees(p) PROVE H!TypeOK' /\ Unmapped' /\ OwnChild'
  BY <1>11 DEF H!ExitFrees
<1>12. ASSUME NEW p \in Procs, H!ExitClears(p) PROVE H!TypeOK' /\ Unmapped' /\ OwnChild'
  BY <1>12, Zenon DEF H!ExitClears
<1>13. ASSUME NEW p \in Procs, H!exec(p) PROVE H!TypeOK' /\ Unmapped' /\ OwnChild'
  BY <1>13, Zenon DEF H!exec
<1>14. ASSUME UNCHANGED H!vars PROVE H!TypeOK' /\ Unmapped' /\ OwnChild'
  BY <1>14, Zenon DEF H!vars
<1> QED
  BY <1>1, <1>2, <1>3, <1>4, <1>5, <1>6, <1>7, <1>8, <1>9, <1>10, <1>11, <1>12,
     <1>13, <1>14, Zenon DEF H!Next, H!Stopped

(* The count.  Only five steps change a set or the counter, and each of    *)
(* them changes two of the four terms.                                     *)
LEMMA ShmCountStep == ShmInv /\ [H!Next]_(H!vars) => Count'
<1> SUFFICES ASSUME ShmInv, [H!Next]_(H!vars) PROVE Count'
  OBVIOUS
<1>0. H!TypeOK /\ Unmapped /\ OwnChild /\ Count
  BY DEF ShmInv
<1> DEFINE U == Cardinality(H!Users)
           L == Cardinality(Leaving)
           F == Cardinality(InFork)
<1>a. H!Users \subseteq Procs /\ Leaving \subseteq Procs /\ InFork \subseteq Procs
  BY Zenon DEF H!Users, Leaving, InFork
<1>b. U \in Nat /\ L \in Nat /\ F \in Nat /\ shm_refs \in Int /\ gets \in Nat
  BY <1>0, <1>a, Finite, Zenon DEF H!TypeOK
<1>c. ASSUME H!Users' = H!Users, Leaving' = Leaving, InFork' = InFork,
             UNCHANGED <<shm_refs, gets, lost>>
      PROVE  Count'
  BY <1>0, <1>c, Zenon DEF Count
<1>d. at \in [Procs -> H!PCs] /\ mapped \in [Procs -> Pages \cup {NOPAGE, NONE}]
      /\ shm_memory # NONE
  BY <1>0, ShmConstants, Zenon DEF H!TypeOK
<1> USE DEF H!At, H!Goto
<1>1. ASSUME NEW p \in Procs,
             H!sys_shmget(p) \/ H!ShmgetAllocates(p) \/ H!ForkLoads(p) \/ H!ExitLoads(p)
               \/ H!ExitTests(p) \/ H!ExitFrees(p) \/ H!ExitClears(p) \/ H!exec(p)
      PROVE  Count'
  <2>1. UNCHANGED <<mapped, shm_refs, gets, lost>>
    BY <1>1, Zenon DEF H!sys_shmget, H!ShmgetAllocates, H!ForkLoads, H!ExitLoads, H!ExitTests,
                H!ExitFrees, H!ExitClears, H!exec
  <2>2. H!Users' = H!Users
    BY <2>1, Zenon DEF H!Users
  <2>3. Leaving' = Leaving /\ InFork' = InFork
    BY <1>1, <1>d, Zenon DEF Leaving, InFork, H!PCs, H!sys_shmget, H!ShmgetAllocates, H!ForkLoads,
                      H!ExitLoads, H!ExitTests, H!ExitFrees, H!ExitClears, H!exec
  <2> QED BY <1>c, <2>1, <2>2, <2>3, Zenon
<1>2. ASSUME NEW p \in Procs, H!ShmgetMaps(p) PROVE Count'
  <2>1. Leaving' = Leaving /\ InFork' = InFork /\ UNCHANGED <<shm_refs, lost>>
    BY <1>2, <1>d, Zenon DEF Leaving, InFork, H!PCs, H!ShmgetMaps
  <2>2. CASE UNCHANGED <<mapped, gets>>
    <3>1. H!Users' = H!Users
      BY <2>2, Zenon DEF H!Users
    <3> QED BY <1>c, <2>1, <2>2, <3>1, Zenon
  <2>3. CASE /\ mapped[p] = NONE /\ gets' = gets + 1
             /\ mapped' = [mapped EXCEPT ![p] = shm_memory]
    <3>1. p \notin H!Users /\ H!Users' = H!Users \cup {p}
      BY <2>3, <1>d, Zenon DEF H!Users
    <3>2. Cardinality(H!Users') = U + 1
      BY <3>1, <1>a, Finite
    <3> QED BY <1>0, <1>b, <2>1, <2>3, <3>2 DEF Count
  <2> QED BY <1>2, <2>2, <2>3, Zenon DEF H!ShmgetMaps
<1>3. ASSUME NEW p \in Procs, NEW c \in Procs, H!fork(p, c) PROVE Count'
  <2>1. c # p /\ mapped[c] = NONE /\ UNCHANGED <<shm_refs, gets, lost>>
    BY <1>3, <1>0, Zenon DEF H!fork, Unmapped
  <2>2. CASE mapped[p] = NONE
    <3>1. H!Users' = H!Users
      BY <1>3, <2>2, Zenon DEF H!Users, H!fork
    <3>2. Leaving' = Leaving /\ InFork' = InFork
      BY <1>3, <2>2, <1>d, Zenon DEF Leaving, InFork, H!fork
    <3> QED BY <1>c, <2>1, <3>1, <3>2, Zenon
  <2>3. CASE mapped[p] # NONE
    <3>1. c \notin H!Users /\ H!Users' = H!Users \cup {c}
      BY <1>3, <2>1, <2>3, <1>d, Zenon DEF H!Users, H!fork
    <3>2. Leaving' = Leaving
      BY <1>3, <2>1, <2>3, <1>d, Zenon DEF Leaving, H!fork
    <3>3. p \notin InFork /\ InFork' = InFork \cup {p}
      BY <1>3, <2>1, <2>3, <1>d, Zenon DEF InFork, H!fork
    <3>4. Cardinality(H!Users') = U + 1 /\ Cardinality(InFork') = F + 1
      BY <3>1, <3>3, <1>a, Finite
    <3> QED BY <1>0, <1>b, <2>1, <3>2, <3>4 DEF Count
  <2> QED BY <2>2, <2>3, Zenon
<1>4. ASSUME NEW p \in Procs, H!ForkStores(p) PROVE Count'
  <2>1. p \in InFork /\ at[child[p]] = "embryo" /\ child[p] \in Procs /\ child[p] # p
    BY <1>4, <1>0, Zenon DEF H!ForkStores, InFork, OwnChild, H!TypeOK
  <2>2. H!Users' = H!Users /\ gets' = gets
    BY <1>4, Zenon DEF H!ForkStores, H!Users
  <2>3. Leaving' = Leaving
    BY <1>4, <2>1, <1>d, Zenon DEF H!ForkStores, Leaving
  <2>4. InFork' = InFork \ {p}
    BY <1>4, <2>1, <1>d, Zenon DEF H!ForkStores, InFork
  <2>5. Cardinality(InFork') = F - 1
    BY <2>1, <2>4, <1>a, Finite, Zenon
  <2>6. ~lost' => ~lost /\ shm_refs' = shm_refs + 1
    BY <1>4, Zenon DEF H!ForkStores
  <2> QED BY <1>0, <1>b, <2>2, <2>3, <2>5, <2>6 DEF Count
<1>5. ASSUME NEW p \in Procs, H!shmem_exit(p) PROVE Count'
  <2>1. UNCHANGED <<shm_refs, gets, lost>>
    BY <1>5 DEF H!shmem_exit
  <2>2. InFork' = InFork
    BY <1>5, <1>d DEF H!shmem_exit, InFork
  <2>3. CASE mapped[p] = NONE
    <3>1. H!Users' = H!Users /\ Leaving' = Leaving
      BY <1>5, <2>3, <1>d, Zenon DEF H!shmem_exit, H!Users, Leaving
    <3> QED BY <1>c, <2>1, <2>2, <3>1
  <2>4. CASE mapped[p] # NONE
    <3>1. p \in H!Users /\ H!Users' = H!Users \ {p}
      BY <1>5, <2>4, <1>d, Zenon DEF H!shmem_exit, H!Users
    <3>2. p \notin Leaving /\ Leaving' = Leaving \cup {p}
      BY <1>5, <2>4, <1>d, Zenon DEF H!shmem_exit, Leaving
    <3>3. Cardinality(H!Users') = U - 1 /\ Cardinality(Leaving') = L + 1
      BY <3>1, <3>2, <1>a, Finite
    <3> QED BY <1>0, <1>b, <2>1, <2>2, <3>3 DEF Count
  <2> QED BY <2>3, <2>4
<1>6. ASSUME NEW p \in Procs, H!ExitStores(p) PROVE Count'
  <2>1. p \in Leaving /\ Leaving' = Leaving \ {p} /\ InFork' = InFork
    BY <1>6, <1>d, Zenon DEF H!ExitStores, Leaving, InFork
  <2>2. H!Users' = H!Users /\ gets' = gets
    BY <1>6, Zenon DEF H!ExitStores, H!Users
  <2>3. Cardinality(Leaving') = L - 1
    BY <2>1, <1>a, Finite, Zenon
  <2>4. ~lost' => ~lost /\ shm_refs' = shm_refs - 1
    BY <1>6, Zenon DEF H!ExitStores
  <2> QED BY <1>0, <1>b, <2>1, <2>2, <2>3, <2>4 DEF Count
<1>7. ASSUME UNCHANGED H!vars PROVE Count'
  BY <1>7, <1>c DEF H!vars, H!Users, Leaving, InFork
<1> QED
  BY <1>1, <1>2, <1>3, <1>4, <1>5, <1>6, <1>7, Zenon DEF H!Next, H!Stopped

LEMMA ShmNext == ShmInv /\ [H!Next]_(H!vars) => ShmInv'
  BY ShmTypeStep, ShmCountStep DEF ShmInv

(* Who maps the shared page and what shm_refs counts is as ShmInv says.    *)
THEOREM ShmInvariance == H!Spec => []ShmInv
  BY ShmInit, ShmNext, PTL DEF H!Spec

(* A process that has left, or was never made, maps nothing at SHM_VA:     *)
(* shmem_exit() unmaps before freeproc() frees the page table.             *)
THEOREM ExitUnmapsHolds == H!Spec => [](H!TypeOK /\ H!ExitUnmaps)
<1>1. ShmInv => H!TypeOK /\ H!ExitUnmaps
  BY Zenon DEF ShmInv, Unmapped, H!ExitUnmaps
<1> QED BY <1>1, ShmInvariance, PTL

(* At rest shm_refs is short of the number of users by the mappings that   *)
(* sys_shmget() made, unless two unlocked updates of it collided.          *)
THEOREM RefsShortByGetsHolds == H!Spec => []RefsShortByGets
<1>1. ShmInv => RefsShortByGets
  <2> SUFFICES ASSUME ShmInv, ~H!Busy, ~lost PROVE shm_refs = Cardinality(H!Users) - gets
    BY DEF RefsShortByGets, H!RefsShortByGets, H!Cardinality, Cardinality, H!IsFiniteSet, IsFiniteSet
  <2>1. Leaving = {} /\ InFork = {}
    BY DEF H!Busy, Leaving, InFork
  <2>2. Cardinality(Leaving) = 0 /\ Cardinality(InFork) = 0
    BY <2>1, FS_EmptySet, Zenon
  <2>3. Cardinality(H!Users) \in Nat
    BY Finite, Zenon DEF H!Users
  <2>4. shm_refs = Cardinality(H!Users) + Cardinality(Leaving) - Cardinality(InFork) - gets
    BY Zenon DEF ShmInv, Count
  <2>5. gets \in Nat
    BY Zenon DEF ShmInv, H!TypeOK
  <2> QED BY <2>2, <2>3, <2>4, <2>5
<1> QED BY <1>1, ShmInvariance, PTL
=============================================================================
