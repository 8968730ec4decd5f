--------------------------------- MODULE Shm ---------------------------------
(***************************************************************************)
(* The shared page of proj4/kernel/shm.c: one page, the globals shm_memory *)
(* and shm_refs, and the three functions that use them.  None of them      *)
(* takes a lock, so every access to a global is a step of its own and the  *)
(* functions interleave when their processes run on different CPUs.        *)
(***************************************************************************)
EXTENDS Integers, FiniteSets

CONSTANTS
    Procs,      \* processes, each of which is forked at most once
    Pages,      \* pages of physical memory kalloc() may return
    NULL,       \* the null pointer, and physical address 0
    NONE        \* no mapping at SHM_VA

(* Pages, the null pointer and "no mapping" are different things.          *)
ShmAssumption ==
    /\ NULL \notin Pages /\ NONE \notin Pages \cup {NULL}
    /\ IsFiniteSet(Procs)

VARIABLES
    shm_memory, \* the global
    shm_refs,   \* the global
    free,       \* pages on the free list
    mapped,     \* what SHM_VA maps to in each process
    pc,         \* where each process is
    reg,        \* a register of each process
    child,      \* the process that fork() is setting up
    panicked,   \* why the kernel has panicked, or "no"
    gets,       \* history: mappings made by shmget
    lost        \* history: an update of shm_refs overwrote another

vars == <<shm_memory, shm_refs, free, mapped, pc, reg, child, panicked, gets, lost>>

PCs == {"unborn", "embryo", "user", "exited",
        "get_alloc", "get_map", "fork_load", "fork_store",
        "exit_load", "exit_store", "exit_test", "exit_free", "exit_clear"}

At(p, l) == panicked = "no" /\ pc[p] = l
Goto(p, l) == pc' = [pc EXCEPT ![p] = l]

-----------------------------------------------------------------------------
(* sys_shmget(0, 4096): the test of shm_memory, the allocation, the        *)
(* mapping of whatever shm_memory holds by then.  mappages() panics when   *)
(* SHM_VA is mapped already, and fails without memory for a page table.    *)
sys_shmget(p) ==
    /\ At(p, "user")
    /\ Goto(p, IF shm_memory = NULL THEN "get_alloc" ELSE "get_map")
    /\ UNCHANGED <<shm_memory, shm_refs, free, mapped, reg, child, panicked, gets, lost>>

ShmgetAllocates(p) ==
    /\ At(p, "get_alloc")
    /\ \/ \E pg \in free : /\ shm_memory' = pg
                           /\ free' = free \ {pg}
                           /\ Goto(p, "get_map")
       \/ /\ free = {} /\ shm_memory' = NULL
          /\ Goto(p, "user") /\ UNCHANGED free
    /\ UNCHANGED <<shm_refs, mapped, reg, child, panicked, gets, lost>>

ShmgetMaps(p) ==
    /\ At(p, "get_map")
    /\ IF mapped[p] # NONE
       THEN panicked' = "mappages: remap" /\ UNCHANGED <<mapped, gets>>
       ELSE /\ UNCHANGED panicked
            /\ \/ mapped' = [mapped EXCEPT ![p] = shm_memory] /\ gets' = gets + 1
               \/ UNCHANGED <<mapped, gets>>
    /\ Goto(p, "user")
    /\ UNCHANGED <<shm_memory, shm_refs, free, reg, child, lost>>

(* fork() with shmem_fork(): a parent that has the page passes on what     *)
(* shm_memory holds now; shm_refs++ is a load and a store.                 *)
fork(p, c) ==
    /\ At(p, "user") /\ pc[c] = "unborn"
    /\ IF mapped[p] # NONE
       THEN /\ mapped' = [mapped EXCEPT ![c] = shm_memory]
            /\ child' = [child EXCEPT ![p] = c]
            /\ pc' = [pc EXCEPT ![p] = "fork_load", ![c] = "embryo"]
       ELSE /\ pc' = [pc EXCEPT ![c] = "user"]
            /\ UNCHANGED <<mapped, child>>
    /\ UNCHANGED <<shm_memory, shm_refs, free, reg, panicked, gets, lost>>

ForkLoads(p) ==
    /\ At(p, "fork_load")
    /\ reg' = [reg EXCEPT ![p] = shm_refs]
    /\ Goto(p, "fork_store")
    /\ UNCHANGED <<shm_memory, shm_refs, free, mapped, child, panicked, gets, lost>>

(* Mutated form: parent and child are both counted.                        *)
ForkStores_Twice(p) ==
    /\ At(p, "fork_store")
    /\ shm_refs' = reg[p] + 2
    /\ lost' = (lost \/ shm_refs # reg[p])
    /\ pc' = [pc EXCEPT ![p] = "user", ![child[p]] = "user"]
    /\ UNCHANGED <<shm_memory, free, mapped, reg, child, panicked, gets>>

ForkStores(p) ==
    /\ At(p, "fork_store")
    /\ shm_refs' = reg[p] + 1
    /\ lost' = (lost \/ shm_refs # reg[p])
    /\ pc' = [pc EXCEPT ![p] = "user", ![child[p]] = "user"]
    /\ UNCHANGED <<shm_memory, free, mapped, reg, child, panicked, gets>>

(* shmem_exit(): unmap, shm_refs--, and free the page at zero.             *)
shmem_exit(p) ==
    /\ At(p, "user")
    /\ IF mapped[p] # NONE
       THEN mapped' = [mapped EXCEPT ![p] = NONE] /\ Goto(p, "exit_load")
       ELSE Goto(p, "exited") /\ UNCHANGED mapped
    /\ UNCHANGED <<shm_memory, shm_refs, free, reg, child, panicked, gets, lost>>

ExitLoads(p) ==
    /\ At(p, "exit_load")
    /\ reg' = [reg EXCEPT ![p] = shm_refs]
    /\ Goto(p, "exit_store")
    /\ UNCHANGED <<shm_memory, shm_refs, free, mapped, child, panicked, gets, lost>>

ExitStores(p) ==
    /\ At(p, "exit_store")
    /\ shm_refs' = reg[p] - 1
    /\ lost' = (lost \/ shm_refs # reg[p])
    /\ Goto(p, "exit_test")
    /\ UNCHANGED <<shm_memory, free, mapped, reg, child, panicked, gets>>

ExitTests(p) ==
    /\ At(p, "exit_test")
    /\ IF shm_refs = 0 /\ shm_memory # NULL
       THEN reg' = [reg EXCEPT ![p] = shm_memory] /\ Goto(p, "exit_free")
       ELSE UNCHANGED reg /\ Goto(p, "exited")
    /\ UNCHANGED <<shm_memory, shm_refs, free, mapped, child, panicked, gets, lost>>

ExitFrees(p) ==
    /\ At(p, "exit_free")
    /\ free' = free \cup {reg[p]}
    /\ Goto(p, "exit_clear")
    /\ UNCHANGED <<shm_memory, shm_refs, mapped, reg, child, panicked, gets, lost>>

ExitClears(p) ==
    /\ At(p, "exit_clear")
    /\ shm_memory' = NULL
    /\ Goto(p, "exited")
    /\ UNCHANGED <<shm_refs, free, mapped, reg, child, panicked, gets, lost>>

(* exec() frees the old page table without shmem_exit(): freewalk() panics *)
(* on the mapping it finds.                                                *)
exec(p) ==
    /\ At(p, "user") /\ mapped[p] # NONE
    /\ panicked' = "freewalk: leaf"
    /\ UNCHANGED <<shm_memory, shm_refs, free, mapped, pc, reg, child, gets, lost>>

Stopped ==
    /\ panicked # "no" \/ \A p \in Procs : pc[p] \in {"unborn", "exited"}
    /\ UNCHANGED vars

-----------------------------------------------------------------------------
Init ==
    /\ shm_memory = NULL /\ shm_refs = 0
    /\ free = Pages
    /\ mapped = [p \in Procs |-> NONE]
    /\ \E p \in Procs : pc = [q \in Procs |-> IF q = p THEN "user" ELSE "unborn"]
    /\ reg = [p \in Procs |-> 0]
    /\ child = [p \in Procs |-> p]
    /\ panicked = "no" /\ gets = 0 /\ lost = FALSE

Next ==
    \/ \E p \in Procs :
          \/ sys_shmget(p) \/ ShmgetAllocates(p) \/ ShmgetMaps(p)
          \/ \E c \in Procs : fork(p, c)
          \/ ForkLoads(p) \/ ForkStores(p)
          \/ shmem_exit(p) \/ ExitLoads(p) \/ ExitStores(p)
          \/ ExitTests(p) \/ ExitFrees(p) \/ ExitClears(p)
          \/ exec(p)
    \/ Stopped

Spec == Init /\ [][Next]_vars

-----------------------------------------------------------------------------
Busy == \E p \in Procs : pc[p] \notin {"unborn", "user", "exited"}

Users == {p \in Procs : mapped[p] # NONE}

(* Every variable keeps its type; a register holds what was loaded into it *)
(* as long as it is used.                                                  *)
TypeOK ==
    /\ shm_memory \in Pages \cup {NULL}
    /\ shm_refs \in Int
    /\ free \subseteq Pages
    /\ mapped \in [Procs -> Pages \cup {NULL, NONE}]
    /\ pc \in [Procs -> PCs]
    /\ reg \in [Procs -> Int \cup Pages]
    /\ \A p \in Procs : /\ pc[p] \in {"fork_store", "exit_store"} => reg[p] \in Int
                        /\ pc[p] = "exit_free" => reg[p] \in Pages
    /\ child \in [Procs -> Procs]
    /\ panicked \in {"no", "mappages: remap", "freewalk: leaf"}
    /\ gets \in Nat /\ lost \in BOOLEAN

(* A process that has run shmem_exit() maps nothing at SHM_VA, so that     *)
(* freeing its page table does not panic, and a process that has not been  *)
(* forked maps nothing either.                                             *)
ExitUnmaps == \A p \in Procs : pc[p] \in {"unborn", "exited"} => mapped[p] = NONE

(* What shm_refs counts: while no function that changes it is under way,   *)
(* and as long as no update was lost to another, it is the number of       *)
(* processes that map the page less every mapping ever made by shmget,     *)
(* which adds a user without counting it and whose exit is counted all the *)
(* same.                                                                   *)
RefsShortByGets == ~Busy /\ ~lost => shm_refs = Cardinality(Users) - gets

-----------------------------------------------------------------------------
(* The page is freed when its last user is gone ("Number of processes      *)
(* using the shared memory"): no process maps a page on the free list.     *)
UsedPageNotFree == \A p \in Procs : mapped[p] \notin free
==============================================================================
