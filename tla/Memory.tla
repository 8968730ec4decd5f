------------------------------- MODULE Memory -------------------------------
(***************************************************************************)
(* The pages of processes: kalloc() and kfree() of kernel/kalloc.c, page   *)
(* tables and user memory of kernel/vm.c, and the calls that make and      *)
(* unmake them: sbrk, fork, exec, exit and wait.                           *)
(*                                                                         *)
(* Pages are counted, not named.  Every kalloc() of a call is a step, so   *)
(* that the calls of several processes race for the last pages; a call     *)
(* that fails gives back what it had taken in one step, since kfree()      *)
(* cannot fail.  User memory is mapped from address 0 up without a gap and *)
(* is small enough for one page table page of each level; the trampoline   *)
(* and the trapframe share another.  The shared page is in module Shm.     *)
(***************************************************************************)
EXTENDS Integers, FiniteSets

CONSTANTS
    NPROC,      \* slots of the process table
    NPAGES,     \* pages of physical memory
    PGSIZE,     \* units of memory in a page
    LEVELS,     \* levels of a page table below the root
    Grows,      \* arguments of sbrk,
    Shrinks,    \* and its negative ones without their sign
    Segments,   \* ends of program segments
    NSEGS,      \* bound: segments of a program
    USERSTACK,  \* param.h: pages of a user stack
    MAXARG      \* param.h: arguments of exec

(* There is memory for the first process: its trapframe, its page and its  *)
(* page table.                                                             *)
ASSUME MemoryAssumption ==
    /\ NPROC \in Nat \ {0} /\ PGSIZE \in Nat \ {0} /\ LEVELS \in Nat
    /\ NPAGES \in Nat /\ NPAGES >= 3 + 2 * LEVELS
    /\ Grows \subseteq Nat /\ Shrinks \subseteq Nat /\ Segments \subseteq Nat
    /\ NSEGS \in Nat /\ USERSTACK \in Nat /\ MAXARG \in Nat

VARIABLES
    free,       \* length of kmem.freelist
    state,      \* p->state; RUNNING stands for RUNNABLE and RUNNING
    parent,     \* p->parent
    trapframe,  \* pages of p->trapframe, 0 or 1
    pagetable,  \* p->pagetable
    sz,         \* p->sz
    call,       \* the system call p is in, with its local variables
    panicked    \* uvmunmap or freewalk has panicked

vars == <<free, state, parent, trapframe, pagetable, sz, call, panicked>>

Slots == 1..NPROC
initproc == 1

(* A page table: its root, the pages of the levels below it for the top of *)
(* the address space and for user memory, and the user pages mapped.       *)
NoTable == [root |-> 0, top |-> 0, low |-> 0, user |-> 0]

Owned(t) == t.root + t.top + t.low + t.user

(* The local variables of exec (pagetable, sz, argv, i), of fork (np) and  *)
(* of uvmalloc and uvmcopy (mem, newsz).                                   *)
Idle == [pc |-> "user", np |-> 0, pagetable |-> NoTable, sz |-> 0, argv |-> 0, seg |-> 0,
         mem |-> 0, newsz |-> 0]

(* PGROUNDUP(n) / PGSIZE.                                                  *)
PGROUNDUP(n) == (n + PGSIZE - 1) \div PGSIZE

At(p, pcs) == ~panicked /\ state[p] = "RUNNING" /\ call[p].pc \in pcs

(* What a table is when a function has returned: uvmcreate(), a walk()     *)
(* that found a page of the table missing, mappages() of one page, and     *)
(* uvmdealloc() to a size.                                                 *)
uvmcreate(t) == [t EXCEPT !.root = 1]
walk(t) == [t EXCEPT !.low = @ + 1]
mappages(t) == [t EXCEPT !.user = @ + 1]
uvmdealloc(t, n) == [t EXCEPT !.user = PGROUNDUP(n)]

(* What makes uvmunmap() or freewalk() panic when a table is freed for a   *)
(* size: every page up to the size must be mapped and none beyond, and so  *)
(* must the trampoline and the trapframe.                                  *)
uvmunmap_Panics(t, n) == t.user # PGROUNDUP(n) \/ t.top # LEVELS

-----------------------------------------------------------------------------
(* The table that a call is building, and its next form.                   *)
Building(p) ==
    CASE call[p].pc = "grow" -> pagetable[p]
      [] call[p].pc \in {"fork", "copy"} -> pagetable[call[p].np]
      [] OTHER -> call[p].pagetable

Build(p, t, c) ==
    CASE call[p].pc = "grow" ->
            pagetable' = [pagetable EXCEPT ![p] = t] /\ call' = [call EXCEPT ![p] = c]
      [] call[p].pc \in {"fork", "copy"} ->
            pagetable' = [pagetable EXCEPT ![c.np] = t] /\ call' = [call EXCEPT ![p] = c]
      [] OTHER ->
            call' = [call EXCEPT ![p] = [c EXCEPT !.pagetable = t]] /\ UNCHANGED pagetable

kalloc == free > 0 /\ free' = free - 1

kfree(n) == free' = free + n

(* proc_freepagetable(), if there is a table; frees are pages that its     *)
(* caller gives back besides.                                              *)
proc_freepagetable(t, n, frees) ==
    IF t # NoTable /\ uvmunmap_Panics(t, n)
    THEN panicked' = TRUE /\ UNCHANGED free
    ELSE kfree(Owned(t) + frees) /\ UNCHANGED panicked

(* freeproc(): the trapframe, the table and the size of slot q.            *)
freeproc(q, t, frees) ==
    /\ proc_freepagetable(t, sz[q], trapframe[q] + frees)
    /\ trapframe' = [trapframe EXCEPT ![q] = 0]
    /\ pagetable' = [pagetable EXCEPT ![q] = NoTable]
    /\ sz' = [sz EXCEPT ![q] = 0]
    /\ parent' = [parent EXCEPT ![q] = 0]
    /\ state' = [state EXCEPT ![q] = "UNUSED"]

(* Mutated form of the next: the arguments are not freed.                  *)
ExecFails_KeepsArgv(p, t, frees) ==
    /\ kfree(Owned(t) + frees)
    /\ call' = [call EXCEPT ![p] = Idle]
    /\ UNCHANGED <<state, parent, trapframe, pagetable, sz, panicked>>

(* The way out of exec, label bad: the table is freed for the size reached *)
(* so far, and sys_exec frees the arguments.                               *)
ExecFails(p, t, frees) ==
    /\ proc_freepagetable(t, call[p].sz, call[p].argv + frees)
    /\ call' = [call EXCEPT ![p] = Idle]
    /\ UNCHANGED <<state, parent, trapframe, pagetable, sz>>

-----------------------------------------------------------------------------
(* proc_pagetable() for fork and exec: uvmcreate, then the walk to the     *)
(* trampoline; the trapframe needs no further page.                        *)
TablePage(p) ==
    /\ At(p, {"fork", "exec"})
    /\ kalloc
    /\ LET t == Building(p)
           t1 == IF t.root = 0 THEN uvmcreate(t) ELSE [t EXCEPT !.top = @ + 1]
           done == t1.top = LEVELS
       IN  Build(p, t1, IF ~done THEN call[p]
                        ELSE IF call[p].pc = "fork"
                             THEN [call[p] EXCEPT !.pc = "copy", !.newsz = sz[p]]
                             ELSE [call[p] EXCEPT !.pc = "load"])
    /\ UNCHANGED <<state, parent, trapframe, sz, panicked>>

(* It fails: uvmfree() of the unfinished table, and its callers see none.  *)
TableFails(p) ==
    /\ At(p, {"fork", "exec"}) /\ free = 0
    /\ IF call[p].pc = "fork"
       THEN /\ freeproc(call[p].np, NoTable, Owned(Building(p)))
            /\ call' = [call EXCEPT ![p] = Idle]
       ELSE ExecFails(p, NoTable, Owned(Building(p)))

(* The loops of uvmalloc() and uvmcopy(): a page, then the pages of the    *)
(* table that the walk of mappages() finds missing.                        *)
Filling(p) == At(p, {"grow", "copy", "segment", "stack"})
WantsPage(p) == call[p].mem = 1 \/ Building(p).user * PGSIZE < call[p].newsz

FillPage(p) ==
    /\ Filling(p) /\ WantsPage(p)
    /\ kalloc
    /\ LET t == Building(p)
           t1 == IF call[p].mem = 0 THEN t ELSE walk(t)
       IN  IF t1.low = LEVELS
           THEN Build(p, mappages(t1), [call[p] EXCEPT !.mem = 0])
           ELSE Build(p, t1, [call[p] EXCEPT !.mem = 1])
    /\ UNCHANGED <<state, parent, trapframe, sz, panicked>>

(* Mutated form: kalloc is tried again.                                    *)
FillFails_Retries(p) == Filling(p) /\ WantsPage(p) /\ free = 0 /\ UNCHANGED vars

(* kalloc fails in the loop: the page in hand is freed, uvmdealloc() takes *)
(* uvmalloc() back to the old size, uvmunmap() takes uvmcopy() back to     *)
(* nothing, and the call fails.                                            *)
FillFails(p) ==
    /\ Filling(p) /\ WantsPage(p) /\ free = 0
    /\ LET t == Building(p)
           more(n) == t.user - PGROUNDUP(n) + call[p].mem
       IN  CASE call[p].pc = "grow" ->
                    /\ kfree(more(sz[p]))
                    /\ Build(p, uvmdealloc(t, sz[p]), Idle)
                    /\ UNCHANGED <<state, parent, trapframe, sz, panicked>>
             [] call[p].pc = "copy" ->
                    /\ freeproc(call[p].np, uvmdealloc(t, 0), more(0))
                    /\ call' = [call EXCEPT ![p] = Idle]
             [] OTHER -> ExecFails(p, uvmdealloc(t, call[p].sz), more(call[p].sz))
-----------------------------------------------------------------------------
(* sys_sbrk() and growproc().  A size below zero wraps to a large one,     *)
(* which uvmdealloc() takes for no change.                                 *)
sys_sbrk(p, n) ==
    /\ At(p, {"user"})
    /\ LET new == sz[p] + n
           t == uvmdealloc(pagetable[p], new)
       IN  IF n > 0
           THEN /\ call' = [call EXCEPT ![p].pc = "grow", ![p].newsz = new]
                /\ UNCHANGED <<free, pagetable, sz>>
           ELSE /\ new >= 0 /\ n < 0
                /\ sz' = [sz EXCEPT ![p] = new]
                /\ pagetable' = [pagetable EXCEPT ![p] = t]
                /\ kfree(Owned(pagetable[p]) - Owned(t))
                /\ UNCHANGED call
    /\ UNCHANGED <<state, parent, trapframe, panicked>>

GrowReturns(p) ==
    /\ At(p, {"grow"}) /\ ~WantsPage(p)
    /\ sz' = [sz EXCEPT ![p] = call[p].newsz]
    /\ call' = [call EXCEPT ![p] = Idle]
    /\ UNCHANGED <<free, state, parent, trapframe, pagetable, panicked>>

(* fork(): allocproc() takes the first free slot and a page for the        *)
(* trapframe; without one, nothing has changed when it returns.            *)
fork(p) ==
    /\ At(p, {"user"})
    /\ \E q \in Slots :
          /\ state[q] = "UNUSED" /\ \A r \in 1..(q - 1) : state[r] # "UNUSED"
          /\ kalloc
          /\ state' = [state EXCEPT ![q] = "USED"]
          /\ trapframe' = [trapframe EXCEPT ![q] = 1]
          /\ call' = [call EXCEPT ![p].pc = "fork", ![p].np = q]
    /\ UNCHANGED <<parent, pagetable, sz, panicked>>

(* np->sz is set only when uvmcopy() has succeeded.                        *)
ForkReturns(p) ==
    /\ At(p, {"copy"}) /\ ~WantsPage(p)
    /\ sz' = [sz EXCEPT ![call[p].np] = sz[p]]
    /\ state' = [state EXCEPT ![call[p].np] = "RUNNING"]
    /\ parent' = [parent EXCEPT ![call[p].np] = p]
    /\ call' = [call EXCEPT ![p] = Idle]
    /\ UNCHANGED <<free, trapframe, pagetable, panicked>>

(* sys_exec(): a page for each argument.  The array also holds the null    *)
(* that ends the arguments, so that MAXARG of them are one too many.       *)
sys_exec(p) ==
    /\ At(p, {"user"})
    /\ call' = [call EXCEPT ![p].pc = "argv"]
    /\ UNCHANGED <<free, state, parent, trapframe, pagetable, sz, panicked>>

ArgvPage(p) ==
    /\ At(p, {"argv"}) /\ call[p].argv < MAXARG
    /\ kalloc
    /\ call' = [call EXCEPT ![p].argv = @ + 1]
    /\ UNCHANGED <<state, parent, trapframe, pagetable, sz, panicked>>

exec(p) ==
    /\ At(p, {"argv"}) /\ call[p].argv < MAXARG
    /\ call' = [call EXCEPT ![p].pc = "exec"]
    /\ UNCHANGED <<free, state, parent, trapframe, pagetable, sz, panicked>>

(* uvmalloc() for the next segment: one that ends below the size reached   *)
(* changes nothing.                                                        *)
ExecSegment(p, end) ==
    /\ At(p, {"load"}) /\ call[p].seg < NSEGS
    /\ call' = [call EXCEPT ![p].seg = @ + 1,
                            ![p].pc = IF end < call[p].sz THEN @ ELSE "segment",
                            ![p].newsz = end]
    /\ UNCHANGED <<free, state, parent, trapframe, pagetable, sz, panicked>>

ExecStack(p) ==
    /\ At(p, {"load"})
    /\ LET start == PGROUNDUP(call[p].sz) * PGSIZE
       IN  call' = [call EXCEPT ![p].pc = "stack", ![p].sz = start,
                                ![p].newsz = start + (USERSTACK + 1) * PGSIZE]
    /\ UNCHANGED <<free, state, parent, trapframe, pagetable, sz, panicked>>

(* uvmalloc() has returned.  A new size of 0 means failure to its caller.  *)
ExecFilled(p) ==
    /\ At(p, {"segment", "stack"}) /\ ~WantsPage(p)
    /\ IF call[p].newsz = 0
       THEN ExecFails(p, call[p].pagetable, 0)
       ELSE /\ call' = [call EXCEPT ![p].sz = call[p].newsz,
                                    ![p].pc = IF @ = "segment" THEN "load" ELSE "commit"]
            /\ UNCHANGED <<free, state, parent, trapframe, pagetable, sz, panicked>>

(* loadseg() or a read of a header falls short.                            *)
LoadFails(p) ==
    /\ At(p, {"load"})
    /\ ExecFails(p, call[p].pagetable, 0)

(* Everything else that can go wrong: no such file, not a program, no page *)
(* for an argument, too many or too long arguments.                        *)
ExecBad(p) ==
    /\ At(p, {"argv", "exec", "commit"})
    /\ call[p].pc = "exec" => call[p].pagetable = NoTable
    /\ ExecFails(p, call[p].pagetable, 0)

(* Mutated form: the old table is freed for the new size.                  *)
ExecCommits_NewSize(p) ==
    /\ At(p, {"commit"})
    /\ proc_freepagetable(pagetable[p], call[p].sz, call[p].argv)
    /\ pagetable' = [pagetable EXCEPT ![p] = call[p].pagetable]
    /\ sz' = [sz EXCEPT ![p] = call[p].sz]
    /\ call' = [call EXCEPT ![p] = Idle]
    /\ UNCHANGED <<state, parent, trapframe>>

ExecCommits(p) ==
    /\ At(p, {"commit"})
    /\ proc_freepagetable(pagetable[p], sz[p], call[p].argv)
    /\ pagetable' = [pagetable EXCEPT ![p] = call[p].pagetable]
    /\ sz' = [sz EXCEPT ![p] = call[p].sz]
    /\ call' = [call EXCEPT ![p] = Idle]
    /\ UNCHANGED <<state, parent, trapframe>>

(* exit() keeps the memory; the parent's wait() frees it.                  *)
exit(p) ==
    /\ At(p, {"user"}) /\ p # initproc
    /\ state' = [state EXCEPT ![p] = "ZOMBIE"]
    /\ parent' = [q \in Slots |-> IF parent[q] = p THEN initproc ELSE parent[q]]
    /\ UNCHANGED <<free, trapframe, pagetable, sz, call, panicked>>

wait(p, q) ==
    /\ At(p, {"user"}) /\ state[q] = "ZOMBIE" /\ parent[q] = p
    /\ freeproc(q, pagetable[q], 0)
    /\ UNCHANGED call

-----------------------------------------------------------------------------
(* kinit(), and userinit() with its process of one page.                   *)
FirstTable == [root |-> 1, top |-> LEVELS, low |-> LEVELS, user |-> 1]

Init ==
    /\ free = NPAGES - 1 - Owned(FirstTable)
    /\ state = [p \in Slots |-> IF p = initproc THEN "RUNNING" ELSE "UNUSED"]
    /\ parent = [p \in Slots |-> 0]
    /\ trapframe = [p \in Slots |-> IF p = initproc THEN 1 ELSE 0]
    /\ pagetable = [p \in Slots |-> IF p = initproc THEN FirstTable ELSE NoTable]
    /\ sz = [p \in Slots |-> IF p = initproc THEN PGSIZE ELSE 0]
    /\ call = [p \in Slots |-> Idle]
    /\ panicked = FALSE

InKernel(p) ==
    \/ TablePage(p) \/ TableFails(p)
    \/ FillPage(p) \/ FillFails(p)
    \/ GrowReturns(p) \/ ForkReturns(p)
    \/ ArgvPage(p) \/ exec(p)
    \/ \E end \in Segments : ExecSegment(p, end)
    \/ ExecStack(p) \/ ExecFilled(p) \/ ExecCommits(p)
    \/ LoadFails(p) \/ ExecBad(p)

Next ==
    \E p \in Slots :
        \/ \E n \in Grows \cup {-m : m \in Shrinks} : sys_sbrk(p, n)
        \/ fork(p) \/ sys_exec(p) \/ exit(p)
        \/ \E q \in Slots : wait(p, q)
        \/ InKernel(p)

Spec == Init /\ [][Next]_vars

(* A process in a system call is scheduled in the end.                     *)
Fairness == \A p \in Slots : WF_vars(InKernel(p))

FairSpec == Spec /\ Fairness

-----------------------------------------------------------------------------
(* No page is lost and none is freed twice: what is free, what processes   *)
(* and zombies own and what the calls under way have in hand add up to the *)
(* memory, whichever kalloc() of whichever call fails.                     *)
InHand(p) == Owned(call[p].pagetable) + call[p].argv + call[p].mem
Holds(p) == trapframe[p] + Owned(pagetable[p]) + InHand(p)

Held == UNION {{p} \X (1..Holds(p)) : p \in Slots}

PagesAccounted == free + Cardinality(Held) = NPAGES

(* Outside growproc(), the pages mapped are exactly those below p->sz, so  *)
(* that uvmunmap(), uvmcopy() and freewalk() do not panic; a slot that is  *)
(* not yet or no longer a process has size 0.                              *)
TablesMatchSizes ==
    /\ ~panicked
    /\ \A p \in Slots :
          IF state[p] \in {"RUNNING", "ZOMBIE"}
          THEN /\ pagetable[p].top = LEVELS
               /\ call[p].pc # "grow" => pagetable[p].user = PGROUNDUP(sz[p])
          ELSE sz[p] = 0

(* Nobody waits for memory: sbrk, fork and exec return, with what they     *)
(* asked for or without it, even when several want the last pages.         *)
CallsEnd == \A p \in Slots : (call[p].pc # "user") ~> (call[p].pc = "user")
=============================================================================
