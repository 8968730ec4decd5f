---------------------------- MODULE MemoryProofs -----------------------------
(***************************************************************************)
(* Proofs about the memory of processes (module Memory), for any number of *)
(* slots, any memory and any page size.                                    *)
(***************************************************************************)
EXTENDS Memory, TLAPS

-----------------------------------------------------------------------------
(* The memory of processes.  The types: a page table, the local variables  *)
(* of a call.                                                              *)
Table == [root : Nat, top : Nat, low : Nat, user : Nat]

Allocating == {"grow", "copy", "segment", "stack"}
CallPCs == Allocating \cup {"user", "fork", "argv", "exec", "load", "commit"}

CallType == [pc : CallPCs, np : Nat, pagetable : Table, sz : Nat, argv : Nat,
             seg : Nat, mem : {0, 1}, newsz : Nat]

MemType ==
    /\ free \in Nat /\ panicked = FALSE
    /\ state \in [Slots -> {"UNUSED", "USED", "RUNNING", "ZOMBIE"}]
    /\ trapframe \in [Slots -> Nat] /\ sz \in [Slots -> Nat]
    /\ pagetable \in [Slots -> Table]
    /\ call \in [Slots -> CallType]

(* A table on its way from one size to a larger one: its pages are below   *)
(* the new size, and a page in hand has its place.                         *)
Between(t, from, c) ==
    /\ PGROUNDUP(from) <= t.user /\ t.user <= PGROUNDUP(c.newsz)
    /\ c.mem = 1 => t.user < PGROUNDUP(c.newsz)

(* What is true of the slot of a process, by its state, its trapframe, its *)
(* table, its size and the call it is in.                                  *)
OwnInv(st, tf, t, z, c) ==
    /\ IF st \in {"RUNNING", "ZOMBIE"}
       THEN t.top = LEVELS /\ (c.pc # "grow" => t.user = PGROUNDUP(z))
       ELSE z = 0
    /\ st = "UNUSED" => tf = 0 /\ t = NoTable
    /\ st # "RUNNING" => c.pc = "user"
    /\ c.pc = "user" => c = Idle
    /\ c.pc \notin Allocating => c.mem = 0
    /\ c.pc \in {"grow", "fork", "copy", "argv"} => c.pagetable = NoTable
    /\ c.pc \in {"grow", "fork", "copy"} => c.argv = 0
    /\ c.pc = "grow" => Between(t, z, c) /\ z <= c.newsz
    /\ c.pc \in {"argv", "exec"} => c.sz = 0 /\ c.pagetable.user = 0
    /\ c.pc \in {"load", "segment", "stack", "commit"} => c.pagetable.top = LEVELS
    /\ c.pc \in {"load", "commit"} => c.pagetable.user = PGROUNDUP(c.sz)
    /\ c.pc \in {"segment", "stack"} => Between(c.pagetable, c.sz, c) /\ c.sz <= c.newsz

SlotInv(p) == OwnInv(state[p], trapframe[p], pagetable[p], sz[p], call[p])

(* What fork() has made of the child, by the call, the state and the table *)
(* of the child and the size of the parent.                                *)
ChildInv(c, st, t, z) ==
    /\ c.pc \in {"fork", "copy"} => st = "USED"
    /\ c.pc = "fork" => t.user = 0
    /\ c.pc = "copy" => t.top = LEVELS /\ c.newsz = z /\ Between(t, 0, c)

ForkInv(p) ==
    call[p].pc \in {"fork", "copy"} =>
        /\ call[p].np \in Slots
        /\ ChildInv(call[p], state[call[p].np], pagetable[call[p].np], sz[p])

ChildrenDiffer ==
    \A p, q \in Slots :
        p # q /\ call[p].pc \in {"fork", "copy"} /\ call[q].pc \in {"fork", "copy"}
            => call[p].np # call[q].np

MemInv ==
    /\ MemType /\ ChildrenDiffer
    /\ \A p \in Slots : SlotInv(p) /\ ForkInv(p)

(* PGROUNDUP in pages.                                                     *)
LEMMA Quotient ==
  ASSUME NEW m \in Nat \ {0}, NEW x \in Nat
  PROVE  /\ x \div m \in Nat
         /\ m * (x \div m) <= x /\ x < m * (x \div m) + m
  OBVIOUS

LEMMA LessTimes ==
  ASSUME NEW m \in Nat \ {0}, NEW a \in Nat, NEW b \in Nat
  PROVE  m * a < m * b <=> a < b
  OBVIOUS

LEMMA RoundUp ==
  ASSUME NEW n \in Nat, NEW u \in Nat
  PROVE  /\ PGROUNDUP(n) \in Nat
         /\ u * PGSIZE < n <=> u < PGROUNDUP(n)
<1> DEFINE x == n + PGSIZE - 1
           r == PGROUNDUP(n)
<1>1. PGSIZE \in Nat \ {0} /\ x \in Nat
  BY MemoryAssumption
<1>2. r \in Nat /\ PGSIZE * r <= x /\ x < PGSIZE * r + PGSIZE
  BY <1>1, Quotient DEF PGROUNDUP
<1> HIDE DEF r
<1>3. u < r => PGSIZE * (u + 1) <= PGSIZE * r
  BY <1>1, <1>2
<1>4. ~(u < r) => PGSIZE * r <= PGSIZE * u
  BY <1>1, <1>2
<1>5. PGSIZE * (u + 1) = PGSIZE * u + PGSIZE /\ PGSIZE * u = u * PGSIZE
  BY <1>1
<1> DEFINE a == PGSIZE * u
           b == PGSIZE * r
<1>6. a \in Nat /\ b \in Nat
  BY <1>1, <1>2
<1>7. (u < r => a + PGSIZE <= b) /\ (~(u < r) => b <= a) /\ b <= x /\ x < b + PGSIZE /\ u * PGSIZE = a
  BY <1>2, <1>3, <1>4, <1>5
<1> HIDE DEF a, b
<1>8. a < n <=> u < r
  BY <1>1, <1>2, <1>6, <1>7
<1> QED BY <1>2, <1>7, <1>8 DEF r

LEMMA RoundUpFacts ==
  /\ PGROUNDUP(0) = 0
  /\ \A n \in Nat : PGROUNDUP(n) \in Nat
  /\ \A m, n \in Nat : m <= n => PGROUNDUP(m) <= PGROUNDUP(n)
  /\ \A k \in Nat : k * PGSIZE \in Nat /\ PGROUNDUP(k * PGSIZE) = k
<1>0. PGSIZE \in Nat \ {0}
  BY MemoryAssumption
<1>1. \A n \in Nat : PGROUNDUP(n) \in Nat
  BY RoundUp
<1>2. ASSUME NEW m \in Nat, NEW n \in Nat, m <= n PROVE PGROUNDUP(m) <= PGROUNDUP(n)
  <2> DEFINE a == PGROUNDUP(m)
             b == PGROUNDUP(n)
  <2>1. a \in Nat /\ b \in Nat
    BY <1>1
  <2>2. (b * PGSIZE < m <=> b < a) /\ (b * PGSIZE < n <=> b < b)
    BY <2>1, RoundUp
  <2>3. b * PGSIZE \in Nat
    BY <1>0, <2>1
  <2> HIDE DEF a, b
  <2>4. a <= b
    BY <1>2, <2>1, <2>2, <2>3
  <2> QED BY <2>4 DEF a, b
<1>3. ASSUME NEW k \in Nat PROVE k * PGSIZE \in Nat /\ PGROUNDUP(k * PGSIZE) = k
  <2> DEFINE x == k * PGSIZE
             r == PGROUNDUP(x)
  <2>1. x \in Nat
    BY <1>0
  <2>2. r \in Nat
    BY <1>1, <2>1
  <2>3. r * PGSIZE < x <=> r < r
    <3> HIDE DEF x
    <3> QED BY <2>1, <2>2, RoundUp
  <2>4. k * PGSIZE < x <=> k < r
    <3> HIDE DEF x
    <3> QED BY <2>1, RoundUp
  <2>5. ~(r < k)
    <3> SUFFICES ASSUME r < k PROVE FALSE
      OBVIOUS
    <3> HIDE DEF r
    <3>1. PGSIZE * r < PGSIZE * k
      BY <1>0, <2>2, LessTimes
    <3>2. r * PGSIZE < x
      BY <1>0, <2>2, <3>1
    <3> QED BY <2>2, <2>3, <3>2
  <2>6. ~(k < r)
    <3> HIDE DEF r
    <3> QED BY <2>1, <2>4
  <2> HIDE DEF r
  <2>7. r = k
    BY <2>2, <2>5, <2>6
  <2> QED BY <2>1, <2>7 DEF r, x
<1>4. PGROUNDUP(0) = 0
  <2>1. 0 * PGSIZE = 0
    BY <1>0
  <2> QED BY <1>3, <2>1
<1> QED BY <1>1, <1>2, <1>3, <1>4

-----------------------------------------------------------------------------
(* The pages that leave the slots go to the free list, and back.           *)
PagesKept(p) == free' + Holds(p)' = free + Holds(p)
PagesKept2(p, q) == free' + Holds(p)' + Holds(q)' = free + Holds(p) + Holds(q)

-----------------------------------------------------------------------------
(* What a step leaves of a slot; a step of one slot and a step of two, a   *)
(* process and the child it makes.                                         *)
SameSlot(r) ==
    /\ state'[r] = state[r] /\ trapframe'[r] = trapframe[r] /\ sz'[r] = sz[r]
    /\ pagetable'[r] = pagetable[r] /\ call'[r] = call[r]

LEMMA SameHolds == ASSUME NEW r, SameSlot(r) PROVE Holds(r)' = Holds(r)
  BY DEF SameSlot, Holds, InHand, Owned

LEMMA SameSlotInv == ASSUME NEW r, SameSlot(r), SlotInv(r) PROVE SlotInv(r)'
  BY DEF SameSlot, SlotInv

LEMMA SameForkInv ==
  ASSUME NEW r \in Slots, SameSlot(r), ForkInv(r),
         call[r].pc \in {"fork", "copy"} => SameSlot(call[r].np)
  PROVE  ForkInv(r)'
  BY DEF SameSlot, ForkInv, Slots

(* A step that moves pages only between the free list and one slot, or two. *)
Balanced ==
    \/ \E p \in Slots : PagesKept(p) /\ \A r \in Slots : r # p => Holds(r)' = Holds(r)
    \/ \E p, q \in Slots :
          p # q /\ PagesKept2(p, q) /\ \A r \in Slots : r # p /\ r # q => Holds(r)' = Holds(r)

MemStep == MemInv' /\ Balanced

LEMMA OneSlot ==
  ASSUME MemInv, MemType', NEW p \in Slots, state[p] # "USED",
         \A r \in Slots : r # p => SameSlot(r),
         SlotInv(p)', call'[p].pc \notin {"fork", "copy"},
         PagesKept(p)
  PROVE  MemStep
<1>1. \A r \in Slots : SlotInv(r)'
  BY SameSlotInv DEF MemInv
<1>2. ASSUME NEW r \in Slots PROVE ForkInv(r)'
  <2>1. CASE r = p
    BY <2>1 DEF ForkInv
  <2>2. CASE r # p
    <3>1. call[r].pc \in {"fork", "copy"} => call[r].np \in Slots /\ call[r].np # p
      BY DEF MemInv, ForkInv, ChildInv
    <3> QED BY <2>2, <3>1, SameForkInv DEF MemInv
  <2> QED BY <2>1, <2>2
<1>3. ChildrenDiffer'
  <2>1. \A r \in Slots : call'[r].pc \in {"fork", "copy"} => r # p /\ call'[r] = call[r]
    BY DEF SameSlot
  <2> QED BY <2>1 DEF MemInv, ChildrenDiffer, Slots
<1>4. MemInv'
  BY <1>1, <1>2, <1>3 DEF MemInv, Slots
<1>5. Balanced
  BY SameHolds DEF Balanced
<1> QED BY <1>4, <1>5 DEF MemStep

LEMMA TwoSlots ==
  ASSUME MemInv, MemType', NEW p \in Slots, NEW q \in Slots, state[p] = "RUNNING",
         \/ state[q] = "UNUSED"
         \/ call[p].pc \in {"fork", "copy"} /\ call[p].np = q,
         \A r \in Slots : r # p /\ r # q => SameSlot(r),
         SlotInv(p)', SlotInv(q)', ForkInv(p)', call'[q].pc = "user",
         call'[p].pc \in {"fork", "copy"} => call'[p].np = q,
         PagesKept2(p, q)
  PROVE  MemStep
<1>0. p # q
  BY DEF MemInv, ForkInv, ChildInv
<1>1. \A r \in Slots : SlotInv(r)'
  BY SameSlotInv DEF MemInv
<1>2. ASSUME NEW r \in Slots, r # p, r # q, call[r].pc \in {"fork", "copy"}
      PROVE  call[r].np \in Slots /\ call[r].np # p /\ call[r].np # q
  <2>1. call[r].np \in Slots /\ state[call[r].np] = "USED"
    BY <1>2 DEF MemInv, ForkInv, ChildInv
  <2>2. call[r].np # q
    BY <1>2, <2>1 DEF MemInv, ChildrenDiffer
  <2> QED BY <2>1, <2>2, Zenon
<1>3. ASSUME NEW r \in Slots PROVE ForkInv(r)'
  <2>1. CASE r = q
    BY <2>1 DEF ForkInv
  <2>2. CASE r # p /\ r # q
    BY <1>2, <2>2, SameForkInv DEF MemInv
  <2> QED BY <2>1, <2>2
<1>4. ChildrenDiffer'
  <2>1. \A r \in Slots : r # p /\ call'[r].pc \in {"fork", "copy"} => r # q /\ call'[r] = call[r]
    BY DEF SameSlot
  <2>2. ASSUME NEW r \in Slots, NEW s \in Slots, r # s,
               call'[r].pc \in {"fork", "copy"}, call'[s].pc \in {"fork", "copy"}
        PROVE  call'[r].np # call'[s].np
    BY <1>2, <2>1, <2>2 DEF MemInv, ChildrenDiffer
  <2> QED BY <2>2 DEF ChildrenDiffer, Slots
<1>5. MemInv'
  BY <1>1, <1>3, <1>4 DEF MemInv, Slots
<1>6. Balanced
  BY <1>0, SameHolds DEF Balanced
<1> QED BY <1>5, <1>6, Zenon DEF MemStep

(* The pages a slot has, by what is in it.                                 *)
Sum(tf, t, c) == tf + Owned(t) + (Owned(c.pagetable) + c.argv + c.mem)

States == {"UNUSED", "USED", "RUNNING", "ZOMBIE"}

(* A process changes its own slot.                                         *)
OwnChange(p, st, tf, t, z, c, x) ==
    /\ st \in States /\ tf \in Nat /\ t \in Table /\ z \in Nat /\ c \in CallType /\ x \in Nat
    /\ state' = [state EXCEPT ![p] = st] /\ trapframe' = [trapframe EXCEPT ![p] = tf]
    /\ pagetable' = [pagetable EXCEPT ![p] = t] /\ sz' = [sz EXCEPT ![p] = z]
    /\ call' = [call EXCEPT ![p] = c] /\ free' = x /\ panicked' = FALSE
    /\ OwnInv(st, tf, t, z, c) /\ c.pc \notin {"fork", "copy"}
    /\ x + Sum(tf, t, c) = free + Sum(trapframe[p], pagetable[p], call[p])

LEMMA OwnStep ==
  ASSUME MemInv, NEW p \in Slots, state[p] # "USED",
         NEW st, NEW tf, NEW t, NEW z, NEW c, NEW x, OwnChange(p, st, tf, t, z, c, x)
  PROVE  MemStep
<1> USE DEF OwnChange
<1>1. MemType'
  BY DEF MemInv, MemType, States, Slots
<1>2. /\ state'[p] = st /\ trapframe'[p] = tf /\ pagetable'[p] = t /\ sz'[p] = z /\ call'[p] = c
      /\ \A r \in Slots : r # p => SameSlot(r)
  BY DEF MemInv, MemType, SameSlot
<1>3. SlotInv(p)'
  BY <1>2 DEF SlotInv
<1>4. PagesKept(p)
  <2>1. Holds(p)' = Sum(tf, t, c)
    BY <1>2, Zenon DEF Holds, InHand, Sum, Owned
  <2>2. Holds(p) = Sum(trapframe[p], pagetable[p], call[p])
    BY Zenon DEF Holds, InHand, Sum
  <2> QED BY <2>1, <2>2, Zenon DEF PagesKept
<1> QED BY <1>1, <1>2, <1>3, <1>4, OneSlot

(* A process changes the slot of its child, and its call.                  *)
PairChange(p, q, st, tf, t, z, c, x) ==
    /\ \/ state[q] = "UNUSED"
       \/ call[p].pc \in {"fork", "copy"} /\ call[p].np = q
    /\ st \in States /\ tf \in Nat /\ t \in Table /\ z \in Nat /\ c \in CallType /\ x \in Nat
    /\ state' = [state EXCEPT ![q] = st] /\ trapframe' = [trapframe EXCEPT ![q] = tf]
    /\ pagetable' = [pagetable EXCEPT ![q] = t] /\ sz' = [sz EXCEPT ![q] = z]
    /\ call' = [call EXCEPT ![p] = c] /\ free' = x /\ panicked' = FALSE
    /\ OwnInv("RUNNING", trapframe[p], pagetable[p], sz[p], c)
    /\ OwnInv(st, tf, t, z, Idle)
    /\ c.pc \in {"fork", "copy"} => c.np = q
    /\ ChildInv(c, st, t, sz[p])
    /\ x + Sum(trapframe[p], pagetable[p], c) + Sum(tf, t, Idle)
          = free + Sum(trapframe[p], pagetable[p], call[p])
                   + Sum(trapframe[q], pagetable[q], Idle)

LEMMA PairStep ==
  ASSUME MemInv, NEW p \in Slots, NEW q \in Slots, state[p] = "RUNNING",
         NEW st, NEW tf, NEW t, NEW z, NEW c, NEW x, PairChange(p, q, st, tf, t, z, c, x)
  PROVE  MemStep
<1> USE DEF PairChange
<1>0. p # q /\ (state[q] = "USED" \/ state[q] = "UNUSED")
  BY Zenon DEF MemInv, ForkInv, ChildInv
<1>a. call[q] = Idle
  BY <1>0, Zenon DEF MemInv, SlotInv, OwnInv
<1>1. MemType'
  BY Zenon DEF MemInv, MemType, States, Slots
<1>2. /\ state'[q] = st /\ trapframe'[q] = tf /\ pagetable'[q] = t /\ sz'[q] = z /\ call'[q] = Idle
      /\ state'[p] = state[p] /\ trapframe'[p] = trapframe[p] /\ pagetable'[p] = pagetable[p]
      /\ sz'[p] = sz[p] /\ call'[p] = c
      /\ \A r \in Slots : r # p /\ r # q => SameSlot(r)
  BY <1>0, <1>a, Zenon DEF MemInv, MemType, SameSlot
<1>3. SlotInv(p)' /\ SlotInv(q)'
  BY <1>2, Zenon DEF SlotInv
<1>4. ForkInv(p)'
  BY <1>2 DEF ForkInv, Slots
<1>5. PagesKept2(p, q)
  <2>1. Holds(p)' = Sum(trapframe[p], pagetable[p], c) /\ Holds(q)' = Sum(tf, t, Idle)
    BY <1>2, Zenon DEF Holds, InHand, Sum, Owned
  <2>2. /\ Holds(p) = Sum(trapframe[p], pagetable[p], call[p])
        /\ Holds(q) = Sum(trapframe[q], pagetable[q], Idle)
    BY <1>a, Zenon DEF Holds, InHand, Sum
  <2> QED BY <2>1, <2>2, Zenon DEF PagesKept2
<1>6. call'[q].pc = "user"
  BY <1>2 DEF Idle
<1> QED BY <1>1, <1>2, <1>3, <1>4, <1>5, <1>6, TwoSlots, Zenon

(* What is known of a slot, and of a slot that a step leaves alone.        *)
LEMMA KnownTypes ==
  ASSUME MemInv, NEW p \in Slots
  PROVE  /\ free \in Nat /\ panicked = FALSE
         /\ state[p] \in States /\ trapframe[p] \in Nat /\ pagetable[p] \in Table
         /\ sz[p] \in Nat /\ call[p] \in CallType
  BY Zenon DEF MemInv, MemType, States

LEMMA KnownOwn ==
  ASSUME MemInv, NEW p \in Slots
  PROVE  OwnInv(state[p], trapframe[p], pagetable[p], sz[p], call[p])
  BY DEF MemInv, SlotInv

LEMMA KnownKept ==
  ASSUME MemInv, NEW p \in Slots
  PROVE  /\ state = [state EXCEPT ![p] = state[p]]
         /\ trapframe = [trapframe EXCEPT ![p] = trapframe[p]]
         /\ pagetable = [pagetable EXCEPT ![p] = pagetable[p]]
         /\ sz = [sz EXCEPT ![p] = sz[p]] /\ call = [call EXCEPT ![p] = call[p]]
  BY DEF MemInv, MemType

(* The sizes of tables.                                                    *)
LEMMA TableTypes ==
  ASSUME NEW t \in Table
  PROVE  /\ t.user \in Nat /\ t.top \in Nat /\ t.low \in Nat /\ t.root \in Nat
         /\ Owned(t) \in Nat /\ Owned(t) = t.root + t.top + t.low + t.user
  BY DEF Table, Owned

LEMMA CallTypes ==
  ASSUME NEW c \in CallType
  PROVE  /\ c.pc \in CallPCs /\ c.np \in Nat /\ c.pagetable \in Table /\ c.sz \in Nat
         /\ c.argv \in Nat /\ c.seg \in Nat /\ c.mem \in {0, 1} /\ c.newsz \in Nat
  BY Zenon DEF CallType

LEMMA IdleIs ==
  /\ NoTable \in Table /\ Owned(NoTable) = 0 /\ NoTable.user = 0
  /\ Idle \in CallType /\ Idle.pagetable = NoTable /\ Idle.argv = 0
  /\ Idle.mem = 0 /\ Idle.pc = "user" /\ Idle.sz = 0 /\ Idle.newsz = 0
  BY DEF Table, CallType, CallPCs, Allocating, NoTable, Idle, Owned

LEMMA TableOps ==
  ASSUME NEW t \in Table
  PROVE  /\ t.root = 0 => uvmcreate(t) \in Table /\ Owned(uvmcreate(t)) = Owned(t) + 1
         /\ walk(t) \in Table /\ Owned(walk(t)) = Owned(t) + 1
         /\ mappages(t) \in Table /\ Owned(mappages(t)) = Owned(t) + 1
  BY DEF Table, Owned, uvmcreate, walk, mappages

LEMMA Dealloc ==
  ASSUME NEW t \in Table, NEW n \in Nat
  PROVE  /\ uvmdealloc(t, n) \in Table /\ uvmdealloc(t, n).user = PGROUNDUP(n)
         /\ uvmdealloc(t, n).top = t.top
         /\ Owned(uvmdealloc(t, n)) + t.user = Owned(t) + PGROUNDUP(n)
<1>1. PGROUNDUP(n) \in Nat
  BY RoundUpFacts
<1> QED BY <1>1 DEF Table, Owned, uvmdealloc

(* What a process has in hand.                                             *)
Hand(c) == Owned(c.pagetable) + c.argv + c.mem

LEMMA SumIs ==
  ASSUME NEW tf \in Nat, NEW t \in Table, NEW c \in CallType
  PROVE  /\ Hand(c) \in Nat /\ Owned(t) \in Nat
         /\ Sum(tf, t, c) = tf + Owned(t) + Hand(c)
<1>1. Owned(t) \in Nat /\ Owned(c.pagetable) \in Nat
  BY TableTypes, CallTypes
<1>2. c.argv \in Nat /\ c.mem \in Nat
  BY CallTypes
<1> QED BY <1>1, <1>2 DEF Sum, Hand

LEMMA HandIdle == Hand(Idle) = 0
  BY IdleIs DEF Hand

(* A step of p that changes its call only.                                 *)
LEMMA CallStep ==
  ASSUME MemInv, NEW p \in Slots, state[p] = "RUNNING", NEW c \in CallType, NEW x \in Nat,
         UNCHANGED <<state, trapframe, pagetable, sz, panicked>>,
         call' = [call EXCEPT ![p] = c], free' = x,
         OwnInv("RUNNING", trapframe[p], pagetable[p], sz[p], c), c.pc \notin {"fork", "copy"},
         x + Hand(c) = free + Hand(call[p])
  PROVE  MemStep
<1>0. /\ free \in Nat /\ trapframe[p] \in Nat /\ pagetable[p] \in Table /\ sz[p] \in Nat
      /\ call[p] \in CallType /\ "RUNNING" \in States /\ panicked' = FALSE
  BY KnownTypes, Zenon DEF States
<1>1. x + Sum(trapframe[p], pagetable[p], c) = free + Sum(trapframe[p], pagetable[p], call[p])
  <2>1. PICK y \in Nat : y = free
    BY <1>0, Zenon
  <2>2. PICK tf \in Nat, o \in Nat : tf = trapframe[p] /\ o = Owned(pagetable[p])
    BY <1>0, SumIs, Zenon
  <2>3. PICK h \in Nat : h = Hand(call[p])
    BY <1>0, SumIs, Zenon
  <2>4. PICK k \in Nat : k = Hand(c)
    BY <1>0, SumIs, Zenon
  <2>5. x + k = y + h
    BY <2>1, <2>3, <2>4, Zenon
  <2>6. x + (tf + o + k) = y + (tf + o + h)
    BY <2>5
  <2>7. /\ Sum(trapframe[p], pagetable[p], c) = tf + o + k
        /\ Sum(trapframe[p], pagetable[p], call[p]) = tf + o + h
    BY <1>0, <2>2, <2>3, <2>4, SumIs, Zenon
  <2> QED BY <2>1, <2>6, <2>7, Zenon
<1>2. /\ state' = [state EXCEPT ![p] = "RUNNING"]
      /\ trapframe' = [trapframe EXCEPT ![p] = trapframe[p]]
      /\ pagetable' = [pagetable EXCEPT ![p] = pagetable[p]]
      /\ sz' = [sz EXCEPT ![p] = sz[p]]
  BY KnownKept, Zenon
<1>3. OwnChange(p, "RUNNING", trapframe[p], pagetable[p], sz[p], c, x)
  BY <1>0, <1>1, <1>2, Zenon DEF OwnChange
<1> QED BY <1>3, OwnStep

LEMMA StepOf_sys_exec ==
  ASSUME MemInv, NEW p \in Slots, sys_exec(p)
  PROVE  MemStep
<1> DEFINE c == [Idle EXCEPT !.pc = "argv"]
<1>1. /\ state[p] = "RUNNING" /\ call[p].pc = "user"
  BY DEF sys_exec, At
<1>a. call[p] = Idle /\ free \in Nat
  BY <1>1, KnownOwn, KnownTypes, Zenon DEF OwnInv
<1>2. c \in CallType /\ c.pc = "argv" /\ c.mem = 0 /\ c.argv = 0 /\ c.pagetable = NoTable /\ c.sz = 0
  BY DEF CallType, CallPCs, Allocating, Idle, NoTable, Table
<1>3. call' = [call EXCEPT ![p] = c] /\ UNCHANGED <<free, state, trapframe, pagetable, sz, panicked>>
  BY <1>a, Zenon DEF sys_exec
<1> HIDE DEF c
<1>4. OwnInv("RUNNING", trapframe[p], pagetable[p], sz[p], c)
  BY <1>1, <1>2, KnownOwn, IdleIs, Zenon DEF OwnInv, Allocating
<1>5. Hand(c) = 0 /\ Hand(call[p]) = 0
  BY <1>a, <1>2, IdleIs, HandIdle DEF Hand
<1> QED BY <1>1, <1>a, <1>2, <1>3, <1>4, <1>5, CallStep, Zenon

LEMMA FillBound ==
  ASSUME NEW u \in Nat, NEW n \in Nat
  PROVE  PGROUNDUP(n) \in Nat /\ (u * PGSIZE < n <=> u < PGROUNDUP(n))
  BY RoundUp

(* sbrk() of a positive size.                                              *)
LEMMA StepOf_sbrkGrow ==
  ASSUME MemInv, NEW p \in Slots, NEW n \in Int, sys_sbrk(p, n), n > 0
  PROVE  MemStep
<1> DEFINE new == sz[p] + n
           c == [call[p] EXCEPT !.pc = "grow", !.newsz = new]
<1>1. state[p] = "RUNNING" /\ call[p].pc = "user"
  BY DEF sys_sbrk, At
<1>2. /\ free \in Nat /\ sz[p] \in Nat /\ call[p] \in CallType /\ pagetable[p] \in Table
  BY KnownTypes, Zenon
<1>3. new \in Nat /\ sz[p] <= new
  BY <1>2
<1>a. call[p] = Idle /\ pagetable[p].top = LEVELS /\ pagetable[p].user = PGROUNDUP(sz[p])
  BY <1>1, KnownOwn, Zenon DEF OwnInv
<1>b. PGROUNDUP(sz[p]) \in Nat /\ PGROUNDUP(new) \in Nat /\ PGROUNDUP(sz[p]) <= PGROUNDUP(new)
  BY <1>2, <1>3, RoundUpFacts
<1>4. call' = [call EXCEPT ![p] = c] /\ UNCHANGED <<free, state, trapframe, pagetable, sz, panicked>>
  BY <1>2, Zenon DEF sys_sbrk
<1> HIDE DEF new
<1>5. /\ c \in CallType /\ c.pc = "grow" /\ c.newsz = new /\ c.pagetable = call[p].pagetable
      /\ c.argv = call[p].argv /\ c.mem = call[p].mem
  BY <1>2, <1>3, Zenon DEF CallType, CallPCs, Allocating
<1> HIDE DEF c
<1>6. Hand(c) = Hand(call[p])
  BY <1>5 DEF Hand
<1>7. c.mem = 0 /\ c.argv = 0 /\ c.pagetable = NoTable
  BY <1>5, <1>a, IdleIs, Zenon
<1>8. Between(pagetable[p], sz[p], c)
  BY <1>5, <1>7, <1>a, <1>b DEF Between
<1>9. OwnInv("RUNNING", trapframe[p], pagetable[p], sz[p], c)
  BY <1>3, <1>5, <1>7, <1>8, <1>a, Zenon DEF OwnInv, Allocating
<1>10. c.pc \notin {"fork", "copy"}
  BY <1>5, Zenon
<1> QED BY <1>1, <1>2, <1>4, <1>5, <1>6, <1>9, <1>10, CallStep, Zenon

(* sbrk() of a negative size.                                              *)
LEMMA StepOf_sbrkShrink ==
  ASSUME MemInv, NEW p \in Slots, NEW n \in Int, sys_sbrk(p, n), ~(n > 0)
  PROVE  MemStep
<1> DEFINE new == sz[p] + n
           t == uvmdealloc(pagetable[p], new)
           x == free + (Owned(pagetable[p]) - Owned(t))
<1>1. state[p] = "RUNNING" /\ call[p].pc = "user" /\ new >= 0 /\ n < 0
  BY DEF sys_sbrk, At
<1>2. /\ free \in Nat /\ sz[p] \in Nat /\ call[p] \in CallType /\ pagetable[p] \in Table
      /\ trapframe[p] \in Nat /\ panicked = FALSE
  BY KnownTypes, Zenon
<1>3. new \in Nat /\ new <= sz[p]
  BY <1>1, <1>2
<1>4. /\ sz' = [sz EXCEPT ![p] = new] /\ pagetable' = [pagetable EXCEPT ![p] = t]
      /\ free' = x /\ UNCHANGED <<call, state, trapframe, panicked>>
  BY Zenon DEF sys_sbrk, kfree
<1> HIDE DEF new
<1>a. call[p] = Idle /\ pagetable[p].top = LEVELS /\ pagetable[p].user = PGROUNDUP(sz[p])
  BY <1>1, KnownOwn, Zenon DEF OwnInv
<1>b. PGROUNDUP(sz[p]) \in Nat /\ PGROUNDUP(new) \in Nat /\ PGROUNDUP(new) <= PGROUNDUP(sz[p])
  BY <1>2, <1>3, RoundUpFacts
<1>5. /\ t \in Table /\ t.user = PGROUNDUP(new) /\ t.top = pagetable[p].top
      /\ Owned(t) + pagetable[p].user = Owned(pagetable[p]) + PGROUNDUP(new)
  BY <1>2, <1>3, Dealloc, Zenon
<1>6. Owned(t) \in Nat /\ Owned(pagetable[p]) \in Nat
  BY <1>2, <1>5, TableTypes, Zenon
<1> HIDE DEF t
<1>7. Owned(pagetable[p]) - Owned(t) \in Nat
  BY <1>5, <1>6, <1>a, <1>b
<1>8. x \in Nat /\ x + Owned(t) = free + Owned(pagetable[p])
  BY <1>2, <1>6, <1>7
<1> HIDE DEF x
<1>9. OwnInv("RUNNING", trapframe[p], t, new, call[p])
  BY <1>1, <1>5, <1>a, IdleIs DEF OwnInv
<1>10. x + Sum(trapframe[p], t, call[p]) = free + Sum(trapframe[p], pagetable[p], call[p])
  <2>1. PICK y \in Nat, o \in Nat : y = free /\ o = Owned(pagetable[p])
    BY <1>2, <1>6, Zenon
  <2>2. PICK k \in Nat, h \in Nat : k = Owned(t) /\ h = Hand(call[p])
    BY <1>2, <1>6, SumIs, Zenon
  <2>3. PICK tf \in Nat : tf = trapframe[p]
    BY <1>2, Zenon
  <2>4. x + k = y + o
    BY <1>8, <2>1, <2>2, Zenon
  <2>5. x + (tf + k + h) = y + (tf + o + h)
    BY <2>4, <1>8
  <2>6. /\ Sum(trapframe[p], t, call[p]) = tf + k + h
        /\ Sum(trapframe[p], pagetable[p], call[p]) = tf + o + h
    BY <1>2, <1>5, <2>1, <2>2, <2>3, SumIs, Zenon
  <2> QED BY <2>1, <2>5, <2>6, Zenon
<1>11. /\ state' = [state EXCEPT ![p] = "RUNNING"] /\ call' = [call EXCEPT ![p] = call[p]]
       /\ trapframe' = [trapframe EXCEPT ![p] = trapframe[p]]
  BY <1>1, <1>4, KnownKept, Zenon
<1>12. "RUNNING" \in States /\ call[p].pc \notin {"fork", "copy"} /\ state[p] # "USED"
  BY <1>1 DEF States
<1>13. OwnChange(p, "RUNNING", trapframe[p], t, new, call[p], x)
  BY <1>2, <1>3, <1>4, <1>5, <1>8, <1>9, <1>10, <1>11, <1>12, Zenon DEF OwnChange
<1> QED BY <1>12, <1>13, OwnStep

LEMMA StepOf_sys_sbrk ==
  ASSUME MemInv, NEW p \in Slots, NEW n \in Int, sys_sbrk(p, n)
  PROVE  MemStep
  BY StepOf_sbrkGrow, StepOf_sbrkShrink, Zenon

(* The loop of uvmalloc() for growproc() has ended.                        *)
LEMMA StepOf_GrowReturns ==
  ASSUME MemInv, NEW p \in Slots, GrowReturns(p)
  PROVE  MemStep
<1> DEFINE new == call[p].newsz
<1>1. /\ state[p] = "RUNNING" /\ call[p].pc = "grow" /\ call[p].mem # 1
      /\ ~(pagetable[p].user * PGSIZE < new)
  BY DEF GrowReturns, At, WantsPage, Building
<1>2. /\ free \in Nat /\ sz[p] \in Nat /\ call[p] \in CallType /\ pagetable[p] \in Table
      /\ trapframe[p] \in Nat /\ panicked = FALSE
  BY KnownTypes, Zenon
<1>3. /\ sz' = [sz EXCEPT ![p] = new] /\ call' = [call EXCEPT ![p] = Idle]
      /\ UNCHANGED <<free, state, trapframe, pagetable, panicked>>
  BY DEF GrowReturns
<1>4. /\ new \in Nat /\ call[p].mem \in {0, 1} /\ pagetable[p].user \in Nat
  BY <1>2, CallTypes, TableTypes, Zenon
<1>5. /\ pagetable[p].top = LEVELS /\ Between(pagetable[p], sz[p], call[p])
      /\ call[p].pagetable = NoTable /\ call[p].argv = 0
  BY <1>1, KnownOwn, Zenon DEF OwnInv
<1>6. pagetable[p].user <= PGROUNDUP(new) /\ call[p].mem = 0
  BY <1>1, <1>4, <1>5, Zenon DEF Between
<1>7. pagetable[p].user = PGROUNDUP(new)
  BY <1>1, <1>4, <1>6, FillBound
<1>8. OwnInv("RUNNING", trapframe[p], pagetable[p], new, Idle)
  BY <1>5, <1>7, IdleIs, Zenon DEF OwnInv
<1>9. Hand(call[p]) = 0
  BY <1>5, <1>6, IdleIs DEF Hand
<1>a. Idle \in CallType /\ Idle.pc \notin {"fork", "copy"}
  BY IdleIs
<1>10. free + Sum(trapframe[p], pagetable[p], Idle) = free + Sum(trapframe[p], pagetable[p], call[p])
  <2>1. Sum(trapframe[p], pagetable[p], Idle) = trapframe[p] + Owned(pagetable[p]) + Hand(Idle)
    BY <1>2, <1>a, SumIs, Zenon
  <2>2. Sum(trapframe[p], pagetable[p], call[p]) = trapframe[p] + Owned(pagetable[p]) + Hand(call[p])
    BY <1>2, SumIs, Zenon
  <2> QED BY <2>1, <2>2, <1>9, HandIdle, Zenon
<1>11. /\ state' = [state EXCEPT ![p] = "RUNNING"] /\ trapframe' = [trapframe EXCEPT ![p] = trapframe[p]]
       /\ pagetable' = [pagetable EXCEPT ![p] = pagetable[p]]
  BY <1>1, <1>3, KnownKept, Zenon
<1>12. "RUNNING" \in States /\ state[p] # "USED"
  BY <1>1 DEF States
<1>13. OwnChange(p, "RUNNING", trapframe[p], pagetable[p], new, Idle, free)
  BY <1>2, <1>3, <1>4, <1>8, <1>a, <1>10, <1>11, <1>12, Zenon DEF OwnChange
<1> QED BY <1>12, <1>13, OwnStep

(* A page for an argument.                                                 *)
LEMMA StepOf_ArgvPage ==
  ASSUME MemInv, NEW p \in Slots, ArgvPage(p)
  PROVE  MemStep
<1> DEFINE c == [call[p] EXCEPT !.argv = call[p].argv + 1]
           x == free - 1
<1>1. state[p] = "RUNNING" /\ call[p].pc = "argv" /\ free > 0
  BY DEF ArgvPage, At, kalloc
<1>2. free \in Nat /\ call[p] \in CallType
  BY KnownTypes, Zenon
<1>3. call[p].argv \in Nat /\ call[p].mem \in {0, 1} /\ call[p].pagetable \in Table
  BY <1>2, CallTypes
<1>4. /\ call' = [call EXCEPT ![p] = c] /\ free' = x
      /\ UNCHANGED <<state, trapframe, pagetable, sz, panicked>>
  BY <1>2 DEF ArgvPage, kalloc
<1>5. /\ c \in CallType /\ c.pc = call[p].pc /\ c.pagetable = call[p].pagetable /\ c.sz = call[p].sz
      /\ c.argv = call[p].argv + 1 /\ c.mem = call[p].mem
  BY <1>2, <1>3 DEF CallType
<1> HIDE DEF c
<1>6. Owned(call[p].pagetable) \in Nat
  BY <1>3, TableTypes, Zenon
<1>7. x \in Nat /\ x + Hand(c) = free + Hand(call[p])
  BY <1>1, <1>2, <1>3, <1>5, <1>6 DEF Hand
<1>8. OwnInv("RUNNING", trapframe[p], pagetable[p], sz[p], c)
  BY <1>1, <1>5, KnownOwn, Zenon DEF OwnInv, Allocating
<1>9. c.pc \notin {"fork", "copy"}
  BY <1>1, <1>5
<1> HIDE DEF x
<1> QED BY <1>1, <1>4, <1>5, <1>7, <1>8, <1>9, CallStep, Zenon

(* A step that leaves what is in hand alone.                               *)
LEMMA StepOf_exec ==
  ASSUME MemInv, NEW p \in Slots, exec(p)
  PROVE  MemStep
<1> DEFINE c == [call[p] EXCEPT !.pc = "exec"]
<1>1. state[p] = "RUNNING" /\ call[p].pc = "argv"
  BY DEF exec, At
<1>2. free \in Nat /\ call[p] \in CallType
  BY KnownTypes, Zenon
<1>4. /\ call' = [call EXCEPT ![p] = c] /\ UNCHANGED <<free, state, trapframe, pagetable, sz, panicked>>
  BY <1>2 DEF exec
<1>5. /\ c \in CallType /\ c.pc = "exec" /\ c.pagetable = call[p].pagetable /\ c.sz = call[p].sz
      /\ c.argv = call[p].argv /\ c.mem = call[p].mem
  BY <1>2, Zenon DEF CallType, CallPCs
<1> HIDE DEF c
<1>7. free + Hand(c) = free + Hand(call[p])
  BY <1>5, Zenon DEF Hand
<1>a. call[p].mem = 0 /\ call[p].sz = 0 /\ call[p].pagetable.user = 0
  BY <1>1, KnownOwn, Zenon DEF OwnInv, Allocating
<1>8. OwnInv("RUNNING", trapframe[p], pagetable[p], sz[p], c)
  BY <1>1, <1>5, <1>a, KnownOwn, Zenon DEF OwnInv, Allocating
<1>9. c.pc \notin {"fork", "copy"}
  BY <1>5
<1> QED BY <1>1, <1>2, <1>4, <1>5, <1>7, <1>8, <1>9, CallStep, Zenon

LEMMA StepOf_ExecSegment ==
  ASSUME MemInv, NEW p \in Slots, NEW end \in Nat, ExecSegment(p, end)
  PROVE  MemStep
<1> DEFINE at == IF end < call[p].sz THEN "load" ELSE "segment"
           seg == call[p].seg + 1
           c == [call[p] EXCEPT !.seg = seg, !.pc = at, !.newsz = end]
<1>1. state[p] = "RUNNING" /\ call[p].pc = "load"
  BY DEF ExecSegment, At
<1>2. free \in Nat /\ call[p] \in CallType
  BY KnownTypes, Zenon
<1>3. call[p].seg \in Nat /\ call[p].sz \in Nat /\ call[p].pagetable \in Table
  BY <1>2, CallTypes
<1>4. /\ call' = [call EXCEPT ![p] = c] /\ UNCHANGED <<free, state, trapframe, pagetable, sz, panicked>>
  BY <1>1, <1>2, Zenon DEF ExecSegment
<1>b. at \in {"load", "segment"} /\ (at = "segment" => call[p].sz <= end)
  BY <1>3
<1>d. at \in CallPCs /\ seg \in Nat
  BY <1>b, <1>3 DEF CallPCs, Allocating
<1> HIDE DEF at, seg
<1>5. /\ c \in CallType /\ c.pc = at /\ c.pagetable = call[p].pagetable /\ c.sz = call[p].sz
      /\ c.argv = call[p].argv /\ c.mem = call[p].mem /\ c.newsz = end
  BY <1>2, <1>d, Zenon DEF CallType
<1> HIDE DEF c
<1>7. free + Hand(c) = free + Hand(call[p])
  BY <1>5, Zenon DEF Hand
<1>a. call[p].mem = 0 /\ call[p].pagetable.top = LEVELS /\ call[p].pagetable.user = PGROUNDUP(call[p].sz)
  BY <1>1, KnownOwn, Zenon DEF OwnInv, Allocating
<1>c. at = "segment" => Between(c.pagetable, c.sz, c)
  <2>1. call[p].sz <= end => PGROUNDUP(call[p].sz) <= PGROUNDUP(end)
    BY <1>3, RoundUpFacts, Zenon
  <2>2. PGROUNDUP(call[p].sz) \in Nat /\ PGROUNDUP(end) \in Nat
    BY <1>3, RoundUpFacts
  <2> QED BY <1>5, <1>a, <1>b, <2>1, <2>2 DEF Between
<1>8. OwnInv("RUNNING", trapframe[p], pagetable[p], sz[p], c)
  BY <1>1, <1>5, <1>a, <1>b, <1>c, KnownOwn, Zenon DEF OwnInv, Allocating
<1>9. c.pc \notin {"fork", "copy"}
  BY <1>5, <1>b
<1> QED BY <1>1, <1>2, <1>4, <1>5, <1>7, <1>8, <1>9, CallStep, Zenon

LEMMA StepOf_ExecStack ==
  ASSUME MemInv, NEW p \in Slots, ExecStack(p)
  PROVE  MemStep
<1> DEFINE k == PGROUNDUP(call[p].sz)
           start == k * PGSIZE
           new == start + (USERSTACK + 1) * PGSIZE
           c == [call[p] EXCEPT !.pc = "stack", !.sz = start, !.newsz = new]
<1>1. state[p] = "RUNNING" /\ call[p].pc = "load"
  BY Zenon DEF ExecStack, At
<1>2. free \in Nat /\ call[p] \in CallType
  BY KnownTypes, Zenon
<1>3. k \in Nat
  <2>1. call[p].sz \in Nat
    BY <1>2, CallTypes
  <2> QED BY <2>1, RoundUpFacts, Zenon
<1>4. /\ call' = [call EXCEPT ![p] = c] /\ UNCHANGED <<free, state, trapframe, pagetable, sz, panicked>>
  BY <1>1, <1>2, Zenon DEF ExecStack
<1>a. call[p].mem = 0 /\ call[p].pagetable.top = LEVELS /\ call[p].pagetable.user = k
  BY <1>1, KnownOwn DEF OwnInv, Allocating
<1> HIDE DEF k
<1>b. start \in Nat /\ PGROUNDUP(start) = k
  BY <1>3, RoundUpFacts
<1>c. (USERSTACK + 1) * PGSIZE \in Nat
  <2>1. USERSTACK + 1 \in Nat
    BY MemoryAssumption
  <2> QED BY <2>1, RoundUpFacts
<1> HIDE DEF start
<1>d. new \in Nat /\ start <= new
  BY <1>b, <1>c
<1> HIDE DEF new
<1>e. k <= PGROUNDUP(new) /\ PGROUNDUP(new) \in Nat
  BY <1>b, <1>d, RoundUpFacts
<1>5. /\ c \in CallType /\ c.pc = "stack" /\ c.pagetable = call[p].pagetable /\ c.sz = start
      /\ c.argv = call[p].argv /\ c.mem = call[p].mem /\ c.newsz = new
  BY <1>2, <1>b, <1>d, Zenon DEF CallType, CallPCs, Allocating
<1> HIDE DEF c
<1>7. free + Hand(c) = free + Hand(call[p])
  BY <1>5, Zenon DEF Hand
<1>f. Between(c.pagetable, c.sz, c)
  BY <1>5, <1>a, <1>b, <1>3, <1>e DEF Between
<1>8. OwnInv("RUNNING", trapframe[p], pagetable[p], sz[p], c)
  BY <1>1, <1>5, <1>a, <1>d, <1>f, KnownOwn, Zenon DEF OwnInv, Allocating
<1>9. c.pc \notin {"fork", "copy"}
  BY <1>5
<1> QED BY <1>1, <1>2, <1>4, <1>5, <1>7, <1>8, <1>9, CallStep, Zenon

(* A table that is freed for its size does not panic.                      *)
LEMMA Freed ==
  ASSUME NEW t, NEW n, NEW k, proc_freepagetable(t, n, k),
         t = NoTable \/ (t.user = PGROUNDUP(n) /\ t.top = LEVELS)
  PROVE  free' = free + (Owned(t) + k) /\ panicked' = panicked
  BY Zenon DEF proc_freepagetable, uvmunmap_Panics, kfree

LEMMA IdleOwn ==
  ASSUME NEW tf, NEW t, NEW z, t.top = LEVELS, t.user = PGROUNDUP(z)
  PROVE  OwnInv("RUNNING", tf, t, z, Idle) /\ OwnInv("ZOMBIE", tf, t, z, Idle)
  BY IdleIs DEF OwnInv

LEMMA StepOf_ExecFails ==
  ASSUME MemInv, NEW p \in Slots, state[p] = "RUNNING", call[p].pc # "grow",
         NEW t \in Table, NEW k \in Nat, ExecFails(p, t, k),
         t = NoTable \/ (t.user = PGROUNDUP(call[p].sz) /\ t.top = LEVELS),
         Owned(t) + k = Owned(call[p].pagetable) + call[p].mem
  PROVE  MemStep
<1> DEFINE x == free + (Owned(t) + (call[p].argv + k))
<1>1. free' = x /\ panicked' = panicked
  BY Freed, Zenon DEF ExecFails
<1>2. call' = [call EXCEPT ![p] = Idle] /\ UNCHANGED <<state, trapframe, pagetable, sz>>
  BY DEF ExecFails
<1>3. free \in Nat /\ call[p] \in CallType
  BY KnownTypes, Zenon
<1>4. call[p].argv \in Nat /\ call[p].mem \in Nat /\ Owned(t) \in Nat /\ Owned(call[p].pagetable) \in Nat
  BY <1>3, CallTypes, TableTypes
<1>5. x \in Nat /\ x = free + (Owned(call[p].pagetable) + call[p].argv + call[p].mem)
  BY <1>3, <1>4
<1> HIDE DEF x
<1>6. x + Hand(Idle) = free + Hand(call[p])
  BY <1>5, HandIdle DEF Hand
<1>7. pagetable[p].top = LEVELS /\ pagetable[p].user = PGROUNDUP(sz[p])
  BY KnownOwn, Zenon DEF OwnInv
<1>8. OwnInv("RUNNING", trapframe[p], pagetable[p], sz[p], Idle)
  BY <1>7, IdleOwn, Zenon
<1>9. Idle \in CallType /\ Idle.pc \notin {"fork", "copy"}
  BY IdleIs, Zenon
<1> QED BY <1>1, <1>2, <1>5, <1>6, <1>8, <1>9, CallStep, Zenon

LEMMA StepOf_LoadFails ==
  ASSUME MemInv, NEW p \in Slots, LoadFails(p)
  PROVE  MemStep
<1> DEFINE t == call[p].pagetable
<1>1. state[p] = "RUNNING" /\ call[p].pc = "load" /\ ExecFails(p, t, 0)
  BY DEF LoadFails, At
<1>2. t \in Table /\ Owned(t) \in Nat
  BY KnownTypes, CallTypes, TableTypes, Zenon
<1>3. call[p].mem = 0 /\ t.user = PGROUNDUP(call[p].sz) /\ t.top = LEVELS
  BY <1>1, KnownOwn, Zenon DEF OwnInv, Allocating
<1>4. Owned(t) + 0 = Owned(t) + call[p].mem
  BY <1>3
<1> QED BY <1>1, <1>2, <1>3, <1>4, StepOf_ExecFails

LEMMA StepOf_ExecBad ==
  ASSUME MemInv, NEW p \in Slots, ExecBad(p)
  PROVE  MemStep
<1> DEFINE t == call[p].pagetable
<1>1. /\ state[p] = "RUNNING" /\ call[p].pc \in {"argv", "exec", "commit"} /\ ExecFails(p, t, 0)
      /\ call[p].pc = "exec" => t = NoTable
  BY Zenon DEF ExecBad, At
<1>2. t \in Table /\ Owned(t) \in Nat
  BY KnownTypes, CallTypes, TableTypes, Zenon
<1>3. /\ call[p].mem = 0
      /\ t = NoTable \/ (t.user = PGROUNDUP(call[p].sz) /\ t.top = LEVELS)
  BY <1>1, KnownOwn, Zenon DEF OwnInv, Allocating
<1>4. Owned(t) + 0 = Owned(t) + call[p].mem
  BY <1>3
<1> QED BY <1>1, <1>2, <1>3, <1>4, StepOf_ExecFails

(* uvmalloc() of exec() has returned.                                      *)
LEMMA StepOf_ExecFilled ==
  ASSUME MemInv, NEW p \in Slots, ExecFilled(p)
  PROVE  MemStep
<1> DEFINE t == call[p].pagetable
           new == call[p].newsz
           at == IF call[p].pc = "segment" THEN "load" ELSE "commit"
           c == [call[p] EXCEPT !.sz = new, !.pc = at]
<1>1. /\ state[p] = "RUNNING" /\ call[p].pc \in {"segment", "stack"} /\ call[p].mem # 1
      /\ ~(t.user * PGSIZE < new)
  BY Zenon DEF ExecFilled, At, WantsPage, Building
<1>2. free \in Nat /\ call[p] \in CallType
  BY KnownTypes, Zenon
<1>3. new \in Nat /\ call[p].sz \in Nat /\ t \in Table /\ call[p].mem = 0
  BY <1>1, <1>2, CallTypes, Zenon
<1>4. t.user \in Nat /\ Owned(t) \in Nat
  BY <1>3, TableTypes, Zenon
<1>5. t.top = LEVELS /\ Between(t, call[p].sz, call[p]) /\ call[p].sz <= new
  BY <1>1, KnownOwn, Zenon DEF OwnInv
<1>6. t.user = PGROUNDUP(new)
  BY <1>1, <1>3, <1>4, <1>5, FillBound DEF Between
<1>7. CASE new = 0
  <2>1. ExecFails(p, t, 0)
    BY <1>7, Zenon DEF ExecFilled
  <2>2. call[p].sz = new
    BY <1>3, <1>5, <1>7
  <2>3. Owned(t) + 0 = Owned(t) + call[p].mem
    BY <1>3, Zenon
  <2>4. call[p].pc # "grow" /\ t.user = PGROUNDUP(call[p].sz)
    BY <1>1, <1>6, <2>2
  <2> QED BY <1>1, <1>3, <1>5, <2>1, <2>3, <2>4, StepOf_ExecFails
<1>8. CASE new # 0
  <2>4. /\ call' = [call EXCEPT ![p] = c] /\ UNCHANGED <<free, state, trapframe, pagetable, sz, panicked>>
    BY <1>8, <1>2, Zenon DEF ExecFilled
  <2>b. at \in {"load", "commit"} /\ at \in CallPCs
    BY DEF CallPCs
  <2> HIDE DEF at
  <2>5. /\ c \in CallType /\ c.pc = at /\ c.pagetable = t /\ c.sz = new
        /\ c.argv = call[p].argv /\ c.mem = call[p].mem
    BY <1>2, <1>3, <2>b, Zenon DEF CallType
  <2> HIDE DEF c
  <2>7. free + Hand(c) = free + Hand(call[p])
    BY <2>5, Zenon DEF Hand
  <2>8. OwnInv("RUNNING", trapframe[p], pagetable[p], sz[p], c)
    BY <1>1, <1>3, <1>5, <1>6, <2>5, <2>b, KnownOwn, Zenon DEF OwnInv, Allocating
  <2>9. c.pc \notin {"fork", "copy"}
    BY <2>5, <2>b
  <2> QED BY <1>1, <1>2, <2>4, <2>5, <2>7, <2>8, <2>9, CallStep, Zenon
<1> QED BY <1>7, <1>8, Zenon

(* The equation of OwnChange, from its parts.                              *)
LEMMA OwnSum ==
  ASSUME MemInv, NEW p \in Slots, NEW tf \in Nat, NEW t \in Table, NEW c \in CallType, NEW x \in Nat,
         x + (tf + Owned(t) + Hand(c))
            = free + (trapframe[p] + Owned(pagetable[p]) + Hand(call[p]))
  PROVE  x + Sum(tf, t, c) = free + Sum(trapframe[p], pagetable[p], call[p])
<1>1. Sum(tf, t, c) = tf + Owned(t) + Hand(c)
  BY SumIs, Zenon
<1>2. trapframe[p] \in Nat /\ pagetable[p] \in Table /\ call[p] \in CallType
  BY KnownTypes, Zenon
<1>3. Sum(trapframe[p], pagetable[p], call[p]) = trapframe[p] + Owned(pagetable[p]) + Hand(call[p])
  BY <1>2, SumIs, Zenon
<1> QED BY <1>1, <1>3, Zenon

LEMMA StepOf_ExecCommits ==
  ASSUME MemInv, NEW p \in Slots, ExecCommits(p)
  PROVE  MemStep
<1> DEFINE t == call[p].pagetable
           x == free + (Owned(pagetable[p]) + call[p].argv)
<1>1. /\ state[p] = "RUNNING" /\ call[p].pc = "commit"
      /\ proc_freepagetable(pagetable[p], sz[p], call[p].argv)
  BY DEF ExecCommits, At
<1>2. /\ free \in Nat /\ call[p] \in CallType /\ pagetable[p] \in Table /\ trapframe[p] \in Nat
      /\ panicked = FALSE
  BY KnownTypes, Zenon
<1>3. t \in Table /\ call[p].sz \in Nat /\ call[p].argv \in Nat
  BY <1>2, CallTypes, Zenon
<1>4. /\ pagetable[p].user = PGROUNDUP(sz[p]) /\ pagetable[p].top = LEVELS
      /\ t.user = PGROUNDUP(call[p].sz) /\ t.top = LEVELS /\ call[p].mem = 0
  BY <1>1, KnownOwn, Zenon DEF OwnInv, Allocating
<1>5. free' = x /\ panicked' = panicked
  BY <1>1, <1>4, Freed, Zenon
<1>6. /\ pagetable' = [pagetable EXCEPT ![p] = t] /\ sz' = [sz EXCEPT ![p] = call[p].sz]
      /\ call' = [call EXCEPT ![p] = Idle] /\ UNCHANGED <<state, trapframe>>
  BY Zenon DEF ExecCommits
<1>7. Owned(t) \in Nat /\ Owned(pagetable[p]) \in Nat
  BY <1>2, <1>3, TableTypes, Zenon
<1>8. x \in Nat
  BY <1>2, <1>3, <1>7
<1>9. x + (trapframe[p] + Owned(t) + Hand(Idle))
            = free + (trapframe[p] + Owned(pagetable[p]) + Hand(call[p]))
  BY <1>2, <1>3, <1>4, <1>7, HandIdle DEF Hand
<1> HIDE DEF x, t
<1>10. OwnInv("RUNNING", trapframe[p], t, call[p].sz, Idle)
  BY <1>4, IdleOwn, Zenon
<1>11. Idle \in CallType /\ Idle.pc \notin {"fork", "copy"} /\ "RUNNING" \in States /\ state[p] # "USED"
  BY <1>1, IdleIs, Zenon DEF States
<1>12. x + Sum(trapframe[p], t, Idle) = free + Sum(trapframe[p], pagetable[p], call[p])
  BY <1>2, <1>3, <1>8, <1>9, <1>11, OwnSum
<1>13. state' = [state EXCEPT ![p] = "RUNNING"] /\ trapframe' = [trapframe EXCEPT ![p] = trapframe[p]]
  BY <1>1, <1>6, KnownKept, Zenon
<1>14. OwnChange(p, "RUNNING", trapframe[p], t, call[p].sz, Idle, x)
  BY <1>2, <1>3, <1>5, <1>6, <1>8, <1>10, <1>11, <1>12, <1>13, Zenon DEF OwnChange
<1> QED BY <1>11, <1>14, OwnStep, Zenon

(* exit() keeps the memory for wait() to free.                             *)
LEMMA StepOf_exit ==
  ASSUME MemInv, NEW p \in Slots, exit(p)
  PROVE  MemStep
<1>1. /\ state[p] = "RUNNING" /\ call[p].pc = "user" /\ state' = [state EXCEPT ![p] = "ZOMBIE"]
      /\ UNCHANGED <<free, trapframe, pagetable, sz, call, panicked>>
  BY DEF exit, At
<1>2. /\ free \in Nat /\ call[p] \in CallType /\ pagetable[p] \in Table /\ trapframe[p] \in Nat
      /\ panicked = FALSE /\ sz[p] \in Nat
  BY KnownTypes, Zenon
<1>3. pagetable[p].user = PGROUNDUP(sz[p]) /\ pagetable[p].top = LEVELS /\ call[p] = Idle
  BY <1>1, KnownOwn, Zenon DEF OwnInv
<1>4. OwnInv("ZOMBIE", trapframe[p], pagetable[p], sz[p], call[p])
  BY <1>3, IdleOwn, Zenon
<1>5. call[p].pc \notin {"fork", "copy"} /\ "ZOMBIE" \in States /\ state[p] # "USED"
  BY <1>1 DEF States
<1>6. /\ trapframe' = [trapframe EXCEPT ![p] = trapframe[p]] /\ sz' = [sz EXCEPT ![p] = sz[p]]
      /\ pagetable' = [pagetable EXCEPT ![p] = pagetable[p]] /\ call' = [call EXCEPT ![p] = call[p]]
  BY <1>1, KnownKept, Zenon
<1>7. OwnChange(p, "ZOMBIE", trapframe[p], pagetable[p], sz[p], call[p], free)
  BY <1>1, <1>2, <1>4, <1>5, <1>6, Zenon DEF OwnChange
<1> QED BY <1>5, <1>7, OwnStep, Zenon

(* freeproc() empties a slot.                                              *)
LEMMA EmptySlot == OwnInv("UNUSED", 0, NoTable, 0, Idle)
  BY IdleIs, Zenon DEF OwnInv

(* wait() frees a zombie.                                                  *)
LEMMA StepOf_wait ==
  ASSUME MemInv, NEW p \in Slots, NEW q \in Slots, wait(p, q)
  PROVE  MemStep
<1> DEFINE x == free + (Owned(pagetable[q]) + (trapframe[q] + 0))
<1>1. /\ state[q] = "ZOMBIE" /\ proc_freepagetable(pagetable[q], sz[q], trapframe[q] + 0)
      /\ trapframe' = [trapframe EXCEPT ![q] = 0] /\ pagetable' = [pagetable EXCEPT ![q] = NoTable]
      /\ sz' = [sz EXCEPT ![q] = 0] /\ state' = [state EXCEPT ![q] = "UNUSED"] /\ call' = call
  BY DEF wait, freeproc
<1>2. /\ free \in Nat /\ call[q] \in CallType /\ pagetable[q] \in Table /\ trapframe[q] \in Nat
      /\ panicked = FALSE
  BY KnownTypes, Zenon
<1>3. pagetable[q].user = PGROUNDUP(sz[q]) /\ pagetable[q].top = LEVELS /\ call[q] = Idle
  BY <1>1, KnownOwn, Zenon DEF OwnInv
<1>4. free' = x /\ panicked' = panicked
  BY <1>1, <1>3, Freed, Zenon
<1>5. Owned(pagetable[q]) \in Nat
  BY <1>2, TableTypes, Zenon
<1>6. x \in Nat /\ x + (0 + 0 + 0) = free + (trapframe[q] + Owned(pagetable[q]) + 0)
  BY <1>2, <1>5
<1> HIDE DEF x
<1>7. /\ Idle \in CallType /\ Idle.pc \notin {"fork", "copy"} /\ "UNUSED" \in States
      /\ NoTable \in Table /\ Owned(NoTable) = 0 /\ 0 \in Nat
  BY IdleIs DEF States
<1>8. x + (0 + Owned(NoTable) + Hand(Idle))
            = free + (trapframe[q] + Owned(pagetable[q]) + Hand(call[q]))
  BY <1>3, <1>6, <1>7, HandIdle, Zenon
<1>9. x + Sum(0, NoTable, Idle) = free + Sum(trapframe[q], pagetable[q], call[q])
  BY <1>6, <1>7, <1>8, OwnSum, Zenon
<1>10. call' = [call EXCEPT ![q] = Idle]
  BY <1>1, <1>3, KnownKept, Zenon
<1>11. OwnChange(q, "UNUSED", 0, NoTable, 0, Idle, x)
  BY <1>1, <1>2, <1>4, <1>6, <1>7, <1>9, <1>10, EmptySlot, Zenon DEF OwnChange
<1>12. state[q] # "USED"
  BY <1>1
<1> QED BY <1>11, <1>12, OwnStep, Zenon

(* The equation of PairChange, from its parts.                             *)
LEMMA PairSum ==
  ASSUME MemInv, NEW p \in Slots, NEW q \in Slots,
         NEW tf \in Nat, NEW t \in Table, NEW c \in CallType, NEW x \in Nat,
         x + (Hand(c) + tf + Owned(t))
            = free + (Hand(call[p]) + trapframe[q] + Owned(pagetable[q]))
  PROVE  x + Sum(trapframe[p], pagetable[p], c) + Sum(tf, t, Idle)
            = free + Sum(trapframe[p], pagetable[p], call[p])
                     + Sum(trapframe[q], pagetable[q], Idle)
<1>1. /\ free \in Nat /\ trapframe[p] \in Nat /\ pagetable[p] \in Table /\ call[p] \in CallType
      /\ trapframe[q] \in Nat /\ pagetable[q] \in Table /\ Idle \in CallType
  BY KnownTypes, IdleIs, Zenon
<1>2. PICK y \in Nat, f \in Nat, g \in Nat : y = free /\ f = trapframe[p] /\ g = trapframe[q]
  BY <1>1
<1>3. PICK a \in Nat : a = Owned(pagetable[p])
  BY <1>1, SumIs, Zenon
<1>4. PICK b \in Nat : b = Owned(pagetable[q])
  BY <1>1, SumIs, Zenon
<1>5. PICK d \in Nat : d = Owned(t)
  BY <1>1, SumIs, Zenon
<1>6. PICK h \in Nat : h = Hand(call[p])
  BY <1>1, SumIs, Zenon
<1>7. PICK k \in Nat : k = Hand(c)
  BY <1>1, SumIs, Zenon
<1>8. x + (k + tf + d) = y + (h + g + b)
  BY <1>2, <1>4, <1>5, <1>6, <1>7, Zenon
<1>9. x + (f + a + k) + (tf + d + 0) = y + (f + a + h) + (g + b + 0)
  BY <1>8
<1>10. Sum(trapframe[p], pagetable[p], c) = f + a + k
  BY <1>1, <1>2, <1>3, <1>7, SumIs, Zenon
<1>11. Sum(trapframe[p], pagetable[p], call[p]) = f + a + h
  BY <1>1, <1>2, <1>3, <1>6, SumIs, Zenon
<1>12. Sum(tf, t, Idle) = tf + d + 0
  BY <1>1, <1>5, SumIs, HandIdle, Zenon
<1>13. Sum(trapframe[q], pagetable[q], Idle) = g + b + 0
  BY <1>1, <1>2, <1>4, SumIs, HandIdle, Zenon
<1> QED BY <1>2, <1>9, <1>10, <1>11, <1>12, <1>13, Zenon

LEMMA EmptyChild == ASSUME NEW tf, NEW t PROVE OwnInv("USED", tf, t, 0, Idle)
  BY IdleIs DEF OwnInv

(* fork() has its child.                                                   *)
LEMMA KnownChild ==
  ASSUME MemInv, NEW p \in Slots, call[p].pc \in {"fork", "copy"}
  PROVE  /\ call[p].np \in Slots /\ state[call[p].np] = "USED" /\ sz[call[p].np] = 0
         /\ ChildInv(call[p], state[call[p].np], pagetable[call[p].np], sz[p])
         /\ state[p] = "RUNNING" /\ pagetable[p].top = LEVELS /\ pagetable[p].user = PGROUNDUP(sz[p])
         /\ call[p].pagetable = NoTable /\ call[p].argv = 0
<1> DEFINE q == call[p].np
<1>1. /\ q \in Slots /\ ChildInv(call[p], state[q], pagetable[q], sz[p])
  BY Zenon DEF MemInv, ForkInv
<1>2. state[q] = "USED"
  BY <1>1, Zenon DEF ChildInv
<1>3. sz[q] = 0
  BY <1>1, <1>2, KnownOwn, Zenon DEF OwnInv
<1>4. /\ state[p] = "RUNNING" /\ call[p].pagetable = NoTable /\ call[p].argv = 0
  BY KnownOwn, IdleIs, Zenon DEF OwnInv
<1>5. pagetable[p].top = LEVELS /\ pagetable[p].user = PGROUNDUP(sz[p])
  BY <1>4, KnownOwn, Zenon DEF OwnInv
<1> QED BY <1>1, <1>2, <1>3, <1>4, <1>5, Zenon

LEMMA StepOf_fork ==
  ASSUME MemInv, NEW p \in Slots, fork(p)
  PROVE  MemStep
<1>1. PICK q \in Slots : /\ state[q] = "UNUSED" /\ kalloc
                           /\ state' = [state EXCEPT ![q] = "USED"]
                           /\ trapframe' = [trapframe EXCEPT ![q] = 1]
                           /\ call' = [call EXCEPT ![p].pc = "fork", ![p].np = q]
  BY Zenon DEF fork
<1> DEFINE c == [call[p] EXCEPT !.pc = "fork", !.np = q]
           x == free - 1
<1>2. /\ state[p] = "RUNNING" /\ call[p].pc = "user" /\ free > 0 /\ free' = x
      /\ UNCHANGED <<pagetable, sz, panicked>>
  BY <1>1 DEF fork, At, kalloc
<1>3. /\ free \in Nat /\ call[p] \in CallType /\ panicked = FALSE
      /\ pagetable[q] \in Table /\ sz[q] \in Nat
  BY KnownTypes, Zenon
<1>4. trapframe[q] = 0 /\ pagetable[q] = NoTable /\ sz[q] = 0
  BY <1>1, KnownOwn, Zenon DEF OwnInv
<1>5. call[p] = Idle /\ pagetable[p].top = LEVELS /\ pagetable[p].user = PGROUNDUP(sz[p])
  BY <1>2, KnownOwn DEF OwnInv
<1>6. call' = [call EXCEPT ![p] = c]
  BY <1>1, <1>3, Zenon
<1>a. q \in Nat
  BY DEF Slots
<1>7. /\ c \in CallType /\ c.pc = "fork" /\ c.np = q /\ c.pagetable = call[p].pagetable
      /\ c.argv = call[p].argv /\ c.mem = call[p].mem
  BY <1>3, <1>a, Zenon DEF CallType, CallPCs
<1> HIDE DEF c
<1>8. c.pagetable = NoTable /\ c.argv = 0 /\ c.mem = 0 /\ Hand(c) = 0 /\ Hand(call[p]) = 0
  BY <1>5, <1>7, IdleIs, HandIdle, Zenon DEF Hand
<1>9. OwnInv("RUNNING", trapframe[p], pagetable[p], sz[p], c)
  BY <1>5, <1>7, <1>8, Zenon DEF OwnInv, Allocating
<1>10. OwnInv("USED", 1, NoTable, 0, Idle)
  BY EmptyChild, Zenon
<1>11. ChildInv(c, "USED", NoTable, sz[p])
  BY <1>7, IdleIs, Zenon DEF ChildInv
<1>12. x \in Nat /\ x + (0 + 1 + 0) = free + (0 + 0 + 0)
  BY <1>2, <1>3
<1>13. "USED" \in States /\ 1 \in Nat /\ 0 \in Nat /\ NoTable \in Table /\ Owned(NoTable) = 0
  BY IdleIs DEF States
<1> HIDE DEF x
<1>14. x + (Hand(c) + 1 + Owned(NoTable))
            = free + (Hand(call[p]) + trapframe[q] + Owned(pagetable[q]))
  BY <1>4, <1>8, <1>12, <1>13, Zenon
<1>15. x + Sum(trapframe[p], pagetable[p], c) + Sum(1, NoTable, Idle)
            = free + Sum(trapframe[p], pagetable[p], call[p])
                     + Sum(trapframe[q], pagetable[q], Idle)
  BY <1>7, <1>12, <1>13, <1>14, PairSum
<1>16. pagetable' = [pagetable EXCEPT ![q] = NoTable] /\ sz' = [sz EXCEPT ![q] = 0]
  BY <1>2, <1>4, KnownKept, Zenon
<1>17. PairChange(p, q, "USED", 1, NoTable, 0, c, x)
  BY <1>1, <1>2, <1>3, <1>6, <1>7, <1>9, <1>10, <1>11, <1>12, <1>13, <1>15, <1>16, Zenon DEF PairChange
<1> QED BY <1>2, <1>17, PairStep, Zenon

(* The child of fork() starts.                                             *)
LEMMA StepOf_ForkReturns ==
  ASSUME MemInv, NEW p \in Slots, ForkReturns(p)
  PROVE  MemStep
<1> DEFINE q == call[p].np
           t == pagetable[q]
<1>1. call[p].pc = "copy" /\ call[p].mem # 1 /\ ~(t.user * PGSIZE < call[p].newsz)
  BY Zenon DEF ForkReturns, At, WantsPage, Building
<1>2. /\ q \in Slots /\ ChildInv(call[p], state[q], t, sz[p]) /\ state[p] = "RUNNING"
      /\ pagetable[p].top = LEVELS /\ pagetable[p].user = PGROUNDUP(sz[p])
      /\ call[p].pagetable = NoTable /\ call[p].argv = 0
  BY <1>1, KnownChild, Zenon
<1>3. /\ sz' = [sz EXCEPT ![q] = sz[p]] /\ state' = [state EXCEPT ![q] = "RUNNING"]
      /\ call' = [call EXCEPT ![p] = Idle] /\ UNCHANGED <<free, trapframe, pagetable, panicked>>
  BY DEF ForkReturns
<1> HIDE DEF q
<1>4. /\ free \in Nat /\ call[p] \in CallType /\ panicked = FALSE /\ sz[p] \in Nat
      /\ t \in Table /\ trapframe[q] \in Nat
  BY <1>2, KnownTypes, Zenon
<1>5. t.user \in Nat /\ call[p].newsz \in Nat /\ call[p].mem = 0
  BY <1>1, <1>4, TableTypes, CallTypes, Zenon
<1>6. t.top = LEVELS /\ call[p].newsz = sz[p] /\ Between(t, 0, call[p])
  BY <1>1, <1>2, Zenon DEF ChildInv
<1>7. t.user = PGROUNDUP(sz[p])
  BY <1>1, <1>4, <1>5, <1>6, FillBound DEF Between
<1>8. OwnInv("RUNNING", trapframe[q], t, sz[p], Idle) /\ OwnInv("RUNNING", trapframe[p], pagetable[p], sz[p], Idle)
  BY <1>2, <1>6, <1>7, IdleOwn, Zenon
<1>9. Hand(call[p]) = 0
  BY <1>2, <1>5, IdleIs DEF Hand
<1>10. /\ Idle \in CallType /\ Idle.pc \notin {"fork", "copy"} /\ "RUNNING" \in States
       /\ ChildInv(Idle, "RUNNING", t, sz[p])
  BY IdleIs DEF States, ChildInv
<1>11. free + (Hand(Idle) + trapframe[q] + Owned(t))
            = free + (Hand(call[p]) + trapframe[q] + Owned(pagetable[q]))
  BY <1>9, HandIdle, Zenon
<1>12. free + Sum(trapframe[p], pagetable[p], Idle) + Sum(trapframe[q], t, Idle)
            = free + Sum(trapframe[p], pagetable[p], call[p])
                     + Sum(trapframe[q], pagetable[q], Idle)
  BY <1>2, <1>4, <1>10, <1>11, PairSum
<1>13. trapframe' = [trapframe EXCEPT ![q] = trapframe[q]] /\ pagetable' = [pagetable EXCEPT ![q] = t]
  BY <1>2, <1>3, KnownKept, Zenon
<1>14. call[p].pc \in {"fork", "copy"} /\ call[p].np = q
  BY <1>1 DEF q
<1>15. PairChange(p, q, "RUNNING", trapframe[q], t, sz[p], Idle, free)
  BY <1>3, <1>4, <1>8, <1>10, <1>12, <1>13, <1>14, Zenon DEF PairChange
<1> QED BY <1>2, <1>15, PairStep, Zenon

(* freeproc() of the child when fork() fails.                              *)
LEMMA StepOf_ForkFails ==
  ASSUME MemInv, NEW p \in Slots, call[p].pc \in {"fork", "copy"},
         NEW t \in Table, NEW k \in Nat, freeproc(call[p].np, t, k),
         call' = [call EXCEPT ![p] = Idle],
         t = NoTable \/ (t.user = PGROUNDUP(0) /\ t.top = LEVELS),
         Owned(t) + k = Owned(pagetable[call[p].np]) + call[p].mem
  PROVE  MemStep
<1> DEFINE q == call[p].np
           x == free + (Owned(t) + (trapframe[q] + k))
<1>1. /\ q \in Slots /\ sz[q] = 0 /\ state[p] = "RUNNING"
      /\ pagetable[p].top = LEVELS /\ pagetable[p].user = PGROUNDUP(sz[p])
      /\ call[p].pagetable = NoTable /\ call[p].argv = 0
  BY KnownChild, Zenon
<1>2. free' = x /\ panicked' = panicked
  BY <1>1, Freed, Zenon DEF freeproc
<1>3. /\ trapframe' = [trapframe EXCEPT ![q] = 0] /\ pagetable' = [pagetable EXCEPT ![q] = NoTable]
      /\ sz' = [sz EXCEPT ![q] = 0] /\ state' = [state EXCEPT ![q] = "UNUSED"]
  BY Zenon DEF freeproc
<1>4. Owned(t) + k = Owned(pagetable[q]) + call[p].mem
  OBVIOUS
<1>a. call[p].np = q
  OBVIOUS
<1> HIDE DEF q
<1>5. /\ free \in Nat /\ call[p] \in CallType /\ panicked = FALSE
      /\ pagetable[q] \in Table /\ trapframe[q] \in Nat
  BY <1>1, KnownTypes, Zenon
<1>6. Owned(t) \in Nat /\ Owned(pagetable[q]) \in Nat /\ call[p].mem \in Nat
  BY <1>5, TableTypes, CallTypes
<1>7. x \in Nat /\ x + (0 + 0 + 0) = free + (call[p].mem + trapframe[q] + Owned(pagetable[q]))
  BY <1>4, <1>5, <1>6
<1> HIDE DEF x
<1>8. Hand(call[p]) = call[p].mem
  BY <1>1, <1>6, IdleIs DEF Hand
<1>9. /\ Idle \in CallType /\ Idle.pc \notin {"fork", "copy"} /\ "UNUSED" \in States
      /\ NoTable \in Table /\ Owned(NoTable) = 0 /\ 0 \in Nat
      /\ ChildInv(Idle, "UNUSED", NoTable, sz[p])
  BY IdleIs DEF States, ChildInv
<1>10. x + (Hand(Idle) + 0 + Owned(NoTable))
            = free + (Hand(call[p]) + trapframe[q] + Owned(pagetable[q]))
  BY <1>7, <1>8, <1>9, HandIdle, Zenon
<1>11. x + Sum(trapframe[p], pagetable[p], Idle) + Sum(0, NoTable, Idle)
            = free + Sum(trapframe[p], pagetable[p], call[p])
                     + Sum(trapframe[q], pagetable[q], Idle)
  BY <1>1, <1>7, <1>9, <1>10, PairSum
<1>12. OwnInv("RUNNING", trapframe[p], pagetable[p], sz[p], Idle)
  BY <1>1, IdleOwn
<1>13. PairChange(p, q, "UNUSED", 0, NoTable, 0, Idle, x)
  BY <1>2, <1>3, <1>5, <1>7, <1>9, <1>11, <1>12, <1>a, EmptySlot, Zenon DEF PairChange
<1> QED BY <1>1, <1>13, PairStep, Zenon

(* A page for the root of a table or for the walk to the trampoline.       *)
Rooted(t) == IF t.root = 0 THEN uvmcreate(t) ELSE [t EXCEPT !.top = @ + 1]

LEMMA RootedIs ==
  ASSUME NEW t \in Table
  PROVE  /\ Rooted(t) \in Table /\ Rooted(t).user = t.user
         /\ Owned(Rooted(t)) = Owned(t) + 1
<1>1. CASE t.root = 0
  BY <1>1 DEF Rooted, Table, uvmcreate, Owned
<1>2. CASE t.root # 0
  BY <1>2 DEF Rooted, Table, Owned
<1> QED BY <1>1, <1>2

LEMMA StepOf_TableFails ==
  ASSUME MemInv, NEW p \in Slots, TableFails(p)
  PROVE  MemStep
<1>0. state[p] = "RUNNING" /\ call[p].pc \in {"fork", "exec"} /\ call[p] \in CallType
  BY KnownTypes, Zenon DEF TableFails, At
<1>1. call[p].mem = 0 /\ NoTable \in Table /\ Owned(NoTable) = 0
  BY <1>0, KnownOwn, IdleIs DEF OwnInv, Allocating
<1>2. CASE call[p].pc = "fork"
  <2> DEFINE k == Owned(pagetable[call[p].np])
  <2>1. /\ freeproc(call[p].np, NoTable, k) /\ call' = [call EXCEPT ![p] = Idle]
    BY <1>2 DEF TableFails, Building
  <2>2. k \in Nat
    BY <1>2, KnownChild, KnownTypes, TableTypes, Zenon
  <2>3. Owned(NoTable) + k = k + call[p].mem
    BY <1>1, <2>2
  <2> QED BY <1>1, <1>2, <2>1, <2>2, <2>3, StepOf_ForkFails, Zenon
<1>3. CASE call[p].pc = "exec"
  <2> DEFINE k == Owned(call[p].pagetable)
  <2>1. ExecFails(p, NoTable, k)
    BY <1>3, Zenon DEF TableFails, Building
  <2>2. k \in Nat
    BY <1>0, CallTypes, TableTypes, Zenon
  <2>3. Owned(NoTable) + k = k + call[p].mem
    BY <1>1, <2>2
  <2> QED BY <1>0, <1>1, <1>3, <2>1, <2>2, <2>3, StepOf_ExecFails, Zenon
<1> QED BY <1>0, <1>2, <1>3

(* fork() takes a page for the table of its child.                         *)
LEMMA ChildTable ==
  ASSUME MemInv, NEW p \in Slots, call[p].pc \in {"fork", "copy"}, kalloc,
         NEW t \in Table, NEW c \in CallType, c.np = call[p].np, c.pc \in {"fork", "copy"},
         c.pagetable = NoTable, c.argv = 0, c.pc = "fork" => c.mem = 0,
         UNCHANGED <<state, trapframe, sz, panicked>>,
         call' = [call EXCEPT ![p] = c], pagetable' = [pagetable EXCEPT ![call[p].np] = t],
         ChildInv(c, "USED", t, sz[p]),
         Owned(t) + c.mem = Owned(pagetable[call[p].np]) + call[p].mem + 1
  PROVE  MemStep
<1> DEFINE q == call[p].np
           x == free - 1
<1>1. /\ q \in Slots /\ state[q] = "USED" /\ sz[q] = 0 /\ state[p] = "RUNNING"
      /\ pagetable[p].top = LEVELS /\ pagetable[p].user = PGROUNDUP(sz[p])
      /\ call[p].pagetable = NoTable /\ call[p].argv = 0
  BY KnownChild, Zenon
<1>2. free > 0 /\ free' = x
  BY Zenon DEF kalloc
<1>3. /\ Owned(t) + c.mem = Owned(pagetable[q]) + call[p].mem + 1
      /\ pagetable' = [pagetable EXCEPT ![q] = t] /\ c.np = q /\ call[p].np = q
  OBVIOUS
<1> HIDE DEF q
<1>4. /\ free \in Nat /\ call[p] \in CallType /\ panicked = FALSE
      /\ pagetable[q] \in Table /\ trapframe[q] \in Nat
  BY <1>1, KnownTypes, Zenon
<1>5. /\ Owned(t) \in Nat /\ Owned(pagetable[q]) \in Nat /\ call[p].mem \in Nat /\ c.mem \in Nat
  BY <1>4, TableTypes, CallTypes
<1>6. x \in Nat /\ x + (c.mem + trapframe[q] + Owned(t))
            = free + (call[p].mem + trapframe[q] + Owned(pagetable[q]))
  BY <1>2, <1>3, <1>4, <1>5
<1> HIDE DEF x
<1>7. Hand(call[p]) = call[p].mem /\ Hand(c) = c.mem
  BY <1>1, <1>5, IdleIs DEF Hand
<1>8. x + (Hand(c) + trapframe[q] + Owned(t))
            = free + (Hand(call[p]) + trapframe[q] + Owned(pagetable[q]))
  BY <1>6, <1>7, Zenon
<1>9. x + Sum(trapframe[p], pagetable[p], c) + Sum(trapframe[q], t, Idle)
            = free + Sum(trapframe[p], pagetable[p], call[p])
                     + Sum(trapframe[q], pagetable[q], Idle)
  BY <1>1, <1>4, <1>6, <1>8, PairSum
<1>10. OwnInv("RUNNING", trapframe[p], pagetable[p], sz[p], c)
  BY <1>1, Zenon DEF OwnInv, Allocating
<1>11. OwnInv("USED", trapframe[q], t, 0, Idle) /\ "USED" \in States /\ 0 \in Nat
  BY EmptyChild, Zenon DEF States
<1>12. /\ state' = [state EXCEPT ![q] = "USED"] /\ sz' = [sz EXCEPT ![q] = 0]
       /\ trapframe' = [trapframe EXCEPT ![q] = trapframe[q]]
  BY <1>1, KnownKept, Zenon
<1>13. PairChange(p, q, "USED", trapframe[q], t, 0, c, x)
  BY <1>2, <1>3, <1>4, <1>6, <1>9, <1>10, <1>11, <1>12, Zenon DEF PairChange
<1> QED BY <1>1, <1>13, PairStep, Zenon

LEMMA StepOf_TablePage ==
  ASSUME MemInv, NEW p \in Slots, TablePage(p)
  PROVE  MemStep
<1>0. /\ state[p] = "RUNNING" /\ call[p].pc \in {"fork", "exec"} /\ kalloc
      /\ UNCHANGED <<state, trapframe, sz, panicked>>
  BY DEF TablePage, At
<1>1. call[p] \in CallType /\ free \in Nat /\ sz[p] \in Nat
  BY KnownTypes, Zenon
<1>2. call[p].mem = 0
  BY <1>0, KnownOwn, Zenon DEF OwnInv, Allocating
<1>3. CASE call[p].pc = "fork"
  <2> DEFINE q == call[p].np
             t == Rooted(pagetable[q])
             c == IF t.top # LEVELS THEN call[p] ELSE [call[p] EXCEPT !.pc = "copy", !.newsz = sz[p]]
  <2>1. call' = [call EXCEPT ![p] = c] /\ pagetable' = [pagetable EXCEPT ![c.np] = t]
    BY <1>3 DEF TablePage, Building, Build, Rooted
  <2>2. /\ q \in Slots /\ ChildInv(call[p], state[q], pagetable[q], sz[p])
        /\ call[p].pagetable = NoTable /\ call[p].argv = 0
    BY <1>3, KnownChild, Zenon
  <2>3. pagetable[q] \in Table /\ Owned(pagetable[q]) \in Nat
    BY <2>2, KnownTypes, TableTypes, Zenon
  <2>4. t \in Table /\ t.user = 0 /\ Owned(t) = Owned(pagetable[q]) + 1
    BY <1>3, <2>2, <2>3, RootedIs, Zenon DEF ChildInv
  <2> HIDE DEF t
  <2>5. /\ c \in CallType /\ c.np = q /\ c.pagetable = call[p].pagetable /\ c.argv = call[p].argv
        /\ c.mem = 0 /\ c.pc \in {"fork", "copy"}
        /\ c.pc = "copy" => c.newsz = sz[p] /\ t.top = LEVELS
    <3>1. CASE t.top # LEVELS
      BY <1>1, <1>2, <1>3, <3>1, Zenon
    <3>2. CASE t.top = LEVELS
      <4>1. c = [call[p] EXCEPT !.pc = "copy", !.newsz = sz[p]]
        BY <3>2
      <4> HIDE DEF c
      <4>2. /\ c \in CallType /\ c.np = q /\ c.pagetable = call[p].pagetable /\ c.argv = call[p].argv
            /\ c.mem = call[p].mem /\ c.pc = "copy" /\ c.newsz = sz[p]
        BY <1>1, <4>1, Zenon DEF CallType, CallPCs, Allocating
      <4> QED BY <1>2, <3>2, <4>2
    <3> QED BY <3>1, <3>2
  <2> HIDE DEF c
  <2>6. c.pc = "copy" => Between(t, 0, c)
    BY <1>1, <2>4, <2>5, RoundUpFacts DEF Between
  <2>7. ChildInv(c, "USED", t, sz[p])
    BY <2>4, <2>5, <2>6, Zenon DEF ChildInv
  <2>8. Owned(t) + c.mem = Owned(pagetable[q]) + call[p].mem + 1
    BY <1>2, <2>3, <2>4, <2>5
  <2> QED BY <1>0, <1>3, <2>1, <2>2, <2>4, <2>5, <2>7, <2>8, ChildTable, Zenon
<1>4. CASE call[p].pc = "exec"
  <2> DEFINE t == Rooted(call[p].pagetable)
             at == IF t.top # LEVELS THEN "exec" ELSE "load"
             c == [call[p] EXCEPT !.pc = at, !.pagetable = t]
             x == free - 1
  <2>1. call' = [call EXCEPT ![p] = c] /\ UNCHANGED pagetable /\ free' = x /\ free > 0
    <3>1. LET d == IF t.top # LEVELS THEN call[p] ELSE [call[p] EXCEPT !.pc = "load"]
          IN  call' = [call EXCEPT ![p] = [d EXCEPT !.pagetable = t]] /\ UNCHANGED pagetable
      BY <1>4 DEF TablePage, Building, Build, Rooted
    <3> HIDE DEF t
    <3>2. t.top # LEVELS => c = [call[p] EXCEPT !.pagetable = t]
      BY <1>1, <1>4, Zenon DEF CallType
    <3>3. t.top = LEVELS => c = [[call[p] EXCEPT !.pc = "load"] EXCEPT !.pagetable = t]
      BY <1>1 DEF CallType
    <3>4. free' = x /\ free > 0
      BY <1>0, Zenon DEF kalloc
    <3> HIDE DEF c
    <3> QED BY <3>1, <3>2, <3>3, <3>4, Zenon
  <2>2. call[p].pagetable \in Table /\ call[p].argv \in Nat
    BY <1>1, CallTypes, Zenon
  <2>3. call[p].sz = 0 /\ call[p].pagetable.user = 0
    BY <1>4, KnownOwn, Zenon DEF OwnInv
  <2>4. /\ t \in Table /\ t.user = 0 /\ Owned(t) = Owned(call[p].pagetable) + 1
        /\ Owned(call[p].pagetable) \in Nat
    BY <2>2, <2>3, RootedIs, TableTypes, Zenon
  <2> HIDE DEF t
  <2>5. at \in CallPCs /\ at \in {"exec", "load"} /\ (at = "load" => t.top = LEVELS)
    BY DEF CallPCs
  <2> HIDE DEF at
  <2>6. /\ c \in CallType /\ c.pagetable = t /\ c.argv = call[p].argv /\ c.sz = call[p].sz
        /\ c.mem = call[p].mem /\ c.pc = at
    BY <1>1, <2>4, <2>5, Zenon DEF CallType
  <2> HIDE DEF c
  <2>7. OwnInv("RUNNING", trapframe[p], pagetable[p], sz[p], c)
    BY <1>0, <1>2, <1>4, <2>3, <2>4, <2>5, <2>6, KnownOwn, RoundUpFacts, Zenon DEF OwnInv, Allocating
  <2>8. x \in Nat /\ x + Hand(c) = free + Hand(call[p])
    BY <1>1, <1>2, <2>1, <2>2, <2>4, <2>6 DEF Hand
  <2>9. c.pc \notin {"fork", "copy"}
    BY <2>5, <2>6, Zenon
  <2> HIDE DEF x
  <2> QED BY <1>0, <2>1, <2>6, <2>7, <2>8, <2>9, CallStep, Zenon
<1> QED BY <1>0, <1>3, <1>4

(* A page of the loop of uvmalloc() or uvmcopy(): it is held until the     *)
(* pages of the table for it are there.                                    *)
Walked(t, m) == IF m = 0 THEN t ELSE walk(t)
FilledTable(t, m) == IF Walked(t, m).low = LEVELS THEN mappages(Walked(t, m)) ELSE Walked(t, m)
FilledMem(t, m) == IF Walked(t, m).low = LEVELS THEN 0 ELSE 1

LEMMA FilledIs ==
  ASSUME NEW t \in Table, NEW m \in {0, 1}
  PROVE  /\ FilledTable(t, m) \in Table /\ FilledMem(t, m) \in {0, 1}
         /\ FilledTable(t, m).top = t.top
         /\ FilledTable(t, m).user \in t.user..(t.user + 1)
         /\ FilledMem(t, m) = 1 => FilledTable(t, m).user = t.user
         /\ Owned(FilledTable(t, m)) + FilledMem(t, m) = Owned(t) + m + 1
<1> DEFINE w == Walked(t, m)
<1>0. t.user \in Nat /\ Owned(t) \in Nat
  BY TableTypes, Zenon
<1>1. w \in Table /\ w.top = t.top /\ w.user = t.user /\ Owned(w) = Owned(t) + m
  <2>1. CASE m = 0
    BY <1>0, <2>1 DEF Walked
  <2>2. CASE m = 1
    BY <2>2 DEF Walked, walk, Table, Owned
  <2> QED BY <2>1, <2>2
<1> HIDE DEF w
<1>2. /\ mappages(w) \in Table /\ mappages(w).top = w.top /\ mappages(w).user = w.user + 1
      /\ Owned(mappages(w)) = Owned(w) + 1
  BY <1>1 DEF mappages, Table, Owned
<1>3. CASE w.low = LEVELS
  <2>1. FilledTable(t, m) = mappages(w) /\ FilledMem(t, m) = 0
    BY <1>3 DEF FilledTable, FilledMem, w
  <2> QED BY <1>0, <1>1, <1>2, <2>1
<1>4. CASE w.low # LEVELS
  <2>1. FilledTable(t, m) = w /\ FilledMem(t, m) = 1
    BY <1>4 DEF FilledTable, FilledMem, w
  <2> QED BY <1>0, <1>1, <2>1
<1> QED BY <1>3, <1>4, Zenon

LEMMA FilledBetween ==
  ASSUME NEW t \in Table, NEW c \in CallType, NEW from \in Nat, Between(t, from, c),
         c.mem = 1 \/ t.user * PGSIZE < c.newsz,
         NEW d, d.newsz = c.newsz, d.mem = FilledMem(t, c.mem)
  PROVE  Between(FilledTable(t, c.mem), from, d)
<1> DEFINE f == FilledTable(t, c.mem)
           m == FilledMem(t, c.mem)
           up == PGROUNDUP(c.newsz)
           low == PGROUNDUP(from)
<1>1. c.mem \in {0, 1} /\ c.newsz \in Nat /\ t.user \in Nat
  BY CallTypes, TableTypes, Zenon
<1>2. up \in Nat /\ low \in Nat
  BY <1>1, RoundUpFacts
<1>3. f.user \in t.user..(t.user + 1) /\ (m = 1 => f.user = t.user)
  BY <1>1, FilledIs, Zenon
<1>4. low <= t.user /\ t.user < up
  BY <1>1, FillBound, Zenon DEF Between
<1> HIDE DEF f, m, up, low
<1>5. low <= f.user /\ f.user <= up /\ (m = 1 => f.user < up)
  BY <1>1, <1>2, <1>3, <1>4
<1> QED BY <1>5, Zenon DEF Between, f, m, up, low

(* What the two loops do to a call.                                        *)
LEMMA FilledCall ==
  ASSUME NEW c \in CallType, NEW m \in {0, 1}
  PROVE  LET d == [c EXCEPT !.mem = m]
         IN  /\ d \in CallType /\ d.mem = m /\ d.pc = c.pc /\ d.np = c.np /\ d.sz = c.sz
             /\ d.pagetable = c.pagetable /\ d.argv = c.argv /\ d.newsz = c.newsz
  BY DEF CallType

LEMMA FillBuilds ==
  ASSUME NEW p, FillPage(p)
  PROVE  /\ At(p, Allocating) /\ WantsPage(p) /\ kalloc
         /\ UNCHANGED <<state, trapframe, sz, panicked>>
         /\ Build(p, FilledTable(Building(p), call[p].mem),
                    [call[p] EXCEPT !.mem = FilledMem(Building(p), call[p].mem)])
<1> DEFINE t == Building(p)
           m == call[p].mem
<1>1. /\ At(p, Allocating) /\ WantsPage(p) /\ kalloc
      /\ UNCHANGED <<state, trapframe, sz, panicked>>
  BY DEF FillPage, Filling, Allocating
<1>2. IF Walked(t, m).low = LEVELS
      THEN Build(p, mappages(Walked(t, m)), [call[p] EXCEPT !.mem = 0])
      ELSE Build(p, Walked(t, m), [call[p] EXCEPT !.mem = 1])
  BY DEF FillPage, Walked
<1>3. CASE Walked(t, m).low = LEVELS
  BY <1>1, <1>2, <1>3 DEF FilledTable, FilledMem
<1>4. CASE Walked(t, m).low # LEVELS
  BY <1>1, <1>2, <1>4, Zenon DEF FilledTable, FilledMem
<1> QED BY <1>3, <1>4

LEMMA StepOf_FillGrow ==
  ASSUME MemInv, NEW p \in Slots, FillPage(p), call[p].pc = "grow"
  PROVE  MemStep
<1> DEFINE t == pagetable[p]
           m == FilledMem(t, call[p].mem)
           f == FilledTable(t, call[p].mem)
           c == [call[p] EXCEPT !.mem = m]
           x == free - 1
<1>1. /\ state[p] = "RUNNING" /\ (call[p].mem = 1 \/ t.user * PGSIZE < call[p].newsz)
      /\ free > 0 /\ free' = x /\ UNCHANGED <<state, trapframe, sz, panicked>>
      /\ pagetable' = [pagetable EXCEPT ![p] = f] /\ call' = [call EXCEPT ![p] = c]
  BY FillBuilds, Zenon DEF At, WantsPage, Building, Build, kalloc
<1>2. /\ free \in Nat /\ call[p] \in CallType /\ panicked = FALSE /\ sz[p] \in Nat
      /\ t \in Table /\ trapframe[p] \in Nat
  BY KnownTypes, Zenon
<1>3. call[p].mem \in {0, 1} /\ Owned(t) \in Nat
  BY <1>2, CallTypes, TableTypes, Zenon
<1>4. /\ t.top = LEVELS /\ Between(t, sz[p], call[p]) /\ sz[p] <= call[p].newsz
      /\ call[p].pagetable = NoTable /\ call[p].argv = 0
  BY <1>1, KnownOwn DEF OwnInv
<1>5. f \in Table /\ m \in {0, 1} /\ f.top = t.top /\ Owned(f) + m = Owned(t) + call[p].mem + 1
  BY <1>2, <1>3, FilledIs, Zenon
<1>a. Owned(f) \in Nat
  BY <1>5, TableTypes
<1>6. /\ c \in CallType /\ c.mem = m /\ c.pc = "grow" /\ c.pagetable = NoTable /\ c.argv = 0
      /\ c.newsz = call[p].newsz
  BY <1>2, <1>4, <1>5, FilledCall, Zenon
<1>7. Between(f, sz[p], c)
  BY <1>1, <1>2, <1>4, <1>6, FilledBetween, Zenon
<1> HIDE DEF c, m, f
<1>8. OwnInv("RUNNING", trapframe[p], f, sz[p], c)
  BY <1>4, <1>5, <1>6, <1>7, Zenon DEF OwnInv, Allocating
<1>9. Hand(c) = m /\ Hand(call[p]) = call[p].mem
  BY <1>3, <1>4, <1>5, <1>6, IdleIs DEF Hand
<1>10. x \in Nat /\ x + (trapframe[p] + Owned(f) + m) = free + (trapframe[p] + Owned(t) + call[p].mem)
  BY <1>1, <1>2, <1>3, <1>5, <1>a
<1> HIDE DEF x
<1>11. x + (trapframe[p] + Owned(f) + Hand(c))
            = free + (trapframe[p] + Owned(pagetable[p]) + Hand(call[p]))
  BY <1>9, <1>10, Zenon
<1>12. x + Sum(trapframe[p], f, c) = free + Sum(trapframe[p], pagetable[p], call[p])
  BY <1>2, <1>5, <1>6, <1>10, <1>11, OwnSum
<1>13. /\ state' = [state EXCEPT ![p] = "RUNNING"] /\ trapframe' = [trapframe EXCEPT ![p] = trapframe[p]]
       /\ sz' = [sz EXCEPT ![p] = sz[p]]
  BY <1>1, KnownKept, Zenon
<1>14. "RUNNING" \in States /\ c.pc \notin {"fork", "copy"} /\ state[p] # "USED"
  BY <1>1, <1>6 DEF States
<1>15. OwnChange(p, "RUNNING", trapframe[p], f, sz[p], c, x)
  BY <1>1, <1>2, <1>5, <1>6, <1>8, <1>10, <1>12, <1>13, <1>14, Zenon DEF OwnChange
<1> QED BY <1>14, <1>15, OwnStep

LEMMA StepOf_FillCopy ==
  ASSUME MemInv, NEW p \in Slots, FillPage(p), call[p].pc = "copy"
  PROVE  MemStep
<1> DEFINE q == call[p].np
           t == pagetable[q]
           m == FilledMem(t, call[p].mem)
           f == FilledTable(t, call[p].mem)
           c == [call[p] EXCEPT !.mem = m]
<1>1. /\ (call[p].mem = 1 \/ t.user * PGSIZE < call[p].newsz)
      /\ kalloc /\ UNCHANGED <<state, trapframe, sz, panicked>>
      /\ pagetable' = [pagetable EXCEPT ![c.np] = f] /\ call' = [call EXCEPT ![p] = c]
  BY FillBuilds, Zenon DEF At, WantsPage, Building, Build
<1>2. /\ q \in Slots /\ ChildInv(call[p], state[q], t, sz[p])
      /\ call[p].pagetable = NoTable /\ call[p].argv = 0
  BY KnownChild
<1>3. call[p] \in CallType /\ t \in Table /\ sz[p] \in Nat
  BY <1>2, KnownTypes, Zenon
<1>4. call[p].mem \in {0, 1}
  BY <1>3, CallTypes, Zenon
<1>5. t.top = LEVELS /\ call[p].newsz = sz[p] /\ Between(t, 0, call[p])
  BY <1>2 DEF ChildInv
<1>6. f \in Table /\ m \in {0, 1} /\ f.top = t.top /\ Owned(f) + m = Owned(t) + call[p].mem + 1
  BY <1>3, <1>4, FilledIs, Zenon
<1>7. /\ c \in CallType /\ c.mem = m /\ c.pc = "copy" /\ c.pagetable = NoTable /\ c.argv = 0
      /\ c.newsz = call[p].newsz /\ c.np = q
  BY <1>2, <1>3, <1>6, FilledCall, Zenon
<1>a. call[p].mem = 1 \/ t.user * PGSIZE < call[p].newsz
  BY <1>1
<1>8. Between(f, 0, c)
  <2>1. c.newsz = call[p].newsz /\ c.mem = FilledMem(t, call[p].mem) /\ 0 \in Nat
    BY <1>7, Zenon
  <2> HIDE DEF c, t
  <2> QED BY <1>a, <1>3, <1>5, <2>1, FilledBetween, Zenon
<1> HIDE DEF c, m, f
<1>9. ChildInv(c, "USED", f, sz[p])
  BY <1>5, <1>6, <1>7, <1>8, Zenon DEF ChildInv
<1>10. /\ Owned(f) + c.mem = Owned(pagetable[call[p].np]) + call[p].mem + 1
       /\ c.np = call[p].np /\ c.pc \in {"fork", "copy"} /\ c.pc # "fork"
       /\ pagetable' = [pagetable EXCEPT ![call[p].np] = f] /\ call[p].pc \in {"fork", "copy"}
  BY <1>1, <1>6, <1>7
<1> QED BY <1>1, <1>6, <1>7, <1>9, <1>10, ChildTable, Zenon

LEMMA StepOf_FillExec ==
  ASSUME MemInv, NEW p \in Slots, FillPage(p), call[p].pc \in {"segment", "stack"}
  PROVE  MemStep
<1> DEFINE t == call[p].pagetable
           m == FilledMem(t, call[p].mem)
           f == FilledTable(t, call[p].mem)
           d == [call[p] EXCEPT !.mem = m]
           c == [d EXCEPT !.pagetable = f]
           x == free - 1
<1>1. /\ state[p] = "RUNNING" /\ (call[p].mem = 1 \/ t.user * PGSIZE < call[p].newsz)
      /\ free > 0 /\ free' = x /\ UNCHANGED <<state, trapframe, pagetable, sz, panicked>>
      /\ call' = [call EXCEPT ![p] = c]
  BY FillBuilds, Zenon DEF At, WantsPage, Building, Build, kalloc
<1>2. free \in Nat /\ call[p] \in CallType
  BY KnownTypes, Zenon
<1>3. /\ call[p].mem \in {0, 1} /\ t \in Table /\ Owned(t) \in Nat /\ call[p].argv \in Nat
      /\ call[p].sz \in Nat
  BY <1>2, CallTypes, TableTypes, Zenon
<1>4. t.top = LEVELS /\ Between(t, call[p].sz, call[p]) /\ call[p].sz <= call[p].newsz
  BY <1>1, KnownOwn DEF OwnInv
<1>5. f \in Table /\ m \in {0, 1} /\ f.top = t.top /\ Owned(f) + m = Owned(t) + call[p].mem + 1
  BY <1>2, <1>3, FilledIs, Zenon
<1>6. Owned(f) \in Nat
  BY <1>5, TableTypes
<1>7. /\ d \in CallType /\ d.mem = m /\ d.pc = call[p].pc /\ d.sz = call[p].sz /\ d.argv = call[p].argv
      /\ d.newsz = call[p].newsz
  BY <1>2, <1>5, FilledCall, Zenon
<1>8. Between(f, call[p].sz, d)
  BY <1>1, <1>2, <1>3, <1>4, <1>7, FilledBetween, Zenon
<1> HIDE DEF d, m, f
<1>9. /\ c \in CallType /\ c.mem = m /\ c.pc = call[p].pc /\ c.sz = call[p].sz /\ c.argv = call[p].argv
      /\ c.newsz = call[p].newsz /\ c.pagetable = f
  BY <1>5, <1>7, Zenon DEF CallType
<1> HIDE DEF c
<1>10. Between(c.pagetable, c.sz, c)
  BY <1>7, <1>8, <1>9 DEF Between
<1>11. OwnInv("RUNNING", trapframe[p], pagetable[p], sz[p], c)
  BY <1>1, <1>4, <1>5, <1>9, <1>10, KnownOwn, Zenon DEF OwnInv, Allocating
<1>12. x \in Nat /\ x + Hand(c) = free + Hand(call[p])
  BY <1>1, <1>2, <1>3, <1>5, <1>6, <1>9 DEF Hand
<1>13. c.pc \notin {"fork", "copy"}
  BY <1>9, Zenon
<1> HIDE DEF x
<1> QED BY <1>1, <1>9, <1>11, <1>12, <1>13, CallStep, Zenon

LEMMA StepOf_FillPage ==
  ASSUME MemInv, NEW p \in Slots, FillPage(p)
  PROVE  MemStep
<1>1. call[p].pc \in Allocating
  BY FillBuilds, Zenon DEF At
<1> QED BY <1>1, StepOf_FillGrow, StepOf_FillCopy, StepOf_FillExec, Zenon DEF Allocating

(* kalloc() fails in a loop: what uvmdealloc() gives back.                 *)
LEMMA Undone ==
  ASSUME NEW t \in Table, NEW c \in CallType, NEW from \in Nat, Between(t, from, c)
  PROVE  LET d == uvmdealloc(t, from)
             more == t.user - PGROUNDUP(from) + c.mem
         IN  /\ more \in Nat /\ d \in Table /\ d.user = PGROUNDUP(from) /\ d.top = t.top
             /\ Owned(d) + more = Owned(t) + c.mem
<1> DEFINE d == uvmdealloc(t, from)
           up == PGROUNDUP(from)
<1>1. c.mem \in {0, 1} /\ t.user \in Nat /\ up \in Nat /\ Owned(t) \in Nat
  BY CallTypes, TableTypes, RoundUpFacts, Zenon
<1>2. d \in Table /\ d.user = up /\ d.top = t.top /\ Owned(d) + t.user = Owned(t) + up
  BY Dealloc, Zenon
<1>3. Owned(d) \in Nat
  BY <1>2, TableTypes, Zenon
<1>4. up <= t.user
  BY Zenon DEF Between
<1> HIDE DEF d, up
<1>5. t.user - up + c.mem \in Nat /\ Owned(d) + (t.user - up + c.mem) = Owned(t) + c.mem
  BY <1>1, <1>2, <1>3, <1>4
<1> QED BY <1>2, <1>5, Zenon DEF d, up

LEMMA StepOf_FillGrowFails ==
  ASSUME MemInv, NEW p \in Slots, FillFails(p), call[p].pc = "grow"
  PROVE  MemStep
<1> DEFINE t == pagetable[p]
           d == uvmdealloc(t, sz[p])
           more == t.user - PGROUNDUP(sz[p]) + call[p].mem
           x == free + more
<1>1. /\ state[p] = "RUNNING" /\ free' = x /\ UNCHANGED <<state, trapframe, sz, panicked>>
      /\ pagetable' = [pagetable EXCEPT ![p] = d] /\ call' = [call EXCEPT ![p] = Idle]
  BY Zenon DEF FillFails, Filling, At, Building, Build, kfree
<1>2. /\ free \in Nat /\ call[p] \in CallType /\ panicked = FALSE /\ sz[p] \in Nat
      /\ t \in Table /\ trapframe[p] \in Nat
  BY KnownTypes, Zenon
<1>3. t.top = LEVELS /\ Between(t, sz[p], call[p]) /\ call[p].pagetable = NoTable /\ call[p].argv = 0
  BY <1>1, KnownOwn, Zenon DEF OwnInv
<1>4. /\ more \in Nat /\ d \in Table /\ d.user = PGROUNDUP(sz[p]) /\ d.top = t.top
      /\ Owned(d) + more = Owned(t) + call[p].mem
  BY <1>2, <1>3, Undone, Zenon
<1>5. call[p].mem \in Nat /\ Owned(t) \in Nat /\ Owned(d) \in Nat
  BY <1>2, <1>4, CallTypes, TableTypes
<1> HIDE DEF d, more
<1>6. OwnInv("RUNNING", trapframe[p], d, sz[p], Idle)
  BY <1>3, <1>4, IdleOwn, Zenon
<1>7. x \in Nat /\ x + (trapframe[p] + Owned(d) + 0) = free + (trapframe[p] + Owned(t) + call[p].mem)
  <2>1. PICK y \in Nat, g \in Nat, m \in Nat : y = free /\ g = trapframe[p] /\ m = call[p].mem
    BY <1>2, <1>5, Zenon
  <2>2. PICK a \in Nat, b \in Nat : a = Owned(t) /\ b = Owned(d)
    BY <1>5
  <2>3. b + more = a + m
    BY <1>4, <2>1, <2>2, Zenon
  <2>4. (y + more) \in Nat /\ (y + more) + (g + b + 0) = y + (g + a + m)
    BY <1>4, <2>3
  <2> QED BY <2>1, <2>2, <2>4, Zenon
<1> HIDE DEF x
<1>8. Hand(call[p]) = call[p].mem
  BY <1>3, <1>5, IdleIs DEF Hand
<1>9. x + (trapframe[p] + Owned(d) + Hand(Idle))
            = free + (trapframe[p] + Owned(pagetable[p]) + Hand(call[p]))
  BY <1>7, <1>8, HandIdle, Zenon
<1>10. Idle \in CallType /\ Idle.pc \notin {"fork", "copy"} /\ "RUNNING" \in States /\ state[p] # "USED"
  BY <1>1, IdleIs, Zenon DEF States
<1>11. x + Sum(trapframe[p], d, Idle) = free + Sum(trapframe[p], pagetable[p], call[p])
  BY <1>2, <1>4, <1>7, <1>9, <1>10, OwnSum
<1>12. /\ state' = [state EXCEPT ![p] = "RUNNING"] /\ trapframe' = [trapframe EXCEPT ![p] = trapframe[p]]
       /\ sz' = [sz EXCEPT ![p] = sz[p]]
  BY <1>1, KnownKept, Zenon
<1>13. OwnChange(p, "RUNNING", trapframe[p], d, sz[p], Idle, x)
  BY <1>1, <1>2, <1>4, <1>6, <1>7, <1>10, <1>11, <1>12, Zenon DEF OwnChange
<1> QED BY <1>10, <1>13, OwnStep, Zenon

LEMMA StepOf_FillFails ==
  ASSUME MemInv, NEW p \in Slots, FillFails(p)
  PROVE  MemStep
<1>1. state[p] = "RUNNING" /\ call[p].pc \in Allocating /\ call[p] \in CallType
  BY KnownTypes, Zenon DEF FillFails, Filling, At, Allocating
<1>2. CASE call[p].pc = "copy"
  <2> DEFINE t == pagetable[call[p].np]
             d == uvmdealloc(t, 0)
             more == t.user - PGROUNDUP(0) + call[p].mem
  <2>1. freeproc(call[p].np, d, more) /\ call' = [call EXCEPT ![p] = Idle]
    BY <1>2, Zenon DEF FillFails, Building
  <2>2. call[p].np \in Slots /\ ChildInv(call[p], state[call[p].np], t, sz[p])
    BY <1>2, KnownChild
  <2>3. t \in Table /\ t.top = LEVELS /\ Between(t, 0, call[p])
    BY <1>2, <2>2, KnownTypes, Zenon DEF ChildInv
  <2>4. /\ more \in Nat /\ d \in Table /\ d.user = PGROUNDUP(0) /\ d.top = t.top
        /\ Owned(d) + more = Owned(t) + call[p].mem
    BY <1>1, <2>3, Undone, Zenon
  <2> HIDE DEF d, more
  <2> QED BY <1>2, <2>1, <2>3, <2>4, StepOf_ForkFails, Zenon
<1>3. CASE call[p].pc \in {"segment", "stack"}
  <2> DEFINE t == call[p].pagetable
             d == uvmdealloc(t, call[p].sz)
             more == t.user - PGROUNDUP(call[p].sz) + call[p].mem
  <2>1. ExecFails(p, d, more)
    BY <1>3, Zenon DEF FillFails, Building
  <2>2. t.top = LEVELS /\ Between(t, call[p].sz, call[p])
    BY <1>3, KnownOwn, Zenon DEF OwnInv
  <2>3. t \in Table /\ call[p].sz \in Nat
    BY <1>1, CallTypes, Zenon
  <2>4. /\ more \in Nat /\ d \in Table /\ d.user = PGROUNDUP(call[p].sz) /\ d.top = t.top
        /\ Owned(d) + more = Owned(t) + call[p].mem
    BY <1>1, <2>2, <2>3, Undone, Zenon
  <2> HIDE DEF d, more
  <2>5. call[p].pc # "grow"
    BY <1>3
  <2> QED BY <1>1, <2>1, <2>2, <2>4, <2>5, StepOf_ExecFails, Zenon
<1> QED BY <1>1, <1>2, <1>3, StepOf_FillGrowFails, Zenon DEF Allocating

-----------------------------------------------------------------------------
(* The first process has one page, and the memory is accounted for.        *)
LEMMA MemInit == Init => MemInv
<1> SUFFICES ASSUME Init PROVE MemInv
  OBVIOUS
<1> DEFINE T == FirstTable
<1>0. /\ NPROC \in Nat \ {0} /\ PGSIZE \in Nat \ {0} /\ LEVELS \in Nat /\ NPAGES \in Nat
      /\ NPAGES >= 3 + 2 * LEVELS
  BY MemoryAssumption, Zenon
<1>1. /\ T \in Table /\ Owned(T) = 2 + 2 * LEVELS /\ T.top = LEVELS /\ T.user = 1
  BY <1>0 DEF FirstTable, Table, Owned
<1>2. free = NPAGES - 1 - Owned(T) /\ free \in Nat
  BY <1>0, <1>1 DEF Init
<1>3. PGROUNDUP(PGSIZE) = 1
  <2>1. PGROUNDUP(1 * PGSIZE) = 1
    BY RoundUpFacts, Zenon
  <2>2. 1 * PGSIZE = PGSIZE
    BY <1>0
  <2> QED BY <2>1, <2>2, Zenon
<1> HIDE DEF T
<1>4. MemType
  BY <1>0, <1>1, <1>2, IdleIs, Zenon DEF MemType, Init, Slots, initproc, T
<1>5. \A p \in Slots : call[p] = Idle
  BY Zenon DEF Init
<1>6. ChildrenDiffer /\ \A p \in Slots : ForkInv(p)
  BY <1>5, IdleIs, Zenon DEF ChildrenDiffer, ForkInv
<1>7. ASSUME NEW p \in Slots PROVE SlotInv(p)
  <2>1. CASE p = 1
    <3>1. /\ state[p] = "RUNNING" /\ pagetable[p] = T /\ sz[p] = PGSIZE
      BY <2>1, Zenon DEF Init, initproc, T
    <3> QED BY <1>1, <1>3, <1>5, <3>1, IdleOwn, Zenon DEF SlotInv
  <2>2. CASE p # 1
    <3>1. /\ state[p] = "UNUSED" /\ pagetable[p] = NoTable /\ sz[p] = 0 /\ trapframe[p] = 0
      BY <2>2, Zenon DEF Init, initproc
    <3> QED BY <1>5, <3>1, EmptySlot, Zenon DEF SlotInv
  <2> QED BY <2>1, <2>2, Zenon
<1> QED BY <1>4, <1>6, <1>7, Zenon DEF MemInv

(* A step that changes none of the variables.                              *)
LEMMA MemStutter ==
  ASSUME MemInv, UNCHANGED vars
  PROVE  MemInv'
  BY DEF MemInv, vars, MemType, ChildrenDiffer, SlotInv, ForkInv, Slots

LEMMA MemActions == ASSUME MemInv, Next PROVE MemStep
<1>1. PICK p \in Slots :
        \/ \E n \in Grows \cup {-m : m \in Shrinks} : sys_sbrk(p, n)
        \/ fork(p) \/ sys_exec(p) \/ exit(p)
        \/ \E q \in Slots : wait(p, q)
        \/ InKernel(p)
  BY Zenon DEF Next
<1>2. CASE \E n \in Grows \cup {-m : m \in Shrinks} : sys_sbrk(p, n)
  <2>1. Grows \subseteq Nat /\ Shrinks \subseteq Nat
    BY MemoryAssumption, Zenon
  <2>2. PICK n \in Grows \cup {-m : m \in Shrinks} : sys_sbrk(p, n)
    BY <1>2, Zenon
  <2>3. n \in Int
    <3>1. CASE n \in Grows
      BY <2>1, <3>1
    <3>2. CASE n \in {-m : m \in Shrinks}
      <4>1. PICK m \in Shrinks : n = -m
        BY <3>2
      <4> QED BY <2>1, <4>1
    <3> QED BY <3>1, <3>2, Zenon
  <2> QED BY <2>2, <2>3, StepOf_sys_sbrk, Zenon
<1>3. CASE \E q \in Slots : wait(p, q)
  BY <1>3, StepOf_wait, Zenon
<1>4. CASE fork(p) \/ sys_exec(p) \/ exit(p)
  BY <1>4, StepOf_fork, StepOf_sys_exec, StepOf_exit, Zenon
<1>5. CASE InKernel(p)
  <2>1. CASE \E end \in Segments : ExecSegment(p, end)
    <3>1. Segments \subseteq Nat
      BY MemoryAssumption
    <3> QED BY <2>1, <3>1, StepOf_ExecSegment, Zenon
  <2>2. CASE TablePage(p) \/ TableFails(p) \/ FillPage(p) \/ FillFails(p)
    BY <2>2, StepOf_TablePage, StepOf_TableFails, StepOf_FillPage, StepOf_FillFails, Zenon
  <2>3. CASE GrowReturns(p) \/ ForkReturns(p) \/ ArgvPage(p) \/ exec(p)
    BY <2>3, StepOf_GrowReturns, StepOf_ForkReturns, StepOf_ArgvPage, StepOf_exec, Zenon
  <2>4. CASE ExecStack(p) \/ ExecFilled(p) \/ ExecCommits(p)
    BY <2>4, StepOf_ExecStack, StepOf_ExecFilled, StepOf_ExecCommits, Zenon
  <2>5. CASE LoadFails(p) \/ ExecBad(p)
    BY <2>5, StepOf_LoadFails, StepOf_ExecBad, Zenon
  <2> QED BY <1>5, <2>1, <2>2, <2>3, <2>4, <2>5, Zenon DEF InKernel
<1> QED BY <1>1, <1>2, <1>3, <1>4, <1>5, Zenon
LEMMA MemNext == MemInv /\ [Next]_vars => MemInv'
  BY MemActions, MemStutter DEF MemStep

(* The inductive invariant of the memory of processes.                     *)
THEOREM MemInvariance == Spec => []MemInv
  BY MemInit, MemNext, PTL DEF Spec

LEMMA MemInvTables == MemInv => TablesMatchSizes
<1> SUFFICES ASSUME MemInv PROVE TablesMatchSizes
  OBVIOUS
<1>1. panicked = FALSE
  BY Zenon DEF MemInv, MemType
<1>2. ASSUME NEW p \in Slots
      PROVE  IF state[p] \in {"RUNNING", "ZOMBIE"}
             THEN /\ pagetable[p].top = LEVELS
                  /\ call[p].pc # "grow" => pagetable[p].user = PGROUNDUP(sz[p])
             ELSE sz[p] = 0
  BY KnownOwn DEF OwnInv
<1> QED BY <1>1, <1>2, Zenon DEF TablesMatchSizes

(* Every table has the pages that p->sz says, outside growproc(), so that  *)
(* uvmunmap() and freewalk() never panic.                                  *)
THEOREM TablesMatchSizesHolds == Spec => []TablesMatchSizes
  BY MemInvTables, MemInvariance, PTL

-----------------------------------------------------------------------------
(* Counting the pages of all slots.                                        *)
INSTANCE FiniteSetTheorems

Total(f) == Cardinality(UNION {{p} \X (1..f[p]) : p \in Slots})

LEMMA SlotsFinite == IsFiniteSet(Slots)
  BY MemoryAssumption, FS_Interval DEF Slots

LEMMA UpTo ==
  ASSUME NEW n \in Nat
  PROVE  IsFiniteSet(1..n) /\ Cardinality(1..n) = n
<1>1. 1 \in Int /\ n \in Int
  OBVIOUS
<1> DEFINE k == IF 1 > n THEN 0 ELSE n - 1 + 1
<1>2. IsFiniteSet(1..n) /\ Cardinality(1..n) = k
  BY <1>1, FS_Interval, Zenon
<1>3. k = n
  OBVIOUS
<1> HIDE DEF k
<1> QED BY <1>2, <1>3, Zenon

LEMMA TotalExcept ==
  ASSUME NEW f \in [Slots -> Nat], NEW p \in Slots, NEW g \in [Slots -> Nat],
         \A q \in Slots : q # p => g[q] = f[q]
  PROVE  /\ Total(f) \in Nat /\ Total(g) \in Nat
         /\ Total(g) + f[p] = Total(f) + g[p]
<1> DEFINE Col(n) == {p} \X (1..n)
           Rest == UNION {{q} \X (1..f[q]) : q \in Slots \ {p}}
<1>1. ASSUME NEW n \in Nat PROVE IsFiniteSet(Col(n)) /\ Cardinality(Col(n)) = n
  <2>1. IsFiniteSet({p}) /\ Cardinality({p}) = 1
    BY FS_Singleton, Zenon
  <2>2. IsFiniteSet(1..n) /\ Cardinality(1..n) = n
    BY UpTo, Zenon
  <2>3. Cardinality(Col(n)) = Cardinality({p}) * Cardinality(1..n) /\ IsFiniteSet(Col(n))
    <3> DEFINE A == {p}
               B == 1..n
    <3>1. IsFiniteSet(A) /\ IsFiniteSet(B)
      BY <2>1, <2>2, Zenon
    <3> HIDE DEF A, B
    <3>2. IsFiniteSet(A \X B) /\ Cardinality(A \X B) = Cardinality(A) * Cardinality(B)
      BY <3>1, FS_Product, Zenon
    <3> QED BY <3>2 DEF A, B
  <2> QED BY <2>1, <2>2, <2>3
<1>2. IsFiniteSet(Rest)
  <2> DEFINE U == Slots \ {p}
             h == [q \in U |-> {q} \X (1..f[q])]
             T == {{q} \X (1..f[q]) : q \in U}
  <2>1. IsFiniteSet(U)
    BY SlotsFinite, FS_Subset, Zenon
  <2>2. h \in Surjection(U, T)
    BY Zenon DEF Surjection
  <2>3. IsFiniteSet(T)
    <3> HIDE DEF U, h, T
    <3> QED BY <2>1, <2>2, FS_Surjection, Zenon
  <2>4. ASSUME NEW X \in T PROVE IsFiniteSet(X)
    <3>1. PICK q \in U : X = {q} \X (1..f[q])
      OBVIOUS
    <3>2. IsFiniteSet({q}) /\ IsFiniteSet(1..f[q])
      <4>1. f[q] \in Nat
        OBVIOUS
      <4> QED BY <4>1, FS_Singleton, UpTo, Zenon
    <3> DEFINE A == {q}
               B == 1..f[q]
    <3>3. IsFiniteSet(A) /\ IsFiniteSet(B) /\ X = A \X B
      BY <3>1, <3>2, Zenon
    <3> HIDE DEF A, B
    <3>4. IsFiniteSet(A \X B)
      BY <3>3, FS_Product, Zenon
    <3> QED BY <3>3, <3>4, Zenon
  <2>5. IsFiniteSet(UNION T)
    <3> HIDE DEF T
    <3> QED BY <2>3, <2>4, FS_UNION, Zenon
  <2> QED BY <2>5, Zenon
<1>3. UNION {{q} \X (1..f[q]) : q \in Slots} = Rest \cup Col(f[p])
  OBVIOUS
<1>4. UNION {{q} \X (1..g[q]) : q \in Slots} = Rest \cup Col(g[p])
  OBVIOUS
<1>5. ASSUME NEW n \in Nat
      PROVE  Cardinality(Rest \cup Col(n)) = Cardinality(Rest) + n
  <2>1. Rest \cap Col(n) = {}
    OBVIOUS
  <2> HIDE DEF Rest, Col
  <2>2. Cardinality(Rest \cap Col(n)) = 0
    BY <2>1, FS_EmptySet, Zenon
  <2>3. Cardinality(Rest \cup Col(n))
            = Cardinality(Rest) + Cardinality(Col(n)) - Cardinality(Rest \cap Col(n))
    BY <1>1, <1>2, FS_Union
  <2>4. Cardinality(Rest) \in Nat
    BY <1>2, FS_CardinalityType
  <2> QED BY <1>1, <2>2, <2>3, <2>4
<1> HIDE DEF Rest, Col
<1>6. Cardinality(Rest) \in Nat
  BY <1>2, FS_CardinalityType, Zenon
<1>7. Total(f) = Cardinality(Rest) + f[p] /\ Total(g) = Cardinality(Rest) + g[p]
  BY <1>3, <1>4, <1>5 DEF Total
<1> QED BY <1>6, <1>7

HoldsTyped == \A r \in Slots : Holds(r) \in Nat

LEMMA HoldsNat == MemType => HoldsTyped
<1> SUFFICES ASSUME MemType, NEW p \in Slots PROVE Holds(p) \in Nat
  BY Zenon DEF HoldsTyped
<1>1. /\ trapframe[p] \in Nat /\ pagetable[p] \in Table /\ call[p] \in CallType
  BY Zenon DEF MemType
<1>2. \A t \in Table : Owned(t) \in Nat
  BY DEF Table, Owned
<1>3. call[p].pagetable \in Table /\ call[p].argv \in Nat /\ call[p].mem \in Nat
  BY <1>1 DEF CallType
<1> HIDE DEF Owned
<1> QED BY <1>1, <1>2, <1>3 DEF Holds, InHand

(* What was accounted for still is when pages move between two slots and   *)
(* the free list.                                                          *)
LEMMA Accounted ==
  ASSUME MemType, MemType', PagesAccounted, NEW p \in Slots, NEW q \in Slots, p # q,
         \A r \in Slots : r # p /\ r # q => Holds(r)' = Holds(r),
         PagesKept2(p, q)
  PROVE  PagesAccounted'
<1> DEFINE f == [r \in Slots |-> Holds(r)]
           g == [r \in Slots |-> Holds(r)']
           h == [r \in Slots |-> IF r = p THEN Holds(r)' ELSE Holds(r)]
<1>1. \A r \in Slots : Holds(r) \in Nat
  BY HoldsNat, Zenon DEF HoldsTyped
<1>2. HoldsTyped'
  BY HoldsNat, PTL
<1>3. \A r \in Slots : Holds(r)' \in Nat
  BY <1>2, Zenon DEF HoldsTyped, Slots
<1>4. f \in [Slots -> Nat] /\ g \in [Slots -> Nat] /\ h \in [Slots -> Nat]
  BY <1>1, <1>3, Zenon
<1>5. /\ \A r \in Slots : r # p => h[r] = f[r]
      /\ \A r \in Slots : r # q => g[r] = h[r]
      /\ f[p] = Holds(p) /\ h[p] = Holds(p)' /\ h[q] = Holds(q) /\ g[q] = Holds(q)'
  BY Zenon
<1>6. Cardinality(Held) = Total(f) /\ Cardinality(Held') = Total(g)
  <2>1. Held = UNION {{r} \X (1..f[r]) : r \in Slots}
    BY Zenon DEF Held
  <2>2. Held' = UNION {{r} \X (1..g[r]) : r \in Slots}
    BY DEF Held, Slots
  <2> QED BY <2>1, <2>2, Zenon DEF Total
<1> HIDE DEF f, g, h
<1>7. /\ Total(f) \in Nat /\ Total(h) \in Nat /\ Total(h) + f[p] = Total(f) + h[p]
  BY <1>4, <1>5, TotalExcept, Zenon
<1>8. /\ Total(g) \in Nat /\ Total(g) + h[q] = Total(h) + g[q]
  BY <1>4, <1>5, TotalExcept, Zenon
<1>9. free \in Nat /\ free' \in Nat
  BY Zenon DEF MemType
<1>10. free + Total(f) = NPAGES
  BY <1>6, Zenon DEF PagesAccounted
<1>11. free' + Total(g) = NPAGES
  <2>1. PICK a \in Nat, b \in Nat, a1 \in Nat, b1 \in Nat :
           a = Holds(p) /\ b = Holds(q) /\ a1 = Holds(p)' /\ b1 = Holds(q)'
    BY <1>1, <1>3, Zenon
  <2>2. PICK tf \in Nat, tg \in Nat, th \in Nat :
           tf = Total(f) /\ tg = Total(g) /\ th = Total(h)
    BY <1>7, <1>8, Zenon
  <2>3. PICK x \in Nat, x1 \in Nat : x = free /\ x1 = free'
    BY <1>9, Zenon
  <2>4. x1 + a1 + b1 = x + a + b
    BY <2>1, <2>3, Zenon DEF PagesKept2
  <2>5. th + a = tf + a1 /\ tg + b = th + b1 /\ x + tf = NPAGES
    BY <1>5, <1>7, <1>8, <1>10, <2>1, <2>2, <2>3, Zenon
  <2>6. x1 + tg = NPAGES
    BY <2>4, <2>5
  <2> QED BY <2>2, <2>3, <2>6, Zenon
<1> QED BY <1>6, <1>11, Zenon DEF PagesAccounted

LEMMA AccountedOne ==
  ASSUME MemType, MemType', PagesAccounted, NEW p \in Slots,
         \A r \in Slots : r # p => Holds(r)' = Holds(r),
         PagesKept(p)
  PROVE  PagesAccounted'
<1> DEFINE f == [r \in Slots |-> Holds(r)]
           g == [r \in Slots |-> Holds(r)']
<1>1. \A r \in Slots : Holds(r) \in Nat
  BY HoldsNat, Zenon DEF HoldsTyped
<1>2. HoldsTyped'
  BY HoldsNat, PTL
<1>3. \A r \in Slots : Holds(r)' \in Nat
  BY <1>2, Zenon DEF HoldsTyped, Slots
<1>4. f \in [Slots -> Nat] /\ g \in [Slots -> Nat]
  BY <1>1, <1>3, Zenon
<1>5. /\ \A r \in Slots : r # p => g[r] = f[r]
      /\ f[p] = Holds(p) /\ g[p] = Holds(p)'
  BY Zenon
<1>6. Cardinality(Held) = Total(f) /\ Cardinality(Held') = Total(g)
  <2>1. Held = UNION {{r} \X (1..f[r]) : r \in Slots}
    BY Zenon DEF Held
  <2>2. Held' = UNION {{r} \X (1..g[r]) : r \in Slots}
    BY DEF Held, Slots
  <2> QED BY <2>1, <2>2, Zenon DEF Total
<1> HIDE DEF f, g
<1>7. /\ Total(f) \in Nat /\ Total(g) \in Nat /\ Total(g) + f[p] = Total(f) + g[p]
  BY <1>4, <1>5, TotalExcept, Zenon
<1>8. free \in Nat /\ free' \in Nat /\ free + Total(f) = NPAGES
  BY <1>6, Zenon DEF MemType, PagesAccounted
<1>9. f[p] \in Nat /\ g[p] \in Nat /\ free' + g[p] = free + f[p]
  BY <1>1, <1>3, <1>5, Zenon DEF PagesKept
<1>10. free' + Total(g) = NPAGES
  <2>1. PICK a \in Nat, b \in Nat : a = f[p] /\ b = g[p]
    BY <1>9, Zenon
  <2>2. PICK tf \in Nat, tg \in Nat : tf = Total(f) /\ tg = Total(g)
    BY <1>7, Zenon
  <2>3. PICK x \in Nat, x1 \in Nat : x = free /\ x1 = free'
    BY <1>8, Zenon
  <2>4. tg + a = tf + b /\ x1 + b = x + a /\ x + tf = NPAGES
    BY <1>7, <1>8, <1>9, <2>1, <2>2, <2>3, Zenon
  <2>5. x1 + tg = NPAGES
    BY <2>4
  <2> QED BY <2>2, <2>3, <2>5, Zenon
<1> QED BY <1>6, <1>10, Zenon DEF PagesAccounted

LEMMA AccountedInit == Init => PagesAccounted
<1> SUFFICES ASSUME Init PROVE PagesAccounted
  OBVIOUS
<1> DEFINE T == FirstTable
<1>n. NPROC \in Nat \ {0} /\ LEVELS \in Nat /\ NPAGES \in Nat /\ NPAGES >= 3 + 2 * LEVELS
  BY MemoryAssumption, Zenon
<1>o. Owned(T) = 2 + 2 * LEVELS
  BY <1>n DEF FirstTable, Owned
<1>f. free = NPAGES - 1 - Owned(T) /\ free \in Nat
  BY <1>n, <1>o DEF Init
<1>t. MemType
  BY MemInit, Zenon DEF MemInv
<1>i. \A p \in Slots : call[p] = Idle
  BY DEF Init
<1> DEFINE f == [r \in Slots |-> Holds(r)]
           g == [r \in Slots |-> 0]
<1>0. 1 \in Slots
  BY <1>n DEF Slots
<1>1. \A r \in Slots : Holds(r) \in Nat
  BY <1>t, HoldsNat, Zenon DEF HoldsTyped
<1>2. Holds(1) = 3 + 2 * LEVELS
  <2>1. trapframe[1] = 1 /\ pagetable[1] = T /\ call[1] = Idle
    BY <1>0, <1>i, Zenon DEF Init, initproc
  <2>2. InHand(1) = 0
    BY <2>1, IdleIs DEF InHand
  <2> QED BY <2>1, <2>2, <1>n, <1>o DEF Holds
<1>3. ASSUME NEW r \in Slots, r # 1 PROVE Holds(r) = 0
  <2>1. trapframe[r] = 0 /\ pagetable[r] = NoTable /\ call[r] = Idle
    BY <1>3, <1>i, Zenon DEF Init, initproc
  <2>2. InHand(r) = 0
    BY <2>1, IdleIs DEF InHand
  <2> QED BY <2>1, <2>2, IdleIs DEF Holds
<1>4. f \in [Slots -> Nat] /\ g \in [Slots -> Nat]
  BY <1>1, Zenon
<1>a. 0 \in Nat
  OBVIOUS
<1>5. (\A r \in Slots : r # 1 => f[r] = g[r]) /\ f[1] = Holds(1) /\ g[1] = 0
  BY <1>0, <1>3, Zenon
<1>6. Cardinality(Held) = Total(f)
  BY Zenon DEF Total, Held
<1>7. Total(g) = 0
  <2>1. UNION {{r} \X (1..g[r]) : r \in Slots} = {}
    OBVIOUS
  <2> QED BY <2>1, FS_EmptySet, Zenon DEF Total
<1> HIDE DEF f, g
<1>8. Total(f) \in Nat /\ Total(f) + g[1] = Total(g) + f[1]
  BY <1>0, <1>4, <1>5, TotalExcept, Zenon
<1>9. Total(f) = 3 + 2 * LEVELS
  BY <1>n, <1>2, <1>5, <1>7, <1>8
<1>10. free + Total(f) = NPAGES
  BY <1>n, <1>o, <1>f, <1>9
<1> QED BY <1>6, <1>10, Zenon DEF PagesAccounted

LEMMA AccountedStep ==
  ASSUME MemInv, PagesAccounted, [Next]_vars
  PROVE  PagesAccounted'
<1>1. CASE UNCHANGED vars
  BY <1>1 DEF vars, PagesAccounted, Held, Holds, InHand, Slots, Owned
<1>2. CASE Next
  <2>1. MemStep
    BY <1>2, MemActions, Zenon
  <2>2. MemType /\ MemType' /\ Balanced
    BY <2>1, Zenon DEF MemInv, MemStep
  <2> QED BY <2>2, Accounted, AccountedOne, Zenon DEF Balanced
<1> QED BY <1>1, <1>2, Zenon

(* No page is lost and none is freed twice by kalloc.c, vm.c, exec() and   *)
(* fork(), however many processes, pages and levels there are and          *)
(* whichever kalloc() fails.                                               *)
THEOREM PagesAccountedHolds == Spec => []PagesAccounted
<1>1. MemInv /\ PagesAccounted /\ [Next]_vars => PagesAccounted'
  BY AccountedStep
<1> QED BY <1>1, AccountedInit, MemInvariance, PTL DEF Spec
=============================================================================
