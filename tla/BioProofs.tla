------------------------------ MODULE BioProofs ------------------------------
(***************************************************************************)
(* Proofs about the buffer cache (module Bio), for any number of           *)
(* processes, blocks and buffers, and about the sleep lock that each       *)
(* buffer has (module SleepLock), for any set of processes.                *)
(*                                                                         *)
(* The cache.  Coherent and RefsCounted are not inductive.  CInv says what *)
(* makes a buffer's contents current: who holds the lock, which call of    *)
(* the driver is under way and for whom, and when the disk may differ from *)
(* the buffer.  A step of a process touches its own buffer only, so it is  *)
(* enough to show that the step keeps what CInv says of this process and   *)
(* this buffer (Own); the lemmas OwnNow, OwnStep and InsideStep turn the   *)
(* one into the other.  The counting of references is used in two places:  *)
(* a buffer that is recycled has no user, and one can always be found.     *)
(***************************************************************************)
EXTENDS MCSleepLock, TLAPS

(* Where a process can be; with a call of the driver under way; with the   *)
(* buffer's lock held.                                                     *)
Ats == {"idle", "lock", "read", "have", "write", "install", "written", "release"}
Calling == {"read", "write", "install"}
Locking == {"read", "have", "write", "install", "written"}

(* The types of the buffers and of the calls.                              *)
BufType == [blockno : Blocks \cup {NONE}, valid : {0, 1}, refcnt : Int,
            lock : Procs \cup {NONE}, data : Vals \cup {NONE}]
CallType == {NoCall} \cup
            [at : {"begun", "done"}, blockno : Blocks, write : {0, 1}, data : Vals \cup {NONE}]

(* The types of the variables.                                             *)
CacheType ==
    /\ sectors \in [Blocks -> Vals] /\ latest \in [Blocks -> Vals]
    /\ buf \in [Bufs -> BufType]
    /\ call \in [Bufs -> CallType]
    /\ lru \in [Bufs -> Bufs]
    /\ proc \in [Procs -> [at : Ats, b : Bufs \cup {NONE}]]
    /\ logged \in Blocks \cup {NONE}
    /\ panic \in BOOLEAN

(* A block has one buffer, and a buffer in use has a block.                *)
OneBuffer ==
    /\ \A b, c \in Bufs : buf[b].blockno = buf[c].blockno /\ buf[b].blockno # NONE => b = c
    /\ \A p \in Procs : proc[p].at = "idle" <=> proc[p].b = NONE
    /\ \A p \in Procs : proc[p].b # NONE => buf[proc[p].b].blockno # NONE

(* The sleep lock of a buffer belongs to the process inside it.            *)
Locked ==
    /\ \A p \in Procs : proc[p].at \in Locking => buf[proc[p].b].lock = p
    /\ \A p \in Procs, b \in Bufs :
          buf[b].lock = p => proc[p].b = b /\ proc[p].at \in Locking

(* A call under way is its caller's, and moves the buffer's contents.      *)
CallOf(p) ==
    LET b == proc[p].b
        c == call[b]
        k == buf[b].blockno
    IN  /\ c # NoCall /\ c.blockno = k
        /\ c.write = IF proc[p].at = "read" THEN 0 ELSE 1
        /\ c.write = 1 \/ c.at = "done" => c.data = latest[k]
        /\ c.at = "done" => sectors[k] = latest[k]

CallsOwned ==
    /\ \A p \in Procs : proc[p].at \in Calling => CallOf(p)
    /\ \A b \in Bufs : call[b] # NoCall =>
          \E p \in Procs : proc[p].at \in Calling /\ proc[p].b = b

(* A valid buffer is up to date, and a buffer in hand is valid.            *)
Valid ==
    /\ \A b \in Bufs : buf[b].valid = 1 /\ buf[b].blockno # NONE =>
          buf[b].data = latest[buf[b].blockno]
    /\ \A p \in Procs : proc[p].at \in Locking =>
          buf[proc[p].b].valid = IF proc[p].at = "read" THEN 0 ELSE 1

(* So is the disk, but for the pinned block, which has a buffer, and for a *)
(* block whose write is under way.                                         *)
DiskCurrent ==
    /\ \A p \in Procs : proc[p].at = "install" => logged = buf[proc[p].b].blockno
    /\ logged # NONE => \E b \in Bufs : buf[b].blockno = logged /\ buf[b].valid = 1
    /\ \A k \in Blocks : sectors[k] # latest[k] =>
          \/ logged = k
          \/ \E p \in Procs : proc[p].at = "write" /\ buf[proc[p].b].blockno = k

(* The inductive invariant, but for the reference counts.                  *)
CInv ==
    /\ CacheAssumption /\ CacheType /\ OneBuffer /\ Locked /\ CallsOwned
    /\ Valid /\ DiskCurrent

(* binit(): the invariant holds of an empty cache.                         *)
LEMMA CInit == CacheAssumption /\ Init => CInv
<1> SUFFICES ASSUME CacheAssumption, Init PROVE CInv
  OBVIOUS
<1> USE DEF Init, DeviceInit, Bufs
<1>1. CacheType
  <2>1. buf \in [Bufs -> BufType]
    BY DEF BufType
  <2>2. proc \in [Procs -> [at : Ats, b : Bufs \cup {NONE}]]
    BY DEF Ats
  <2>3. lru \in [Bufs -> Bufs]
    BY DEF CacheAssumption
  <2> QED
    BY <2>1, <2>2, <2>3, Zenon DEF CacheType, CallType
<1>2. OneBuffer
  BY DEF OneBuffer
<1>3. Locked
  BY DEF CacheAssumption, Locked, Locking
<1>4. CallsOwned
  BY DEF CallsOwned, Calling
<1>5. Valid /\ DiskCurrent
  BY DEF Valid, DiskCurrent, Locking
<1> QED
  BY <1>1, <1>2, <1>3, <1>4, <1>5 DEF CInv

(* What CInv says of process p and its buffer b, or the buffer it has just *)
(* left, when no other process is inside b.                                *)
Own(p, b) ==
    LET at == proc[p].at
        k == buf[b].blockno
    IN  /\ proc[p].b \in {b, NONE} /\ (at = "idle" <=> proc[p].b = NONE)
        /\ k \in Blocks
        /\ buf[b].lock = IF at \in Locking THEN p ELSE NONE
        /\ call[b] # NoCall <=> at \in Calling
        /\ at \in Calling => CallOf(p)
        /\ buf[b].valid = 1 => buf[b].data = latest[k]
        /\ at \in Locking => buf[b].valid = IF at = "read" THEN 0 ELSE 1
        /\ at = "install" => logged = k
        /\ logged = k => buf[b].valid = 1
        /\ sectors[k] # latest[k] => logged = k \/ at = "write"

(* A step that changes nothing but process p, buffer b and the block the   *)
(* buffer has after it.                                                    *)
Only(p, b) ==
    /\ proc[p].b \in {b, NONE}
    /\ \A q \in Procs : q # p => proc'[q] = proc[q] /\ (proc[q].b = b => proc[q].at \notin Locking)
    /\ \A c \in Bufs : c # b =>
          buf'[c] = buf[c] /\ call'[c] = call[c] /\ buf[c].blockno # buf'[b].blockno
    /\ \A k \in Blocks : k # buf'[b].blockno =>
          latest'[k] = latest[k] /\ sectors'[k] = sectors[k] /\ (logged' = k <=> logged = k)
    /\ \/ buf'[b].blockno = buf[b].blockno
       \/ /\ \A q \in Procs : proc[q].b # b
          /\ logged # NONE => logged # buf[b].blockno

(* bget() gives a process a buffer that has a block.                       *)
LEMMA InUse ==
  ASSUME CInv, NEW p \in Procs, proc[p].b # NONE
  PROVE  proc[p].b \in Bufs /\ buf[proc[p].b].blockno \in Blocks
BY DEF CInv, CacheType, BufType, OneBuffer

(* CInv gives what Own says of a process that has the buffer's lock, or    *)
(* may take it, and keeps the other processes out.                         *)
LEMMA OwnNow ==
  ASSUME CInv, NEW p \in Procs, NEW b \in Bufs, proc[p].b = b,
         proc[p].at \in Locking \/ buf[b].lock = NONE
  PROVE  /\ Own(p, b)
         /\ \A q \in Procs : q # p /\ proc[q].b = b => proc[q].at \notin Locking
<1>a. CacheAssumption /\ OneBuffer /\ Locked /\ CallsOwned /\ Valid /\ DiskCurrent
  BY DEF CInv
<1>b. NONE \notin Blocks /\ NONE \notin Bufs /\ NONE \notin Procs
  BY <1>a DEF CacheAssumption, Bufs
<1> USE <1>a, <1>b
<1>1. proc[p].at # "idle" /\ b # NONE /\ buf[b].blockno \in Blocks /\ buf[b].blockno # NONE
  BY InUse DEF OneBuffer, CacheAssumption, Bufs
<1>2. buf[b].lock = IF proc[p].at \in Locking THEN p ELSE NONE
  BY DEF Locked
<1>3. \A q \in Procs : q # p /\ proc[q].b = b => proc[q].at \notin Locking
  BY <1>2 DEF Locked
<1>4. call[b] # NoCall <=> proc[p].at \in Calling
  BY <1>3 DEF CallsOwned, CallOf, Calling, Locking
<1>5. proc[p].at \in Calling => CallOf(p)
  BY DEF CallsOwned
<1>6. /\ buf[b].valid = 1 => buf[b].data = latest[buf[b].blockno]
      /\ proc[p].at \in Locking => buf[b].valid = IF proc[p].at = "read" THEN 0 ELSE 1
  BY <1>1 DEF Valid
<1>7. /\ proc[p].at = "install" => logged = buf[b].blockno
      /\ logged = buf[b].blockno => buf[b].valid = 1
  BY <1>1 DEF DiskCurrent, OneBuffer
<1>8. sectors[buf[b].blockno] # latest[buf[b].blockno] =>
         logged = buf[b].blockno \/ proc[p].at = "write"
  <2> SUFFICES ASSUME sectors[buf[b].blockno] # latest[buf[b].blockno], logged # buf[b].blockno
               PROVE  proc[p].at = "write"
    OBVIOUS
  <2>1. PICK q \in Procs : proc[q].at = "write" /\ buf[proc[q].b].blockno = buf[b].blockno
    BY <1>1 DEF DiskCurrent
  <2>2. proc[q].b \in Bufs
    BY <2>1, InUse DEF OneBuffer
  <2>3. proc[q].b = b
    BY <1>1, <2>1, <2>2 DEF OneBuffer
  <2> QED
    BY <1>3, <2>1, <2>3 DEF Locking
<1> QED
  BY <1>1, <1>2, <1>3, <1>4, <1>5, <1>6, <1>7, <1>8 DEF Own

(* A step confined to a process and its buffer keeps CInv if it keeps      *)
(* what Own says of the two.                                               *)
LEMMA OwnStep ==
  ASSUME CInv, NEW p \in Procs, NEW b \in Bufs, CacheType', Only(p, b), Own(p, b)'
  PROVE  CInv'
<1>a. CacheAssumption /\ OneBuffer /\ Locked /\ CallsOwned /\ Valid /\ DiskCurrent
  BY DEF CInv
<1>b. NONE \notin Blocks /\ NONE \notin Bufs /\ NONE \notin Procs
  BY <1>a, Zenon DEF CacheAssumption, Bufs
<1> USE <1>a, <1>b
<1>1. ASSUME NEW q \in Procs, q # p, proc'[q].at \in Locking
      PROVE  /\ proc'[q] = proc[q] /\ proc[q].b \in Bufs /\ proc[q].b # b
             /\ buf'[proc[q].b] = buf[proc[q].b] /\ call'[proc[q].b] = call[proc[q].b]
             /\ buf[proc[q].b].blockno \in Blocks /\ buf[proc[q].b].blockno # buf'[b].blockno
  <2>1. proc'[q] = proc[q] /\ proc[q].b # NONE
    BY <1>1 DEF Only, OneBuffer, Locking
  <2> QED
    BY <1>1, <2>1, InUse DEF Only
<1>2. OneBuffer'
  <2>1. \A c, d \in Bufs : buf'[c].blockno = buf'[d].blockno /\ buf'[c].blockno # NONE => c = d
    BY DEF OneBuffer, Only
  <2>2. ASSUME NEW q \in Procs, q # p
        PROVE  /\ proc'[q].at = "idle" <=> proc'[q].b = NONE
               /\ proc'[q].b # NONE => buf'[proc'[q].b].blockno # NONE
    BY <2>2, InUse DEF OneBuffer, Only, Own
  <2>3. /\ proc'[p].at = "idle" <=> proc'[p].b = NONE
        /\ proc'[p].b # NONE => buf'[proc'[p].b].blockno # NONE
    BY DEF Own
  <2> QED
    BY <2>1, <2>2, <2>3 DEF OneBuffer, Bufs
<1>3. Locked'
  <2>1. ASSUME NEW q \in Procs, proc'[q].at \in Locking PROVE buf'[proc'[q].b].lock = q
    BY <1>1, <2>1 DEF Locked, Own, Locking
  <2>2. ASSUME NEW q \in Procs, NEW c \in Bufs, buf'[c].lock = q, c # b
        PROVE  proc'[q].b = c /\ proc'[q].at \in Locking
    BY <2>2 DEF Locked, Only
  <2>3. ASSUME NEW q \in Procs, buf'[b].lock = q
        PROVE  proc'[q].b = b /\ proc'[q].at \in Locking
    BY <2>3 DEF Own, Locking
  <2> QED
    BY <2>1, <2>2, <2>3 DEF Locked, Bufs
<1>4. CallsOwned'
  <2>1. ASSUME NEW q \in Procs, q # p, proc'[q].at \in Calling PROVE CallOf(q)'
    <3>1. proc'[q].at \in Locking
      BY <2>1 DEF Calling, Locking
    <3>2. CallOf(q)
      BY <1>1, <2>1, <3>1 DEF CallsOwned
    <3> QED
      BY <1>1, <2>1, <3>1, <3>2 DEF CallOf, Only
  <2>2. proc'[p].at \in Calling => CallOf(p)'
    BY DEF Own
  <2>3. ASSUME NEW c \in Bufs, call'[c] # NoCall
        PROVE  \E q \in Procs : proc'[q].at \in Calling /\ proc'[q].b = c
    <3>1. CASE c = b
      BY <2>3, <3>1, Zenon DEF Own, Calling
    <3>2. CASE c # b
      <4>1. PICK q \in Procs : proc[q].at \in Calling /\ proc[q].b = c
        BY <2>3, <3>2 DEF CallsOwned, Only
      <4> QED
        BY <3>2, <4>1 DEF Only
    <3> QED
      BY <3>1, <3>2, Zenon
  <2> QED
    BY <2>1, <2>2, <2>3, Zenon DEF CallsOwned, Bufs, NoCall
<1>5. Valid'
  <2>1. ASSUME NEW c \in Bufs, c # b, buf'[c].valid = 1, buf'[c].blockno # NONE
        PROVE  buf'[c].data = latest'[buf'[c].blockno]
    <3>1. buf'[c] = buf[c] /\ buf[c].blockno \in Blocks
      BY <2>1 DEF Only, CInv, CacheType, BufType
    <3> QED
      BY <2>1, <3>1 DEF Valid, Only
  <2>2. buf'[b].valid = 1 => buf'[b].data = latest'[buf'[b].blockno]
    BY DEF Own
  <2>3. ASSUME NEW q \in Procs, proc'[q].at \in Locking
        PROVE  buf'[proc'[q].b].valid = IF proc'[q].at = "read" THEN 0 ELSE 1
    <3>1. CASE q = p
      BY <2>3, <3>1, Zenon DEF Own, Locking
    <3>2. CASE q # p
      BY <1>1, <2>3, <3>2 DEF Valid
    <3> QED
      BY <3>1, <3>2, Zenon
  <2> QED
    BY <2>1, <2>2, <2>3, Zenon DEF Valid, Bufs
<1>6. DiskCurrent'
  <2>1. ASSUME NEW q \in Procs, proc'[q].at = "install" PROVE logged' = buf'[proc'[q].b].blockno
    <3>1. CASE q = p
      BY <2>1, <3>1, Zenon DEF Own
    <3>2. CASE q # p
      <4>1. proc'[q].at \in Locking
        BY <2>1 DEF Locking
      <4> QED
        BY <1>1, <2>1, <3>2, <4>1 DEF DiskCurrent, Only
    <3> QED
      BY <3>1, <3>2, Zenon
  <2>2. ASSUME logged' # NONE
        PROVE  \E c \in Bufs : buf'[c].blockno = logged' /\ buf'[c].valid = 1
    <3>1. CASE logged' = buf'[b].blockno
      BY <3>1, Zenon DEF Own
    <3>2. CASE logged' # buf'[b].blockno
      <4>1. logged = logged' /\ logged # buf[b].blockno
        BY <2>2, <3>2 DEF Only, CacheType
      <4>2. PICK c \in Bufs : buf[c].blockno = logged /\ buf[c].valid = 1
        BY <2>2, <4>1 DEF DiskCurrent
      <4> QED
        BY <4>1, <4>2, Zenon DEF Only
    <3> QED
      BY <3>1, <3>2
  <2>3. ASSUME NEW k \in Blocks, sectors'[k] # latest'[k], logged' # k
        PROVE  \E q \in Procs : proc'[q].at = "write" /\ buf'[proc'[q].b].blockno = k
    <3>1. CASE k = buf'[b].blockno
      BY <2>3, <3>1, Zenon DEF Own
    <3>2. CASE k # buf'[b].blockno
      <4>1. PICK q \in Procs : proc[q].at = "write" /\ buf[proc[q].b].blockno = k
        BY <2>3, <3>2 DEF DiskCurrent, Only
      <4>2. proc[q].b # NONE
        BY <4>1 DEF OneBuffer
      <4>3. q # p
        BY <3>2, <4>1, <4>2 DEF Only
      <4>4. proc'[q].at \in Locking /\ proc'[q] = proc[q]
        BY <4>1, <4>3 DEF Only, Locking
      <4> QED
        BY <1>1, <4>1, <4>3, <4>4, Zenon
    <3> QED
      BY <3>1, <3>2
  <2> QED
    BY <2>1, <2>2, <2>3 DEF DiskCurrent, Bufs
<1> QED
  BY <1>2, <1>3, <1>4, <1>5, <1>6 DEF CInv, CacheAssumption

(* An assignment to refcnt leaves the other fields of struct buf alone.    *)
LEMMA SetRef ==
  ASSUME NEW r \in BufType, NEW n \in Int, NEW s, s = [r EXCEPT !.refcnt = n]
  PROVE  /\ s \in BufType /\ s.blockno = r.blockno /\ s.valid = r.valid /\ s.lock = r.lock
         /\ s.data = r.data /\ s.refcnt = n
BY DEF BufType

(* An assignment to data leaves the other fields of struct buf alone.      *)
LEMMA SetData ==
  ASSUME NEW r \in BufType, NEW v \in Vals \cup {NONE}, NEW s, s = [r EXCEPT !.data = v]
  PROVE  /\ s \in BufType /\ s.blockno = r.blockno /\ s.valid = r.valid /\ s.lock = r.lock
         /\ s.data = v /\ s.refcnt = r.refcnt
BY Zenon DEF BufType

(* A step that takes or gives back a reference touches nothing else.       *)
LEMMA QuietStep ==
  ASSUME CInv, CacheType', UNCHANGED <<sectors, call, logged, latest>>, NEW p \in Procs,
         \A c \in Bufs : /\ buf'[c].blockno = buf[c].blockno /\ buf'[c].valid = buf[c].valid
                           /\ buf'[c].lock = buf[c].lock /\ buf'[c].data = buf[c].data,
         \A q \in Procs : q # p => proc'[q] = proc[q],
         proc[p].at \notin Locking, proc'[p].at \notin Locking,
         proc'[p].at = "idle" <=> proc'[p].b = NONE,
         proc'[p].b # NONE => proc'[p].b \in Bufs /\ buf[proc'[p].b].blockno # NONE
  PROVE  CInv'
<1>a. CacheAssumption /\ OneBuffer /\ Locked /\ CallsOwned /\ Valid /\ DiskCurrent
  BY DEF CInv
<1>b. NONE \notin Blocks /\ NONE \notin Bufs /\ NONE \notin Procs
  BY <1>a DEF CacheAssumption, Bufs
<1> USE <1>a, <1>b
<1>1. \A q \in Procs : q # p /\ proc[q].b # NONE => proc[q].b \in Bufs
  BY InUse, Zenon
<1>2. \A q \in Procs : proc[q].at \in Locking \/ proc'[q].at \in Locking =>
         q # p /\ proc'[q] = proc[q] /\ proc[q].b \in Bufs
  BY <1>1 DEF OneBuffer, Locking
<1>3. Calling \subseteq Locking
  BY Zenon DEF Calling, Locking
<1>4. OneBuffer'
  <2>1. ASSUME NEW q \in Procs PROVE proc'[q].at = "idle" <=> proc'[q].b = NONE
    BY Zenon DEF OneBuffer
  <2>2. ASSUME NEW q \in Procs, proc'[q].b # NONE PROVE buf'[proc'[q].b].blockno # NONE
    BY <1>1, <2>2 DEF OneBuffer
  <2>3. \A c, d \in Bufs : buf'[c].blockno = buf'[d].blockno /\ buf'[c].blockno # NONE => c = d
    BY DEF OneBuffer
  <2> QED
    BY <2>1, <2>2, <2>3, Zenon DEF OneBuffer, Bufs
<1>5. Locked'
  BY <1>2 DEF Locked, Bufs
<1>6. CallsOwned'
  <2>1. ASSUME NEW q \in Procs, proc'[q].at \in Calling PROVE CallOf(q)'
    <3>1. q # p /\ proc'[q] = proc[q] /\ proc[q].b \in Bufs /\ CallOf(q)
      BY <1>2, <1>3, <2>1, Zenon DEF CallsOwned
    <3> QED
      BY <3>1, Zenon DEF CallOf
  <2>2. ASSUME NEW c \in Bufs, call'[c] # NoCall
        PROVE  \E q \in Procs : proc'[q].at \in Calling /\ proc'[q].b = c
    BY <1>2, <1>3, <2>2 DEF CallsOwned
  <2> QED
    BY <2>1, <2>2, Zenon DEF CallsOwned, Bufs, NoCall
<1>7. Valid'
  BY <1>2 DEF Valid, Bufs
<1>8. DiskCurrent'
  <2>1. ASSUME NEW q \in Procs, proc'[q].at = "install" PROVE logged' = buf'[proc'[q].b].blockno
    BY <1>2, <2>1 DEF DiskCurrent, Locking
  <2>2. logged' # NONE => \E c \in Bufs : buf'[c].blockno = logged' /\ buf'[c].valid = 1
    BY Zenon DEF DiskCurrent
  <2>3. ASSUME NEW k \in Blocks, sectors'[k] # latest'[k], logged' # k
        PROVE  \E q \in Procs : proc'[q].at = "write" /\ buf'[proc'[q].b].blockno = k
    <3>1. PICK q \in Procs : proc[q].at = "write" /\ buf[proc[q].b].blockno = k
      BY <2>3, Zenon DEF DiskCurrent
    <3>2. proc'[q] = proc[q] /\ proc[q].b \in Bufs
      BY <1>2, <3>1 DEF Locking
    <3> QED
      BY <3>1, <3>2, Zenon
  <2> QED
    BY <2>1, <2>2, <2>3, Zenon DEF DiskCurrent, Bufs
<1> QED
  BY <1>4, <1>5, <1>6, <1>7, <1>8, Zenon DEF CInv, CacheAssumption

(* The users of a buffer, and its pin: what refcnt counts.                 *)
Users(b) == {p \in Procs : proc[p].b = b}
Pin(b) == IF logged # NONE /\ buf[b].blockno = logged THEN 1 ELSE 0

(* A step that leaves every process its buffer, and changes refcnt by what *)
(* the pin changes.                                                        *)
SameRefs ==
    /\ panic' = panic
    /\ \A q \in Procs : proc'[q].b = proc[q].b
    /\ \A c \in Bufs : buf'[c].refcnt = buf[c].refcnt + Pin(c)' - Pin(c)

(* A step of the process inside buffer b, or taking or leaving its lock.   *)
(* It may pin or unpin the buffer, and change what its block should hold.  *)
Inside(p, b) ==
    LET k == buf[b].blockno
        r == buf[b].refcnt
    IN  /\ proc[p].b = b
        /\ proc' \in [Procs -> [at : Ats, b : Bufs \cup {NONE}]] /\ proc'[p].b = b
        /\ \A q \in Procs : q # p => proc'[q] = proc[q]
        /\ buf' \in [Bufs -> BufType] /\ call' \in [Bufs -> CallType]
        /\ \A c \in Bufs : c # b => buf'[c] = buf[c] /\ call'[c] = call[c]
        /\ buf'[b].blockno = k
        /\ \/ logged' = logged /\ buf'[b].refcnt = r
           \/ logged = NONE /\ logged' = k /\ buf'[b].refcnt = r + 1
           \/ logged = k /\ logged' = NONE /\ buf'[b].refcnt = r - 1
        /\ latest' = latest \/ \E v \in Vals : latest' = [latest EXCEPT ![k] = v]
        /\ sectors' = sectors /\ panic' = panic /\ lru' = lru

(* Such a step keeps the invariant when it keeps p's own part of it.       *)
LEMMA InsideStep ==
  ASSUME CInv, NEW p \in Procs, NEW b \in Bufs, Inside(p, b), Own(p, b), Own(p, b)',
         \A q \in Procs : q # p /\ proc[q].b = b => proc[q].at \notin Locking
  PROVE  CInv' /\ SameRefs
<1>a. CacheAssumption /\ CacheType /\ OneBuffer
  BY Zenon DEF CInv
<1>b. NONE \notin Blocks /\ buf[b].blockno \in Blocks /\ buf[b].refcnt \in Int
  BY <1>a, Zenon DEF CacheAssumption, CacheType, BufType, Own
<1>c. \A c \in Bufs : c # b => buf[c].blockno # buf[b].blockno
  BY <1>a, <1>b DEF OneBuffer
<1>d. latest' \in [Blocks -> Vals] /\ logged' \in Blocks \cup {NONE}
  BY <1>a, <1>b, Zenon DEF Inside, CacheType
<1>e. \A k \in Blocks : k # buf[b].blockno => latest'[k] = latest[k] /\ (logged' = k <=> logged = k)
  BY <1>a, <1>b, Zenon DEF Inside, CacheType
<1>1. CacheType'
  BY <1>a, <1>d, Zenon DEF Inside, CacheType
<1>2. Only(p, b)
  BY <1>a, <1>c, <1>e, Zenon DEF Inside, Only
<1>3. ASSUME NEW c \in Bufs PROVE buf'[c].refcnt = buf[c].refcnt + Pin(c)' - Pin(c)
  <2>1. CASE c = b
    BY <1>b, <2>1 DEF Inside, Pin
  <2>2. CASE c # b
    <3>1. buf'[c] = buf[c] /\ buf[c].refcnt \in Int /\ buf[c].blockno \in Blocks \cup {NONE}
      BY <1>a, <2>2, Zenon DEF Inside, CacheType, BufType
    <3>2. Pin(c)' = Pin(c) /\ Pin(c) \in Int
      BY <1>b, <1>c, <1>e, <2>2, <3>1 DEF Pin
    <3> QED
      BY <3>1, <3>2
  <2> QED
    BY <2>1, <2>2, Zenon
<1>4. SameRefs
  BY <1>3, Zenon DEF Inside, SameRefs
<1> QED
  BY <1>1, <1>2, <1>4, OwnStep

(* brelse() gives the lock back with the buffer's contents current.        *)
LEMMA BrelseStep ==
  ASSUME CInv, NEW p \in Procs, brelse(p)
  PROVE  CInv' /\ SameRefs
<1>a. CacheAssumption /\ CacheType /\ OneBuffer
  BY DEF CInv
<1>b. NONE \notin Blocks /\ NONE \notin Bufs /\ NONE \notin Procs
  BY <1>a DEF CacheAssumption, Bufs
<1> USE <1>a, <1>b
<1>1. PICK b \in Bufs : proc[p].b = b /\ proc[p].at \in {"have", "written"}
  BY InUse, Zenon DEF OneBuffer, brelse, Held
<1>2. Own(p, b) /\ \A q \in Procs : q # p /\ proc[q].b = b => proc[q].at \notin Locking
  BY <1>1, OwnNow DEF Locking
<1>3. /\ proc' \in [Procs -> [at : Ats, b : Bufs \cup {NONE}]]
      /\ proc'[p].at = "release" /\ proc'[p].b = b
      /\ \A q \in Procs : q # p => proc'[q] = proc[q]
  BY <1>1 DEF brelse, Goto, CacheType, Ats
<1>4. /\ buf' \in [Bufs -> BufType]
      /\ buf'[b].blockno = buf[b].blockno /\ buf'[b].valid = buf[b].valid
      /\ buf'[b].lock = NONE /\ buf'[b].data = buf[b].data
      /\ buf'[b].refcnt = buf[b].refcnt
      /\ \A c \in Bufs : c # b => buf'[c] = buf[c]
  <2> DEFINE r == [buf[b] EXCEPT !.lock = NONE]
  <2>1. buf' = [buf EXCEPT ![b] = r]
    BY <1>1 DEF brelse
  <2>2. buf[b] \in BufType
    BY DEF CacheType
  <2>3. /\ r \in BufType /\ r.blockno = buf[b].blockno /\ r.valid = buf[b].valid
        /\ r.lock = NONE /\ r.data = buf[b].data /\ r.refcnt = buf[b].refcnt
    BY <2>2, Zenon DEF BufType
  <2> HIDE DEF r
  <2>4. buf'[b] = r /\ buf' \in [Bufs -> BufType] /\ \A c \in Bufs : c # b => buf'[c] = buf[c]
    BY <2>1, <2>3 DEF CacheType
  <2> QED
    BY <2>3, <2>4
<1>5. /\ call' \in [Bufs -> CallType]
      /\ call'[b] = call[b]
      /\ \A c \in Bufs : c # b => call'[c] = call[c]
  BY <1>1, <1>2 DEF brelse, CacheType, CallType, BufType, NoCall, Own
<1>6. /\ sectors' = sectors /\ latest' = latest
      /\ logged' = logged /\ panic' = panic /\ lru' = lru
  BY <1>1, Zenon DEF brelse
<1>7. Inside(p, b)
  BY <1>1, <1>3, <1>4, <1>5, <1>6, Zenon DEF Inside
<1> DEFINE k == buf[b].blockno
<1>8. /\ k \in Blocks /\ call[b] = NoCall /\ buf[b].valid = 1 /\ buf[b].data = latest[k]
      /\ sectors[k] # latest[k] => logged = k
  BY <1>1, <1>2, Zenon DEF Own, CallOf, Locking, Calling
<1>9. /\ proc'[p].at = "release" /\ proc'[p].b = b /\ buf'[b].blockno = k
      /\ buf'[b].lock = NONE /\ buf'[b].valid = buf[b].valid /\ buf'[b].data = buf[b].data
      /\ call'[b] = call[b]
      /\ latest'[k] = latest[k] /\ sectors' = sectors /\ logged' = logged
  BY <1>3, <1>4, <1>5, <1>6, <1>8, Zenon DEF CacheType
<1>10. Own(p, b)'
  BY <1>1, <1>8, <1>9, Zenon DEF Own, CallOf, Locking, Calling, NoCall
<1> QED
  BY <1>2, <1>7, <1>10, InsideStep

(* log_write() changes the contents and pins the buffer, once.             *)
LEMMA LogWriteStep ==
  ASSUME CInv, NEW p \in Procs, NEW v \in Vals, log_write(p, v)
  PROVE  CInv' /\ SameRefs
<1>a. CacheAssumption /\ CacheType /\ OneBuffer
  BY DEF CInv
<1>b. NONE \notin Blocks /\ NONE \notin Bufs /\ NONE \notin Procs
  BY <1>a, Zenon DEF CacheAssumption, Bufs
<1> USE <1>a, <1>b
<1>1. PICK b \in Bufs : proc[p].b = b /\ proc[p].at = "have" /\ logged \in {NONE, buf[b].blockno}
  BY InUse, Zenon DEF OneBuffer, log_write, Held
<1>2. Own(p, b) /\ \A q \in Procs : q # p /\ proc[q].b = b => proc[q].at \notin Locking
  BY <1>1, OwnNow DEF Locking
<1>3. /\ proc' \in [Procs -> [at : Ats, b : Bufs \cup {NONE}]]
      /\ proc'[p].at = "written" /\ proc'[p].b = b
      /\ \A q \in Procs : q # p => proc'[q] = proc[q]
  BY <1>1, Zenon DEF log_write, Goto, CacheType, Ats
<1>4. /\ buf' \in [Bufs -> BufType]
      /\ buf'[b].blockno = buf[b].blockno /\ buf'[b].valid = buf[b].valid
      /\ buf'[b].lock = buf[b].lock /\ buf'[b].data = v
      /\ buf'[b].refcnt = IF logged = NONE THEN buf[b].refcnt + 1 ELSE buf[b].refcnt
      /\ \A c \in Bufs : c # b => buf'[c] = buf[c]
  <2> DEFINE n == IF logged = NONE THEN buf[b].refcnt + 1 ELSE buf[b].refcnt
             r == [buf[b] EXCEPT !.refcnt = n]
  <2>1. n \in Int /\ buf[b] \in BufType
    BY <1>1 DEF CacheType, BufType
  <2> DEFINE s == [r EXCEPT !.data = v]
  <2>2. buf' = [buf EXCEPT ![b] = s]
    BY <1>1, Zenon DEF log_write
  <2> HIDE DEF n
  <2>3. /\ r \in BufType /\ r.blockno = buf[b].blockno /\ r.valid = buf[b].valid
        /\ r.lock = buf[b].lock /\ r.data = buf[b].data /\ r.refcnt = n
    BY <2>1, SetRef
  <2> HIDE DEF r
  <2>4. /\ s \in BufType /\ s.blockno = r.blockno /\ s.valid = r.valid
        /\ s.lock = r.lock /\ s.data = v /\ s.refcnt = r.refcnt
    BY <2>3, SetData
  <2> HIDE DEF s
  <2>5. buf'[b] = s /\ buf' \in [Bufs -> BufType] /\ \A c \in Bufs : c # b => buf'[c] = buf[c]
    BY <1>1, <2>2, <2>3, <2>4 DEF CacheType
  <2> QED
    BY <2>3, <2>4, <2>5 DEF n
<1>5. /\ call' \in [Bufs -> CallType]
      /\ call'[b] = call[b]
      /\ \A c \in Bufs : c # b => call'[c] = call[c]
  BY <1>1, <1>2 DEF log_write, CacheType, CallType, BufType, NoCall, Own
<1>6. /\ sectors' = sectors /\ latest' = [latest EXCEPT ![buf[b].blockno] = v]
      /\ logged' = buf[b].blockno /\ panic' = panic /\ lru' = lru
  BY <1>1 DEF log_write
<1>7. Inside(p, b)
  BY <1>1, <1>3, <1>4, <1>5, <1>6, Zenon DEF Inside
<1> DEFINE k == buf[b].blockno
<1>8. /\ k \in Blocks /\ buf[b].lock = p /\ call[b] = NoCall /\ buf[b].valid = 1
  BY <1>1, <1>2, Zenon DEF Own, CallOf, Locking, Calling
<1>9. /\ proc'[p].at = "written" /\ proc'[p].b = b /\ buf'[b].blockno = k
      /\ buf'[b].lock = buf[b].lock /\ buf'[b].valid = buf[b].valid /\ buf'[b].data = v
      /\ call'[b] = call[b]
      /\ latest'[k] = v /\ sectors' = sectors /\ logged' = k
  BY <1>3, <1>4, <1>5, <1>6, <1>8, Zenon DEF CacheType
<1>10. Own(p, b)'
  BY <1>1, <1>8, <1>9, Zenon DEF Own, CallOf, Locking, Calling, NoCall
<1> QED
  BY <1>2, <1>7, <1>10, InsideStep

(* bwrite() changes the contents and starts the call that writes them.     *)
LEMMA BwriteStep ==
  ASSUME CInv, NEW p \in Procs, NEW v \in Vals, bwrite(p, v)
  PROVE  CInv' /\ SameRefs
<1>a. CacheAssumption /\ CacheType /\ OneBuffer
  BY DEF CInv
<1>b. NONE \notin Blocks /\ NONE \notin Bufs /\ NONE \notin Procs
  BY <1>a DEF CacheAssumption, Bufs
<1> USE <1>a, <1>b
<1>1. PICK b \in Bufs : proc[p].b = b /\ proc[p].at = "have" /\ logged # buf[b].blockno
  BY InUse, Zenon DEF OneBuffer, bwrite, Begin, Held
<1>2. Own(p, b) /\ \A q \in Procs : q # p /\ proc[q].b = b => proc[q].at \notin Locking
  BY <1>1, OwnNow DEF Locking
<1>3. /\ proc' \in [Procs -> [at : Ats, b : Bufs \cup {NONE}]]
      /\ proc'[p].at = "write" /\ proc'[p].b = b
      /\ \A q \in Procs : q # p => proc'[q] = proc[q]
  BY <1>1 DEF bwrite, Goto, CacheType, Ats
<1>4. /\ buf' \in [Bufs -> BufType]
      /\ buf'[b].blockno = buf[b].blockno /\ buf'[b].valid = buf[b].valid
      /\ buf'[b].lock = buf[b].lock /\ buf'[b].data = v
      /\ buf'[b].refcnt = buf[b].refcnt
      /\ \A c \in Bufs : c # b => buf'[c] = buf[c]
  <2> DEFINE r == [buf[b] EXCEPT !.data = v]
  <2>1. buf' = [buf EXCEPT ![b] = r]
    BY <1>1 DEF bwrite
  <2>2. buf[b] \in BufType
    BY DEF CacheType
  <2>3. /\ r \in BufType /\ r.blockno = buf[b].blockno /\ r.valid = buf[b].valid
        /\ r.lock = buf[b].lock /\ r.data = v /\ r.refcnt = buf[b].refcnt
    BY <2>2, SetData
  <2> HIDE DEF r
  <2>4. buf'[b] = r /\ buf' \in [Bufs -> BufType] /\ \A c \in Bufs : c # b => buf'[c] = buf[c]
    BY <2>1, <2>3 DEF CacheType
  <2> QED
    BY <2>3, <2>4
<1>5. /\ call' \in [Bufs -> CallType]
      /\ call'[b] = [at |-> "begun", blockno |-> buf[b].blockno, write |-> 1, data |-> v]
      /\ \A c \in Bufs : c # b => call'[c] = call[c]
  BY <1>1, <1>2 DEF bwrite, Begin, CacheType, CallType, BufType, NoCall, Own
<1>6. /\ sectors' = sectors /\ latest' = [latest EXCEPT ![buf[b].blockno] = v]
      /\ logged' = logged /\ panic' = panic /\ lru' = lru
  BY <1>1 DEF bwrite, Begin
<1>7. Inside(p, b)
  BY <1>1, <1>3, <1>4, <1>5, <1>6, Zenon DEF Inside
<1> DEFINE k == buf[b].blockno
<1>8. /\ k \in Blocks /\ buf[b].lock = p /\ buf[b].valid = 1
  BY <1>1, <1>2, Zenon DEF Own, CallOf, Locking, Calling
<1>9. /\ proc'[p].at = "write" /\ proc'[p].b = b /\ buf'[b].blockno = k
      /\ buf'[b].lock = buf[b].lock /\ buf'[b].valid = buf[b].valid /\ buf'[b].data = v
      /\ call'[b] = [at |-> "begun", blockno |-> k, write |-> 1, data |-> v]
      /\ latest'[k] = v /\ sectors' = sectors /\ logged' = logged
  BY <1>3, <1>4, <1>5, <1>6, <1>8, Zenon DEF CacheType
<1>10. Own(p, b)'
  <2>1. call'[b] # NoCall /\ CallOf(p)'
    BY <1>1, <1>8, <1>9 DEF CallOf, NoCall
  <2> QED
    BY <1>1, <1>8, <1>9, <2>1, <1>2, Zenon DEF Own, Locking, Calling
<1> QED
  BY <1>2, <1>7, <1>10, InsideStep

(* install_trans() starts the call that writes the pinned block.           *)
LEMMA InstallStep ==
  ASSUME CInv, NEW p \in Procs, install_trans(p)
  PROVE  CInv' /\ SameRefs
<1>a. CacheAssumption /\ CacheType /\ OneBuffer
  BY DEF CInv
<1>b. NONE \notin Blocks /\ NONE \notin Bufs /\ NONE \notin Procs
  BY <1>a DEF CacheAssumption, Bufs
<1> USE <1>a, <1>b
<1>1. PICK b \in Bufs : proc[p].b = b /\ proc[p].at = "have" /\ logged = buf[b].blockno
  BY InUse DEF OneBuffer, install_trans, Begin, Held
<1>2. Own(p, b) /\ \A q \in Procs : q # p /\ proc[q].b = b => proc[q].at \notin Locking
  BY <1>1, OwnNow, Zenon DEF Locking
<1>3. /\ proc' \in [Procs -> [at : Ats, b : Bufs \cup {NONE}]]
      /\ proc'[p].at = "install" /\ proc'[p].b = b
      /\ \A q \in Procs : q # p => proc'[q] = proc[q]
  BY <1>1 DEF install_trans, Goto, CacheType, Ats
<1>4. /\ buf' \in [Bufs -> BufType]
      /\ buf'[b].blockno = buf[b].blockno /\ buf'[b].valid = buf[b].valid
      /\ buf'[b].lock = buf[b].lock /\ buf'[b].data = buf[b].data
      /\ buf'[b].refcnt = buf[b].refcnt
      /\ \A c \in Bufs : c # b => buf'[c] = buf[c]
  BY <1>1, Zenon DEF install_trans, CacheType
<1>5. /\ call' \in [Bufs -> CallType]
      /\ call'[b] = [at |-> "begun", blockno |-> buf[b].blockno, write |-> 1, data |-> buf[b].data]
      /\ \A c \in Bufs : c # b => call'[c] = call[c]
  BY <1>1, <1>2, Zenon DEF install_trans, Begin, CacheType, CallType, BufType, NoCall, Own
<1>6. /\ sectors' = sectors /\ latest' = latest
      /\ logged' = logged /\ panic' = panic /\ lru' = lru
  BY <1>1, Zenon DEF install_trans, Begin
<1>7. Inside(p, b)
  BY <1>1, <1>3, <1>4, <1>5, <1>6, Zenon DEF Inside
<1> DEFINE k == buf[b].blockno
<1>8. /\ k \in Blocks /\ buf[b].lock = p /\ buf[b].valid = 1 /\ buf[b].data = latest[k]
  BY <1>1, <1>2, Zenon DEF Own, CallOf, Locking, Calling
<1>9. /\ proc'[p].at = "install" /\ proc'[p].b = b /\ buf'[b].blockno = k
      /\ buf'[b].lock = buf[b].lock /\ buf'[b].valid = buf[b].valid /\ buf'[b].data = buf[b].data
      /\ call'[b] = [at |-> "begun", blockno |-> k, write |-> 1, data |-> buf[b].data]
      /\ latest'[k] = latest[k] /\ sectors' = sectors /\ logged' = logged
  BY <1>3, <1>4, <1>5, <1>6, <1>8, Zenon DEF CacheType
<1>10. Own(p, b)'
  <2>1. call'[b] # NoCall /\ CallOf(p)'
    BY <1>1, <1>8, <1>9 DEF CallOf, NoCall
  <2> QED
    BY <1>1, <1>8, <1>9, <2>1, <1>2, Zenon DEF Own, Locking, Calling
<1> QED
  BY <1>2, <1>7, <1>10, InsideStep

(* bunpin(): the write has ended, so the disk has what was pinned.         *)
LEMMA UnpinStep ==
  ASSUME CInv, NEW p \in Procs, bunpin(p)
  PROVE  CInv' /\ SameRefs
<1>a. CacheAssumption /\ CacheType /\ OneBuffer
  BY DEF CInv
<1>b. NONE \notin Blocks /\ NONE \notin Bufs /\ NONE \notin Procs
  BY <1>a DEF CacheAssumption, Bufs
<1> USE <1>a, <1>b
<1>1. PICK b \in Bufs : proc[p].b = b /\ proc[p].at = "install" /\ call[b].at = "done"
  BY InUse DEF OneBuffer, bunpin, End, Held
<1>2. Own(p, b) /\ \A q \in Procs : q # p /\ proc[q].b = b => proc[q].at \notin Locking
  BY <1>1, OwnNow DEF Locking
<1>3. /\ proc' \in [Procs -> [at : Ats, b : Bufs \cup {NONE}]]
      /\ proc'[p].at = "written" /\ proc'[p].b = b
      /\ \A q \in Procs : q # p => proc'[q] = proc[q]
  BY <1>1 DEF bunpin, Goto, CacheType, Ats
<1>4. /\ buf' \in [Bufs -> BufType]
      /\ buf'[b].blockno = buf[b].blockno /\ buf'[b].valid = buf[b].valid
      /\ buf'[b].lock = buf[b].lock /\ buf'[b].data = buf[b].data
      /\ buf'[b].refcnt = buf[b].refcnt - 1
      /\ \A c \in Bufs : c # b => buf'[c] = buf[c]
  <2> DEFINE n == buf[b].refcnt - 1
             r == [buf[b] EXCEPT !.refcnt = n]
  <2>1. n \in Int /\ buf[b] \in BufType
    BY <1>1 DEF CacheType, BufType
  <2>2. buf' = [buf EXCEPT ![b] = r]
    BY <1>1 DEF bunpin
  <2> HIDE DEF n
  <2>3. /\ r \in BufType /\ r.blockno = buf[b].blockno /\ r.valid = buf[b].valid
        /\ r.lock = buf[b].lock /\ r.data = buf[b].data /\ r.refcnt = n
    BY <2>1, SetRef
  <2> HIDE DEF r
  <2>5. buf'[b] = r /\ buf' \in [Bufs -> BufType] /\ \A c \in Bufs : c # b => buf'[c] = buf[c]
    BY <1>1, <2>2, <2>3 DEF CacheType
  <2> QED
    BY <2>3, <2>5 DEF n
<1>5. /\ call' \in [Bufs -> CallType]
      /\ call'[b] = NoCall
      /\ \A c \in Bufs : c # b => call'[c] = call[c]
  BY <1>1, <1>2 DEF bunpin, End, CacheType, CallType, BufType, NoCall, Own
<1>6. /\ sectors' = sectors /\ latest' = latest
      /\ logged' = NONE /\ panic' = panic /\ lru' = lru
  BY <1>1, Zenon DEF bunpin, End
<1> DEFINE k == buf[b].blockno
<1>8. /\ k \in Blocks /\ buf[b].lock = p /\ buf[b].valid = 1 /\ buf[b].data = latest[k]
      /\ sectors[k] = latest[k] /\ logged = k
  BY <1>1, <1>2, Zenon DEF Own, CallOf, Locking, Calling
<1>7. Inside(p, b)
  BY <1>1, <1>3, <1>4, <1>5, <1>6, <1>8, Zenon DEF Inside
<1>9. /\ proc'[p].at = "written" /\ proc'[p].b = b /\ buf'[b].blockno = k
      /\ buf'[b].lock = buf[b].lock /\ buf'[b].valid = buf[b].valid /\ buf'[b].data = buf[b].data
      /\ call'[b] = NoCall
      /\ latest'[k] = latest[k] /\ sectors' = sectors /\ logged' = NONE
  BY <1>3, <1>4, <1>5, <1>6, <1>8, Zenon DEF CacheType
<1>10. Own(p, b)'
  BY <1>1, <1>8, <1>9, Zenon DEF Own, Locking, Calling
<1> QED
  BY <1>2, <1>7, <1>10, InsideStep

(* The end of bread()'s call: the buffer has the disk's contents, which    *)
(* are current.                                                            *)
LEMMA ReadEndsStep ==
  ASSUME CInv, NEW p \in Procs, ReadEnds(p)
  PROVE  CInv' /\ SameRefs
<1>a. CacheAssumption /\ CacheType /\ OneBuffer
  BY DEF CInv
<1>b. NONE \notin Blocks /\ NONE \notin Bufs /\ NONE \notin Procs
  BY <1>a DEF CacheAssumption, Bufs
<1> USE <1>a, <1>b
<1>1. PICK b \in Bufs : proc[p].b = b /\ proc[p].at = "read" /\ call[b].at = "done"
  BY InUse, Zenon DEF OneBuffer, ReadEnds, End, Held
<1>2. Own(p, b) /\ \A q \in Procs : q # p /\ proc[q].b = b => proc[q].at \notin Locking
  BY <1>1, OwnNow DEF Locking
<1>3. /\ proc' \in [Procs -> [at : Ats, b : Bufs \cup {NONE}]]
      /\ proc'[p].at = "have" /\ proc'[p].b = b
      /\ \A q \in Procs : q # p => proc'[q] = proc[q]
  BY <1>1, Zenon DEF ReadEnds, Goto, CacheType, Ats
<1>4. /\ buf' \in [Bufs -> BufType]
      /\ buf'[b].blockno = buf[b].blockno /\ buf'[b].valid = 1
      /\ buf'[b].lock = buf[b].lock /\ buf'[b].data = call[b].data
      /\ buf'[b].refcnt = buf[b].refcnt
      /\ \A c \in Bufs : c # b => buf'[c] = buf[c]
  <2>1. buf' = [buf EXCEPT ![b].data = call[b].data, ![b].valid = 1]
    BY <1>1, Zenon DEF ReadEnds
  <2>2. call[b].data \in Vals \cup {NONE}
    BY <1>1 DEF CacheType, CallType, NoCall
  <2> DEFINE r == [buf[b] EXCEPT !.data = call[b].data]
             s == [r EXCEPT !.valid = 1]
  <2>3. /\ r \in BufType /\ r.blockno = buf[b].blockno /\ r.lock = buf[b].lock
        /\ r.data = call[b].data /\ r.refcnt = buf[b].refcnt
    <3>1. buf[b] \in BufType
      BY <1>1 DEF CacheType
    <3> QED
      BY <2>2, <3>1, SetData
  <2>4. buf' = [buf EXCEPT ![b] = s]
    BY <2>1, Zenon
  <2> HIDE DEF r
  <2>5. /\ s \in BufType /\ s.blockno = r.blockno /\ s.valid = 1
        /\ s.lock = r.lock /\ s.data = r.data /\ s.refcnt = r.refcnt
    BY <1>1, <2>3, Zenon DEF BufType
  <2> HIDE DEF s
  <2>6. buf'[b] = s /\ buf' \in [Bufs -> BufType] /\ \A c \in Bufs : c # b => buf'[c] = buf[c]
    BY <1>1, <2>4, <2>5 DEF CacheType
  <2> QED
    BY <2>3, <2>5, <2>6
<1>5. /\ call' \in [Bufs -> CallType]
      /\ call'[b] = NoCall
      /\ \A c \in Bufs : c # b => call'[c] = call[c]
  BY <1>1, <1>2 DEF ReadEnds, End, CacheType, CallType, BufType, NoCall, Own
<1>6. /\ sectors' = sectors /\ latest' = latest
      /\ logged' = logged /\ panic' = panic /\ lru' = lru
  BY <1>1, Zenon DEF ReadEnds, End
<1>7. Inside(p, b)
  BY <1>1, <1>3, <1>4, <1>5, <1>6, Zenon DEF Inside
<1> DEFINE k == buf[b].blockno
<1>8. /\ k \in Blocks /\ buf[b].lock = p /\ call[b].data = latest[k]
      /\ sectors[k] # latest[k] => logged = k
  BY <1>1, <1>2, Zenon DEF Own, CallOf, Locking, Calling
<1>9. /\ proc'[p].at = "have" /\ proc'[p].b = b /\ buf'[b].blockno = k
      /\ buf'[b].lock = buf[b].lock /\ buf'[b].valid = 1 /\ buf'[b].data = call[b].data
      /\ call'[b] = NoCall
      /\ latest'[k] = latest[k] /\ sectors' = sectors /\ logged' = logged
  BY <1>3, <1>4, <1>5, <1>6, <1>8, Zenon DEF CacheType
<1>10. Own(p, b)'
  BY <1>1, <1>8, <1>9, Zenon DEF Own, CallOf, Locking, Calling, NoCall
<1> QED
  BY <1>2, <1>7, <1>10, InsideStep

(* The end of bwrite()'s call: the disk is current.                        *)
LEMMA WriteEndsStep ==
  ASSUME CInv, NEW p \in Procs, WriteEnds(p)
  PROVE  CInv' /\ SameRefs
<1>a. CacheAssumption /\ CacheType /\ OneBuffer
  BY DEF CInv
<1>b. NONE \notin Blocks /\ NONE \notin Bufs /\ NONE \notin Procs
  BY <1>a DEF CacheAssumption, Bufs
<1> USE <1>a, <1>b
<1>1. PICK b \in Bufs : proc[p].b = b /\ proc[p].at = "write" /\ call[b].at = "done"
  BY InUse, Zenon DEF OneBuffer, WriteEnds, End, Held
<1>2. Own(p, b) /\ \A q \in Procs : q # p /\ proc[q].b = b => proc[q].at \notin Locking
  BY <1>1, OwnNow, Zenon DEF Locking
<1>3. /\ proc' \in [Procs -> [at : Ats, b : Bufs \cup {NONE}]]
      /\ proc'[p].at = "written" /\ proc'[p].b = b
      /\ \A q \in Procs : q # p => proc'[q] = proc[q]
  BY <1>1, Zenon DEF WriteEnds, Goto, CacheType, Ats
<1>4. /\ buf' \in [Bufs -> BufType]
      /\ buf'[b].blockno = buf[b].blockno /\ buf'[b].valid = buf[b].valid
      /\ buf'[b].lock = buf[b].lock /\ buf'[b].data = buf[b].data
      /\ buf'[b].refcnt = buf[b].refcnt
      /\ \A c \in Bufs : c # b => buf'[c] = buf[c]
  BY <1>1, Zenon DEF WriteEnds, CacheType
<1>5. /\ call' \in [Bufs -> CallType]
      /\ call'[b] = NoCall
      /\ \A c \in Bufs : c # b => call'[c] = call[c]
  BY <1>1, <1>2, Zenon DEF WriteEnds, End, CacheType, CallType, BufType, NoCall, Own
<1>6. /\ sectors' = sectors /\ latest' = latest
      /\ logged' = logged /\ panic' = panic /\ lru' = lru
  BY <1>1, Zenon DEF WriteEnds, End
<1>7. Inside(p, b)
  BY <1>1, <1>3, <1>4, <1>5, <1>6, Zenon DEF Inside
<1> DEFINE k == buf[b].blockno
<1>8. /\ k \in Blocks /\ buf[b].lock = p /\ buf[b].valid = 1 /\ buf[b].data = latest[k]
      /\ sectors[k] = latest[k]
  BY <1>1, <1>2, Zenon DEF Own, CallOf, Locking, Calling
<1>9. /\ proc'[p].at = "written" /\ proc'[p].b = b /\ buf'[b].blockno = k
      /\ buf'[b].lock = buf[b].lock /\ buf'[b].valid = buf[b].valid /\ buf'[b].data = buf[b].data
      /\ call'[b] = NoCall
      /\ latest'[k] = latest[k] /\ sectors' = sectors /\ logged' = logged
  BY <1>3, <1>4, <1>5, <1>6, <1>8, Zenon DEF CacheType
<1>10. Own(p, b)'
  BY <1>1, <1>8, <1>9, Zenon DEF Own, Locking, Calling
<1> QED
  BY <1>2, <1>7, <1>10, InsideStep

(* bget() returns a valid buffer, locked.                                  *)
LEMMA LockStep ==
  ASSUME CInv, NEW p \in Procs, Lock(p), buf[proc[p].b].valid = 1
  PROVE  CInv' /\ SameRefs
<1>a. CacheAssumption /\ CacheType /\ OneBuffer
  BY DEF CInv
<1>b. NONE \notin Blocks /\ NONE \notin Bufs /\ NONE \notin Procs
  BY <1>a DEF CacheAssumption, Bufs
<1> USE <1>a, <1>b
<1>1. PICK b \in Bufs : proc[p].b = b /\ proc[p].at = "lock" /\ buf[b].lock = NONE /\ buf[b].valid = 1
  BY InUse, Zenon DEF OneBuffer, Lock, Held
<1>2. Own(p, b) /\ \A q \in Procs : q # p /\ proc[q].b = b => proc[q].at \notin Locking
  BY <1>1, OwnNow DEF Locking
<1>3. /\ proc' \in [Procs -> [at : Ats, b : Bufs \cup {NONE}]]
      /\ proc'[p].at = "have" /\ proc'[p].b = b
      /\ \A q \in Procs : q # p => proc'[q] = proc[q]
  BY <1>1 DEF Lock, Goto, CacheType, Ats
<1>4. /\ buf' \in [Bufs -> BufType]
      /\ buf'[b].blockno = buf[b].blockno /\ buf'[b].valid = buf[b].valid
      /\ buf'[b].lock = p /\ buf'[b].data = buf[b].data
      /\ buf'[b].refcnt = buf[b].refcnt
      /\ \A c \in Bufs : c # b => buf'[c] = buf[c]
  <2> DEFINE r == [buf[b] EXCEPT !.lock = p]
  <2>1. buf' = [buf EXCEPT ![b] = r]
    BY <1>1, Zenon DEF Lock
  <2>2. buf[b] \in BufType
    BY <1>1 DEF CacheType
  <2>3. /\ r \in BufType /\ r.blockno = buf[b].blockno /\ r.valid = buf[b].valid
        /\ r.lock = p /\ r.data = buf[b].data /\ r.refcnt = buf[b].refcnt
    BY <1>1, <2>2, Zenon DEF BufType
  <2> HIDE DEF r
  <2>4. buf'[b] = r /\ buf' \in [Bufs -> BufType] /\ \A c \in Bufs : c # b => buf'[c] = buf[c]
    BY <1>1, <2>1, <2>3 DEF CacheType
  <2> QED
    BY <2>3, <2>4
<1>5. /\ call' \in [Bufs -> CallType]
      /\ call'[b] = call[b]
      /\ \A c \in Bufs : c # b => call'[c] = call[c]
  BY <1>1, <1>2 DEF Lock, CacheType, CallType, BufType, NoCall, Own
<1>6. /\ sectors' = sectors /\ latest' = latest
      /\ logged' = logged /\ panic' = panic /\ lru' = lru
  BY <1>1, Zenon DEF Lock
<1>7. Inside(p, b)
  BY <1>1, <1>3, <1>4, <1>5, <1>6, Zenon DEF Inside
<1> DEFINE k == buf[b].blockno
<1>8. /\ k \in Blocks /\ call[b] = NoCall /\ buf[b].valid = 1 /\ buf[b].data = latest[k]
      /\ sectors[k] # latest[k] => logged = k
  BY <1>1, <1>2, Zenon DEF Own, CallOf, Locking, Calling
<1>9. /\ proc'[p].at = "have" /\ proc'[p].b = b /\ buf'[b].blockno = k
      /\ buf'[b].lock = p /\ buf'[b].valid = buf[b].valid /\ buf'[b].data = buf[b].data
      /\ call'[b] = call[b]
      /\ latest'[k] = latest[k] /\ sectors' = sectors /\ logged' = logged
  BY <1>3, <1>4, <1>5, <1>6, <1>8 DEF CacheType
<1>10. Own(p, b)'
  BY <1>1, <1>8, <1>9, Zenon DEF Own, CallOf, Locking, Calling, NoCall
<1> QED
  BY <1>2, <1>7, <1>10, InsideStep

(* bread() gets a buffer that is not valid, and starts the call that       *)
(* reads it: the disk is current, for the block is not pinned.             *)
LEMMA LockReadStep ==
  ASSUME CInv, NEW p \in Procs, Lock(p), buf[proc[p].b].valid # 1
  PROVE  CInv' /\ SameRefs
<1>a. CacheAssumption /\ CacheType /\ OneBuffer
  BY Zenon DEF CInv
<1>b. NONE \notin Blocks /\ NONE \notin Bufs /\ NONE \notin Procs
  BY <1>a DEF CacheAssumption, Bufs
<1> USE <1>a, <1>b
<1>1. PICK b \in Bufs : proc[p].b = b /\ proc[p].at = "lock" /\ buf[b].lock = NONE /\ buf[b].valid = 0
  BY InUse DEF OneBuffer, Lock, Begin, Held, CacheType, BufType
<1>2. Own(p, b) /\ \A q \in Procs : q # p /\ proc[q].b = b => proc[q].at \notin Locking
  BY <1>1, OwnNow DEF Locking
<1>3. /\ proc' \in [Procs -> [at : Ats, b : Bufs \cup {NONE}]]
      /\ proc'[p].at = "read" /\ proc'[p].b = b
      /\ \A q \in Procs : q # p => proc'[q] = proc[q]
  BY <1>1 DEF Lock, Goto, CacheType, Ats
<1>4. /\ buf' \in [Bufs -> BufType]
      /\ buf'[b].blockno = buf[b].blockno /\ buf'[b].valid = buf[b].valid
      /\ buf'[b].lock = p /\ buf'[b].data = buf[b].data
      /\ buf'[b].refcnt = buf[b].refcnt
      /\ \A c \in Bufs : c # b => buf'[c] = buf[c]
  <2> DEFINE r == [buf[b] EXCEPT !.lock = p]
  <2>1. buf' = [buf EXCEPT ![b] = r]
    BY <1>1, Zenon DEF Lock
  <2>2. buf[b] \in BufType
    BY <1>1 DEF CacheType
  <2>3. /\ r \in BufType /\ r.blockno = buf[b].blockno /\ r.valid = buf[b].valid
        /\ r.lock = p /\ r.data = buf[b].data /\ r.refcnt = buf[b].refcnt
    BY <1>1, <2>2, Zenon DEF BufType
  <2> HIDE DEF r
  <2>4. buf'[b] = r /\ buf' \in [Bufs -> BufType] /\ \A c \in Bufs : c # b => buf'[c] = buf[c]
    BY <1>1, <2>1, <2>3, Zenon DEF CacheType
  <2> QED
    BY <2>3, <2>4
<1>5. /\ call' \in [Bufs -> CallType]
      /\ call'[b] = [at |-> "begun", blockno |-> buf[b].blockno, write |-> 0, data |-> NONE]
      /\ \A c \in Bufs : c # b => call'[c] = call[c]
  <2> DEFINE r == [at |-> "begun", blockno |-> buf[b].blockno, write |-> 0, data |-> NONE]
  <2>1. call' = [call EXCEPT ![b] = r]
    BY <1>1, <1>2, Zenon DEF Lock, Begin
  <2>2. r \in CallType
    BY <1>1, <1>2, Zenon DEF CallType, Own
  <2> HIDE DEF r
  <2>3. call' \in [Bufs -> CallType] /\ call'[b] = r /\ \A c \in Bufs : c # b => call'[c] = call[c]
    BY <1>1, <1>2, <2>1, <2>2 DEF CacheType
  <2> QED
    BY <2>3 DEF r
<1>6. /\ sectors' = sectors /\ latest' = latest
      /\ logged' = logged /\ panic' = panic /\ lru' = lru
  BY <1>1, Zenon DEF Lock, Begin
<1>7. Inside(p, b)
  BY <1>1, <1>3, <1>4, <1>5, <1>6, Zenon DEF Inside
<1> DEFINE k == buf[b].blockno
<1>8. /\ k \in Blocks /\ sectors[k] = latest[k] /\ logged # k
  BY <1>1, <1>2, Zenon DEF Own, CallOf, Locking, Calling
<1>9. /\ proc'[p].at = "read" /\ proc'[p].b = b /\ buf'[b].blockno = k
      /\ buf'[b].lock = p /\ buf'[b].valid = buf[b].valid /\ buf'[b].data = buf[b].data
      /\ call'[b] = [at |-> "begun", blockno |-> k, write |-> 0, data |-> NONE]
      /\ latest'[k] = latest[k] /\ sectors' = sectors /\ logged' = logged
  BY <1>3, <1>4, <1>5, <1>6, <1>8, Zenon DEF CacheType
<1>10. Own(p, b)'
  <2>1. call'[b] # NoCall /\ CallOf(p)'
    BY <1>1, <1>8, <1>9 DEF CallOf, NoCall
  <2> QED
    BY <1>1, <1>8, <1>9, <2>1, Zenon DEF Own, Locking, Calling
<1> QED
  BY <1>2, <1>7, <1>10, InsideStep

(* The disk serves a call: its sector and the call agree with latest.      *)
LEMMA DiskStep ==
  ASSUME CInv, NEW b \in Bufs, Disk(b)
  PROVE  CInv' /\ SameRefs
<1>a. CacheAssumption /\ CacheType /\ OneBuffer
  BY DEF CInv
<1>b. NONE \notin Blocks /\ NONE \notin Bufs /\ NONE \notin Procs
  BY <1>a DEF CacheAssumption, Bufs
<1> USE <1>a, <1>b
<1>1. PICK p \in Procs : proc[p].b = b /\ proc[p].at \in Calling
  BY DEF Disk, Transfer, NoCall, CInv, CallsOwned
<1>2. Own(p, b) /\ \A q \in Procs : q # p /\ proc[q].b = b => proc[q].at \notin Locking
  BY <1>1, OwnNow DEF Locking, Calling
<1> DEFINE k == buf[b].blockno
           w == proc[p].at # "read"
<1>3. /\ k \in Blocks /\ call[b].blockno = k /\ call[b].at = "begun"
      /\ call[b].write = IF w THEN 1 ELSE 0
      /\ w => call[b].data = latest[k]
      /\ ~w => sectors[k] = latest[k]
  BY <1>1, <1>2 DEF Disk, Transfer, Own, CallOf, Locking, Calling
<1>4. UNCHANGED <<buf, lru, proc, logged, panic, latest>>
  BY DEF Disk
<1>5. sectors' \in [Blocks -> Vals] /\ sectors' = [sectors EXCEPT ![k] = latest[k]]
  BY <1>3 DEF Disk, Transfer, CacheType
<1>6. /\ call' \in [Bufs -> CallType]
      /\ call'[b] # NoCall /\ call'[b].at = "done" /\ call'[b].blockno = k
      /\ call'[b].write = call[b].write /\ call'[b].data = latest[k]
      /\ \A c \in Bufs : c # b => call'[c] = call[c]
  <2> DEFINE r == [at |-> "done", blockno |-> k, write |-> call[b].write, data |-> latest[k]]
  <2>1. call[b] \in [at : {"begun", "done"}, blockno : Blocks, write : {0, 1},
                     data : Vals \cup {NONE}]
    BY <1>3 DEF CacheType, CallType, NoCall
  <2>2. call' = [call EXCEPT ![b] = r]
    BY <1>3, <2>1 DEF Disk, Transfer, CacheType
  <2>3. r \in CallType /\ r # NoCall
    BY <1>3, <2>1, Zenon DEF CallType, CacheType, NoCall
  <2>4. call'[b] = r /\ call' \in [Bufs -> CallType] /\ \A c \in Bufs : c # b => call'[c] = call[c]
    BY <2>2, <2>3, Zenon DEF CacheType
  <2> QED
    BY <2>3, <2>4
<1>7. CacheType'
  BY <1>4, <1>5, <1>6, Zenon DEF CacheType
<1>8. Only(p, b)
  BY <1>1, <1>2, <1>3, <1>4, <1>5, <1>6 DEF Only, Own, OneBuffer, CacheType
<1>9. Own(p, b)'
  <2>1. sectors'[k] = latest[k]
    BY <1>3, <1>5, Zenon DEF CacheType
  <2> QED
    BY <1>1, <1>2, <1>3, <1>4, <1>6, <2>1, Zenon DEF Own, CallOf, Locking, Calling
<1>10. SameRefs
  BY <1>4 DEF SameRefs, Pin, CacheType, BufType
<1> QED
  BY <1>7, <1>8, <1>9, <1>10, OwnStep

-----------------------------------------------------------------------------
(* References are counted with the library's facts on finite sets.         *)
INSTANCE FiniteSetTheorems

(* The users of a buffer can be counted.                                   *)
LEMMA UsersFinite ==
  ASSUME CacheAssumption, NEW b
  PROVE  IsFiniteSet(Users(b)) /\ Cardinality(Users(b)) \in Nat
<1>1. IsFiniteSet(Procs) /\ Users(b) \in SUBSET Procs
  BY DEF CacheAssumption, Users
<1>2. IsFiniteSet(Users(b))
  BY <1>1, FS_Subset, Zenon
<1>3. Cardinality(Users(b)) \in Nat
  BY <1>2, FS_CardinalityType, Zenon
<1> QED
  BY <1>2, <1>3, Zenon

(* RefsCounted, in terms of Users and Pin.                                 *)
LEMMA RefIs ==
  ASSUME RefsCounted, NEW b \in Bufs
  PROVE  buf[b].refcnt = Cardinality(Users(b)) + Pin(b)
BY Zenon DEF RefsCounted, Users, Pin

(* A step that leaves every process its buffer changes refcnt by what the  *)
(* pin changes.                                                            *)
LEMMA SameUsers ==
  ASSUME CacheAssumption, RefsCounted, SameRefs
  PROVE  RefsCounted'
<1>1. ASSUME NEW c \in Bufs PROVE buf'[c].refcnt = Cardinality(Users(c))' + Pin(c)'
  <2>1. Users(c)' = Users(c)
    BY Zenon DEF Users, SameRefs
  <2>2. Pin(c) \in Int /\ Pin(c)' \in Int /\ Cardinality(Users(c)) \in Int
    BY UsersFinite DEF Pin
  <2>3. buf[c].refcnt = Cardinality(Users(c)) + Pin(c)
    BY RefIs
  <2>4. Cardinality(Users(c))' = Cardinality(Users(c))
    BY <2>1, Zenon
  <2>5. buf'[c].refcnt = buf[c].refcnt + Pin(c)' - Pin(c)
    BY Zenon DEF SameRefs
  <2> HIDE DEF Pin, Users
  <2> QED
    BY <2>2, <2>3, <2>4, <2>5
<1>2. ~panic'
  BY Zenon DEF RefsCounted, SameRefs
<1> QED
  BY <1>1, <1>2, Zenon DEF RefsCounted, Users, Pin, Bufs

(* With more buffers than processes, a process without a buffer finds one  *)
(* without references: at most one buffer is pinned, and each of the       *)
(* others in use has a user of its own.                                    *)
LEMMA BufferFound ==
  ASSUME CInv, RefsCounted, NEW p \in Procs, proc[p].b = NONE
  PROVE  \E b \in Bufs : buf[b].refcnt = 0
<1> SUFFICES ASSUME \A b \in Bufs : buf[b].refcnt # 0 PROVE FALSE
  OBVIOUS
<1>a. CacheAssumption /\ OneBuffer /\ CacheType
  BY Zenon DEF CInv
<1>1. PICK x : \A b \in Bufs : b # x => Pin(b) = 0
  <2>1. CASE \E x \in Bufs : Pin(x) # 0
    BY <1>a, <2>1 DEF OneBuffer, Pin
  <2>2. CASE \A x \in Bufs : Pin(x) = 0
    BY <2>2, Zenon
  <2> QED
    BY <2>1, <2>2, Zenon
<1> DEFINE T == Bufs \ {x}
           U == {q \in Procs \ {p} : proc[q].b \in T}
           f == [q \in U |-> proc[q].b]
<1>2. f \in Surjection(U, T)
  <2>1. ASSUME NEW b \in T PROVE \E q \in U : f[q] = b
    <3>1. Cardinality(Users(b)) # 0
      BY <1>1, <1>a, RefIs, UsersFinite
    <3>2. Users(b) # {}
      BY <3>1, FS_EmptySet, Zenon
    <3>3. PICK q \in Procs : proc[q].b = b
      BY <3>2, Zenon DEF Users
    <3>4. q # p
      BY <1>a, <3>3, Zenon DEF CacheAssumption, Bufs
    <3> QED
      BY <3>3, <3>4, Zenon
  <2> QED
    BY <2>1, Zenon DEF Surjection
<1>3. IsFiniteSet(Procs \ {p}) /\ Cardinality(Procs \ {p}) = Cardinality(Procs) - 1
  BY <1>a, FS_RemoveElement, Zenon DEF CacheAssumption
<1>4. IsFiniteSet(U) /\ Cardinality(U) <= Cardinality(Procs) - 1
  BY <1>3, FS_Subset, Zenon
<1>5. IsFiniteSet(Bufs) /\ Cardinality(Bufs) = NBUF
  <2>1. NBUF \in Nat
    BY <1>a, Zenon DEF CacheAssumption
  <2> QED
    BY <2>1, FS_Interval DEF Bufs
<1>6. IsFiniteSet(T) /\ Cardinality(T) >= NBUF - 1
  <2>1. NBUF \in Nat
    BY <1>a DEF CacheAssumption
  <2> QED
    BY <1>5, <2>1, FS_RemoveElement
<1>7. Cardinality(T) <= Cardinality(U)
  BY <1>2, <1>4, FS_Surjection, Zenon
<1>8. Cardinality(T) \in Nat /\ Cardinality(U) \in Nat /\ Cardinality(Procs) \in Nat /\ NBUF \in Nat
  BY <1>4, <1>6, <1>a, FS_CardinalityType, Zenon DEF CacheAssumption
<1> QED
  BY <1>4, <1>6, <1>7, <1>8, <1>a DEF CacheAssumption

(* The inductive invariant.                                                *)
CacheInv == CInv /\ RefsCounted

(* The last part of brelse(): a user less and a reference less.            *)
LEMMA DropStep ==
  ASSUME CacheInv, NEW p \in Procs, Drop(p)
  PROVE  CacheInv'
<1>a. CInv /\ RefsCounted /\ CacheAssumption /\ CacheType /\ OneBuffer
  BY Zenon DEF CacheInv, CInv
<1>b. NONE \notin Blocks /\ NONE \notin Bufs /\ NONE \notin Procs
  BY <1>a, Zenon DEF CacheAssumption, Bufs
<1> USE <1>a, <1>b
<1>1. PICK b \in Bufs : proc[p].b = b /\ proc[p].at = "release" /\ buf[b].blockno # NONE
  BY InUse, Zenon DEF OneBuffer, Drop, Held
<1>2. /\ proc' \in [Procs -> [at : Ats, b : Bufs \cup {NONE}]]
      /\ proc'[p].at = "idle" /\ proc'[p].b = NONE
      /\ \A q \in Procs : q # p => proc'[q] = proc[q]
  BY Zenon DEF Drop, Goto, CacheType, Ats
<1>3. /\ buf' \in [Bufs -> BufType]
      /\ \A c \in Bufs : /\ buf'[c].blockno = buf[c].blockno /\ buf'[c].valid = buf[c].valid
                           /\ buf'[c].lock = buf[c].lock /\ buf'[c].data = buf[c].data
      /\ buf'[b].refcnt = buf[b].refcnt - 1
      /\ \A c \in Bufs : c # b => buf'[c].refcnt = buf[c].refcnt
  <2> DEFINE n == buf[b].refcnt - 1
             r == [buf[b] EXCEPT !.refcnt = n]
  <2>1. n \in Int /\ buf[b] \in BufType
    BY DEF CacheType, BufType
  <2>2. buf' = [buf EXCEPT ![b] = r]
    BY <1>1 DEF Drop
  <2> HIDE DEF n
  <2>3. /\ r \in BufType /\ r.blockno = buf[b].blockno /\ r.valid = buf[b].valid
        /\ r.lock = buf[b].lock /\ r.data = buf[b].data /\ r.refcnt = n
    BY <2>1, SetRef
  <2> HIDE DEF r
  <2>4. buf'[b] = r /\ buf' \in [Bufs -> BufType] /\ \A c \in Bufs : c # b => buf'[c] = buf[c]
    BY <2>2, <2>3, Zenon DEF CacheType
  <2> QED
    BY <2>3, <2>4, Zenon DEF n
<1>4. UNCHANGED <<sectors, call, logged, panic, latest>>
  BY DEF Drop
<1>5. lru' \in [Bufs -> Bufs]
  <2>1. ToFront(b) \in [Bufs -> Bufs]
    <3> DEFINE at == CHOOSE i \in Bufs : lru[i] = b
    <3>1. ToFront(b) =
            [i \in Bufs |-> IF i = 1 THEN b ELSE IF i <= at THEN lru[i - 1] ELSE lru[i]]
      BY Zenon DEF ToFront
    <3>2. \A i \in Bufs : lru[i] \in Bufs /\ (i # 1 => lru[i - 1] \in Bufs)
      BY DEF CacheType, CacheAssumption, Bufs
    <3> HIDE DEF at
    <3> QED
      BY <3>1, <3>2, Zenon
  <2> QED
    BY <1>1, <2>1, Zenon DEF Drop, CacheType
<1>6. CacheType'
  BY <1>2, <1>3, <1>4, <1>5, Zenon DEF CacheType
<1>7. CInv'
  BY <1>1, <1>2, <1>3, <1>4, <1>6, QuietStep, Zenon DEF Locking
<1>8. ASSUME NEW c \in Bufs PROVE buf'[c].refcnt = Cardinality(Users(c))' + Pin(c)'
  <2>1. Pin(c)' = Pin(c) /\ Pin(c) \in Int
    BY <1>3, <1>4 DEF Pin
  <2>2. CASE c = b
    <3>1. Users(c)' = Users(c) \ {p} /\ p \in Users(c)
      BY <1>1, <1>2, <2>2, Zenon DEF Users
    <3>2. Cardinality(Users(c) \ {p}) = Cardinality(Users(c)) - 1
      <4>1. Cardinality(Users(c) \ {p})
              = IF p \in Users(c) THEN Cardinality(Users(c)) - 1 ELSE Cardinality(Users(c))
        BY UsersFinite, FS_RemoveElement, Zenon
      <4> QED
        BY <3>1, <4>1, Zenon
    <3> QED
      BY <1>3, <2>1, <2>2, <3>1, <3>2, RefIs, UsersFinite
  <2>3. CASE c # b
    <3>1. Users(c)' = Users(c)
      BY <1>1, <1>2, <2>3 DEF Users
    <3> QED
      BY <1>3, <2>1, <2>3, <3>1, RefIs
  <2> QED
    BY <2>2, <2>3, Zenon
<1>9. ~panic'
  BY <1>4 DEF RefsCounted
<1> QED
  BY <1>7, <1>8, <1>9, Zenon DEF CacheInv, RefsCounted, Users, Pin, Bufs

(* bget() takes a reference to the cached block, or recycles a buffer that *)
(* nobody uses and that is not pinned; the panic is not reached.           *)
LEMMA BgetStep ==
  ASSUME CacheInv, NEW p \in Procs, NEW k \in Blocks, bget(p, k)
  PROVE  CacheInv'
<1>a. CInv /\ RefsCounted /\ CacheAssumption /\ CacheType /\ OneBuffer
  BY DEF CacheInv, CInv
<1>b. NONE \notin Blocks /\ NONE \notin Bufs /\ NONE \notin Procs
  BY <1>a DEF CacheAssumption, Bufs
<1> USE <1>a, <1>b
<1> DEFINE cached == {b \in Bufs : buf[b].blockno = k}
<1>1. /\ proc[p].at = "idle" /\ proc[p].b = NONE /\ k # NONE
      /\ UNCHANGED <<sectors, call, lru, logged, latest>>
  BY Zenon DEF bget, Held, OneBuffer
<1>2. ASSUME NEW b \in cached, buf' = [buf EXCEPT ![b].refcnt = @ + 1], Goto(p, "lock", b),
             UNCHANGED panic
      PROVE  CacheInv'
  <2>1. /\ proc' \in [Procs -> [at : Ats, b : Bufs \cup {NONE}]]
        /\ proc'[p].at = "lock" /\ proc'[p].b = b
        /\ \A q \in Procs : q # p => proc'[q] = proc[q]
    BY <1>2 DEF Goto, CacheType, Ats
  <2>2. /\ buf' \in [Bufs -> BufType]
        /\ \A c \in Bufs : /\ buf'[c].blockno = buf[c].blockno /\ buf'[c].valid = buf[c].valid
                             /\ buf'[c].lock = buf[c].lock /\ buf'[c].data = buf[c].data
        /\ buf'[b].refcnt = buf[b].refcnt + 1
        /\ \A c \in Bufs : c # b => buf'[c].refcnt = buf[c].refcnt
    <3> DEFINE n == buf[b].refcnt + 1
               r == [buf[b] EXCEPT !.refcnt = n]
    <3>1. n \in Int /\ buf[b] \in BufType
      BY DEF CacheType, BufType
    <3>2. buf' = [buf EXCEPT ![b] = r]
      BY <1>2
    <3> HIDE DEF n
    <3>3. /\ r \in BufType /\ r.blockno = buf[b].blockno /\ r.valid = buf[b].valid
          /\ r.lock = buf[b].lock /\ r.data = buf[b].data /\ r.refcnt = n
      BY <3>1, SetRef
    <3> HIDE DEF r
    <3>4. buf'[b] = r /\ buf' \in [Bufs -> BufType] /\ \A c \in Bufs : c # b => buf'[c] = buf[c]
      BY <3>2, <3>3, Zenon DEF CacheType
    <3> QED
      BY <3>3, <3>4 DEF n
  <2>3. CacheType'
    BY <1>1, <1>2, <2>1, <2>2, Zenon DEF CacheType
  <2>4. CInv'
    BY <1>1, <2>1, <2>2, <2>3, QuietStep, Zenon DEF Locking
  <2>5. ASSUME NEW c \in Bufs PROVE buf'[c].refcnt = Cardinality(Users(c))' + Pin(c)'
    <3>1. Pin(c)' = Pin(c) /\ Pin(c) \in Int
      BY <1>1, <2>2 DEF Pin
    <3>2. CASE c = b
      <4>1. Users(c)' = Users(c) \cup {p} /\ p \notin Users(c)
        BY <1>1, <2>1, <3>2, Zenon DEF Users
      <4>2. Cardinality(Users(c) \cup {p}) = Cardinality(Users(c)) + 1
        BY <4>1, UsersFinite, FS_AddElement, Zenon
      <4> QED
        BY <2>2, <3>1, <3>2, <4>1, <4>2, RefIs, UsersFinite
    <3>3. CASE c # b
      <4>1. Users(c)' = Users(c)
        BY <1>1, <2>1, <3>3, Zenon DEF Users
      <4> QED
        BY <2>2, <3>1, <3>3, <4>1, RefIs, Zenon
    <3> QED
      BY <3>2, <3>3, Zenon
  <2>6. ~panic'
    BY <1>2 DEF RefsCounted
  <2> QED
    BY <2>4, <2>5, <2>6 DEF CacheInv, RefsCounted, Users, Pin, Bufs
<1>3. ASSUME NEW b \in Bufs, cached = {}, LastUnused(b), Goto(p, "lock", b), UNCHANGED panic,
             buf' = [buf EXCEPT ![b].blockno = k, ![b].valid = 0, ![b].refcnt = 1]
      PROVE  CacheInv'
  <2>1. \A c \in Bufs : buf[c].blockno # k
    BY <1>3, Zenon
  <2>2. Users(b) = {} /\ Pin(b) = 0
    <3>1. Cardinality(Users(b)) + Pin(b) = 0
      BY <1>3, RefIs, Zenon DEF LastUnused, Unused
    <3>2. Cardinality(Users(b)) \in Nat /\ Pin(b) \in Nat /\ IsFiniteSet(Users(b))
      BY UsersFinite, Zenon DEF Pin
    <3>3. Cardinality(Users(b)) = 0 /\ Pin(b) = 0
      BY <3>1, <3>2
    <3> QED
      BY <3>2, <3>3, FS_EmptySet, Zenon
  <2>3. /\ \A q \in Procs : proc[q].b # b
        /\ logged # NONE => logged # buf[b].blockno
        /\ buf[b].lock = NONE /\ call[b] = NoCall
    <3>1. \A q \in Procs : proc[q].b # b
      BY <2>2, Zenon DEF Users
    <3>2. buf[b].lock \in Procs \cup {NONE}
      BY Zenon DEF CacheType, BufType
    <3> QED
      BY <2>2, <3>1, <3>2 DEF Pin, CInv, Locked, CallsOwned
  <2>4. logged # k /\ sectors[k] = latest[k]
    <3>1. logged # k
      BY <1>1, <2>1, Zenon DEF CInv, DiskCurrent
    <3>2. ASSUME NEW q \in Procs, proc[q].at = "write" PROVE buf[proc[q].b].blockno # k
      BY <2>1, <3>2, InUse, Zenon DEF OneBuffer
    <3> QED
      BY <3>1, <3>2, Zenon DEF CInv, DiskCurrent
  <2>5. /\ proc' \in [Procs -> [at : Ats, b : Bufs \cup {NONE}]]
        /\ proc'[p].at = "lock" /\ proc'[p].b = b
        /\ \A q \in Procs : q # p => proc'[q] = proc[q]
    BY <1>3, Zenon DEF Goto, CacheType, Ats
  <2>6. /\ buf' \in [Bufs -> BufType]
        /\ buf'[b].blockno = k /\ buf'[b].valid = 0 /\ buf'[b].lock = NONE
        /\ buf'[b].refcnt = 1
        /\ \A c \in Bufs : c # b => buf'[c] = buf[c]
    <3> DEFINE r == [buf[b] EXCEPT !.blockno = k]
               s == [r EXCEPT !.valid = 0]
               t == [s EXCEPT !.refcnt = 1]
    <3>1. buf[b] \in BufType
      BY DEF CacheType
    <3>2. buf' = [buf EXCEPT ![b] = t]
      BY <1>3, Zenon
    <3>3. r \in BufType /\ r.blockno = k /\ r.lock = buf[b].lock
      BY <3>1, Zenon DEF BufType
    <3> HIDE DEF r
    <3>4. s \in BufType /\ s.blockno = r.blockno /\ s.valid = 0 /\ s.lock = r.lock
      BY <3>3, Zenon DEF BufType
    <3> HIDE DEF s
    <3>5. /\ t \in BufType /\ t.blockno = s.blockno /\ t.valid = s.valid /\ t.lock = s.lock
          /\ t.refcnt = 1
      BY <3>4, SetRef
    <3> HIDE DEF t
    <3>6. buf'[b] = t /\ buf' \in [Bufs -> BufType] /\ \A c \in Bufs : c # b => buf'[c] = buf[c]
      BY <3>2, <3>5, Zenon DEF CacheType
    <3> QED
      BY <2>3, <3>3, <3>4, <3>5, <3>6, Zenon
  <2>7. CacheType'
    BY <1>1, <1>3, <2>5, <2>6, Zenon DEF CacheType
  <2>8. Only(p, b)
    BY <1>1, <2>1, <2>3, <2>4, <2>5, <2>6, Zenon DEF Only, Locking
  <2>9. Own(p, b)'
    BY <1>1, <2>3, <2>4, <2>5, <2>6 DEF Own, Locking, Calling
  <2>10. ASSUME NEW c \in Bufs PROVE buf'[c].refcnt = Cardinality(Users(c))' + Pin(c)'
    <3>1. CASE c = b
      <4>1. Users(c)' = {p}
        BY <2>3, <2>5, <3>1, Zenon DEF Users
      <4>2. Cardinality(Users(c)') = 1
        BY <4>1, FS_Singleton, Zenon
      <4>3. Pin(c)' = 0
        BY <1>1, <2>4, <2>6, <3>1, Zenon DEF Pin
      <4> QED
        BY <2>6, <3>1, <4>2, <4>3
    <3>2. CASE c # b
      <4>1. Users(c)' = Users(c) /\ Pin(c)' = Pin(c) /\ buf'[c].refcnt = buf[c].refcnt
        BY <1>1, <2>5, <2>6, <3>2 DEF Users, Pin
      <4> QED
        BY <4>1, RefIs, Zenon
    <3> QED
      BY <3>1, <3>2, Zenon
  <2>11. ~panic'
    BY <1>3, Zenon DEF RefsCounted
  <2>12. CInv'
    BY <2>7, <2>8, <2>9, OwnStep, Zenon
  <2> QED
    BY <2>10, <2>11, <2>12, Zenon DEF CacheInv, RefsCounted, Users, Pin, Bufs
<1>4. ~ \A b \in Bufs : ~Unused(b)
  BY <1>1, BufferFound, Zenon DEF Unused
<1> QED
  BY <1>2, <1>3, <1>4, Zenon DEF bget

(* A step that changes nothing keeps the invariant.                        *)
LEMMA StutterStep ==
  ASSUME CacheInv, UNCHANGED vars
  PROVE  CacheInv'
<1>a. CInv /\ RefsCounted /\ CacheAssumption /\ CacheType /\ OneBuffer
  BY DEF CacheInv, CInv
<1>b. NONE \notin Blocks /\ NONE \notin Bufs /\ NONE \notin Procs
  BY <1>a, Zenon DEF CacheAssumption, Bufs
<1> USE <1>a DEF vars, Bufs
<1>1. CacheAssumption' /\ CacheType'
  BY Zenon DEF CacheAssumption, CacheType
<1>2. OneBuffer' /\ Locked'
  BY Zenon DEF CInv, OneBuffer, Locked
<1>3. CallsOwned'
  BY Zenon DEF CInv, CallsOwned, CallOf, NoCall
<1>4. Valid' /\ DiskCurrent'
  BY Zenon DEF CInv, Valid, DiskCurrent
<1>5. RefsCounted'
  BY Zenon DEF RefsCounted
<1> QED
  BY <1>1, <1>2, <1>3, <1>4, <1>5, Zenon DEF CacheInv, CInv

(* Every step of the cache keeps the invariant.                            *)
LEMMA CStep == CacheInv /\ [Next]_vars => CacheInv'
<1> SUFFICES ASSUME CacheInv, [Next]_vars PROVE CacheInv'
  OBVIOUS
<1>a. CInv /\ RefsCounted /\ CacheAssumption
  BY DEF CacheInv, CInv
<1>1. ASSUME CInv' /\ SameRefs PROVE CacheInv'
  BY <1>a, <1>1, SameUsers, Zenon DEF CacheInv
<1>2. ASSUME NEW p \in Procs, Lock(p) PROVE CacheInv'
  BY <1>a, <1>1, <1>2, LockStep, LockReadStep, Zenon
<1>3. ASSUME NEW p \in Procs, ReadEnds(p) \/ WriteEnds(p) PROVE CacheInv'
  BY <1>a, <1>1, <1>3, ReadEndsStep, WriteEndsStep, Zenon
<1>4. ASSUME NEW p \in Procs, install_trans(p) \/ bunpin(p) PROVE CacheInv'
  BY <1>a, <1>1, <1>4, InstallStep, UnpinStep, Zenon
<1>5. ASSUME NEW p \in Procs, brelse(p) \/ Drop(p) PROVE CacheInv'
  BY <1>a, <1>1, <1>5, BrelseStep, DropStep, Zenon
<1>6. ASSUME NEW p \in Procs, NEW v \in Vals, log_write(p, v) \/ bwrite(p, v) PROVE CacheInv'
  BY <1>a, <1>1, <1>6, LogWriteStep, BwriteStep, Zenon
<1>7. ASSUME NEW p \in Procs, NEW k \in Blocks, bget(p, k) PROVE CacheInv'
  BY <1>7, BgetStep, Zenon
<1>8. ASSUME NEW b \in Bufs, Disk(b) PROVE CacheInv'
  BY <1>a, <1>1, <1>8, DiskStep, Zenon
<1>9. CASE Next
  BY <1>2, <1>3, <1>4, <1>5, <1>6, <1>7, <1>8, <1>9, Zenon DEF Next
<1>10. CASE UNCHANGED vars
  BY <1>10, StutterStep, Zenon
<1> QED
  BY <1>9, <1>10, Zenon

(* binit(): no references.                                                 *)
LEMMA RefsInit == CacheAssumption /\ Init => RefsCounted
<1> SUFFICES ASSUME CacheAssumption, Init PROVE RefsCounted
  OBVIOUS
<1>1. ASSUME NEW b \in Bufs PROVE buf[b].refcnt = Cardinality(Users(b)) + Pin(b)
  <2>1. Users(b) = {}
    BY Zenon DEF Users, Init, Bufs, CacheAssumption
  <2> QED
    BY <2>1, FS_EmptySet DEF Pin, Init
<1>2. ~panic
  BY DEF Init
<1> QED
  BY <1>1, <1>2, Zenon DEF RefsCounted, Users, Pin, Bufs

(* The inductive invariant of the buffer cache.                            *)
LEMMA CacheInvariance == CacheAssumption /\ Spec => []CacheInv
<1>1. CacheAssumption /\ Init => CacheInv
  BY CInit, RefsInit, Zenon DEF CacheInv
<1> QED
  BY <1>1, CStep, PTL DEF Spec

(* bio.c: a block has one buffer, and the buffer that bread() returns has  *)
(* what was last put in the block, for any number of buffers, blocks and   *)
(* processes.                                                              *)
THEOREM CoherentHolds == Spec => []Coherent
<1>1. CacheInv => Coherent
  BY InUse, Zenon DEF CacheInv, CInv, OneBuffer, Valid, Coherent, Held, Locking
<1> QED
  BY <1>1, CacheInvariance, CacheLargeEnough, PTL

(* bio.c: b->refcnt counts the buffer's users and its pin, and with more   *)
(* buffers than processes bget() never panics.                             *)
THEOREM RefsCountedHolds == Spec => []RefsCounted
<1>1. CacheInv => RefsCounted
  BY Zenon DEF CacheInv
<1> QED
  BY <1>1, CacheInvariance, CacheLargeEnough, PTL

-----------------------------------------------------------------------------
(* The sleep lock.  The safety invariants are inductive together once it   *)
(* is known that a process between its test of lk->locked and the release  *)
(* of lk->lk in sleep() sees the lock taken, and that the lock is free     *)
(* while wakeup() runs.                                                    *)
(* A process between its test of lk->locked and the release of lk->lk in   *)
(* sleep() has seen the lock taken.                                        *)
WaiterSawLocked == \A p \in Contenders : pc[p] \in {"sleep", "unlock"} => locked

(* wakeup() runs with the lock free.                                       *)
FreeInWakeup == \A p \in Contenders : pc[p] = "wakeup" => ~locked

LockInv ==
    /\ S!TypeOK
    /\ S!SpinLocksBalanced
    /\ S!HolderRecorded
    /\ WaiterSawLocked
    /\ FreeInWakeup
    /\ S!NoLostWakeup

(* The invariant holds when nobody uses the lock.                          *)
LEMMA LockInit == S!Init => LockInv
<1> SUFFICES ASSUME S!Init PROVE LockInv
  OBVIOUS
<1>1. S!TypeOK
  <2>1. locked \in BOOLEAN /\ plock \in [Contenders -> BOOLEAN]
    BY Zenon DEF S!Init
  <2>2. /\ state \in [Contenders -> {"RUNNING", "RUNNABLE", "SLEEPING"}]
        /\ scan \in [Contenders -> SUBSET Contenders] /\ pc \in [Contenders -> S!PCs]
        /\ \A p \in Contenders : scan[p] # {} => pc[p] = "wakeup"
    BY DEF S!Init, S!PCs
  <2> QED
    BY <2>1, <2>2, Zenon DEF S!Init, S!TypeOK
<1>2. /\ lk = NONE /\ ~locked /\ pid = NONE
      /\ \A p \in Contenders : pc[p] = "idle" /\ state[p] = "RUNNING" /\ ~plock[p] /\ p # NONE
  BY LockAssumption, Zenon DEF S!Init
<1>3. S!SpinLocksBalanced
  BY <1>2, Zenon DEF S!SpinLocksBalanced, S!SpinHeldAt
<1> QED
  BY <1>1, <1>2, <1>3, Zenon DEF LockInv, S!HolderRecorded, WaiterSawLocked, FreeInWakeup, S!NoLostWakeup

(* Every step keeps the invariant.  The steps that matter for NoLostWakeup *)
(* are SleepReleases (the lock is taken at that moment), Release (every    *)
(* other process is to be visited) and WakeupVisits (it cannot pass a      *)
(* process that is about to sleep, whose p->lock is held).                 *)
LEMMA LockStepInv == LockInv /\ [S!Next]_(S!vars) => LockInv'
<1> SUFFICES ASSUME LockInv, [S!Next]_(S!vars) PROVE LockInv'
  OBVIOUS
<1> USE LockAssumption DEF LockInv, S!TypeOK, S!SpinLocksBalanced, S!HolderRecorded,
      WaiterSawLocked, FreeInWakeup, S!NoLostWakeup, S!PCs, S!SpinHeldAt, S!Goto
<1>1. ASSUME NEW p \in Contenders, S!Acquire(p) PROVE LockInv'
  BY <1>1 DEF S!Acquire
<1>2. ASSUME NEW p \in Contenders, S!Take(p) PROVE LockInv'
  BY <1>2 DEF S!Take
<1>3. ASSUME NEW p \in Contenders, S!Wait(p) PROVE LockInv'
  BY <1>3, Zenon DEF S!Wait
<1>4. ASSUME NEW p \in Contenders, S!SleepLocksProc(p) PROVE LockInv'
  BY <1>4, Zenon DEF S!SleepLocksProc
<1>5. ASSUME NEW p \in Contenders, S!SleepReleases(p) PROVE LockInv'
  BY <1>5 DEF S!SleepReleases
<1>6. ASSUME NEW p \in Contenders, S!SleepParks(p) PROVE LockInv'
  BY <1>6 DEF S!SleepParks
<1>7. ASSUME NEW p \in Contenders, S!SleepResumes(p) PROVE LockInv'
  BY <1>7 DEF S!SleepResumes
<1>8. ASSUME NEW p \in Contenders, S!Release(p) PROVE LockInv'
  <2>1. scan' \in [Contenders -> SUBSET Contenders]
    BY <1>8, Zenon DEF S!Release
  <2>2. S!TypeOK'
    <3>1. locked' \in BOOLEAN /\ plock' \in [Contenders -> BOOLEAN]
      BY <1>8, Zenon DEF S!Release
    <3>2. pc' \in [Contenders -> S!PCs] /\ lk' \in Contenders \cup {NONE} /\ pid' \in Contenders \cup {NONE}
      BY <1>8, Zenon DEF S!Release
    <3>3. \A q \in Contenders : scan'[q] # {} => pc'[q] = "wakeup"
      BY <1>8, Zenon DEF S!Release
    <3>4. state' \in [Contenders -> {"RUNNING", "RUNNABLE", "SLEEPING"}]
      BY <1>8, Zenon DEF S!Release
    <3> QED
      BY <2>1, <3>1, <3>2, <3>3, <3>4, Zenon
  <2>3. S!SpinLocksBalanced'
    BY <1>8, Zenon DEF S!Release
  <2>4. S!HolderRecorded' /\ WaiterSawLocked' /\ FreeInWakeup'
    BY <1>8 DEF S!Release
  <2>5. S!NoLostWakeup'
    BY <1>8, Zenon DEF S!Release
  <2> QED
    BY <2>2, <2>3, <2>4, <2>5, Zenon
<1>9. ASSUME NEW p \in Contenders, NEW q \in Contenders, S!WakeupVisits(p, q) PROVE LockInv'
  BY <1>9 DEF S!WakeupVisits
<1>10. ASSUME NEW p \in Contenders, S!WakeupDone(p) PROVE LockInv'
  BY <1>10 DEF S!WakeupDone
<1>11. ASSUME NEW p \in Contenders, S!SpuriousWakeup(p) PROVE LockInv'
  BY <1>11 DEF S!SpuriousWakeup
<1>12. ASSUME UNCHANGED S!vars PROVE LockInv'
  BY <1>12 DEF S!vars
<1> QED
  BY <1>1, <1>2, <1>3, <1>4, <1>5, <1>6, <1>7, <1>8, <1>9, <1>10, <1>11, <1>12, Zenon
  DEF S!Next, S!Step

(* The inductive invariant of the sleep lock.                              *)
LEMMA LockInvariance == S!Spec => []LockInv
  BY LockInit, LockStepInv, PTL DEF S!Spec

(* acquiresleep excludes: two processes never hold the sleep lock at once. *)
THEOREM MutualExclusionHolds == S!Spec => []MutualExclusion
<1>1. LockInv => MutualExclusion
  BY LockAssumption, Zenon DEF LockInv, S!HolderRecorded, MutualExclusion, S!MutualExclusion
<1> QED
  BY <1>1, LockInvariance, PTL

(* holdingsleep is right: lk->pid names the holder while there is one.     *)
THEOREM HolderRecordedHolds == S!Spec => []S!HolderRecorded
<1>1. LockInv => S!HolderRecorded
  BY Zenon DEF LockInv
<1> QED
  BY <1>1, LockInvariance, PTL

(* sleep() and wakeup() lose no wakeup: while the lock is free, every      *)
(* process that sleeps or is about to is still to be visited.              *)
THEOREM NoLostWakeupHolds == S!Spec => []S!NoLostWakeup
<1>1. LockInv => S!NoLostWakeup
  BY DEF LockInv
<1> QED
  BY <1>1, LockInvariance, PTL

(* A process enters sched() with its own lock and without lk->lk.          *)
THEOREM SpinLocksBalancedHolds == S!Spec => [](S!TypeOK /\ S!SpinLocksBalanced)
<1>1. LockInv => S!TypeOK /\ S!SpinLocksBalanced
  BY DEF LockInv
<1> QED
  BY <1>1, LockInvariance, PTL
=============================================================================
