------------------------------ MODULE LogProofs ------------------------------
(***************************************************************************)
(* Proofs about Log for any finite set of processes, any blocks, contents  *)
(* and sizes.  What is on the disk at each phase of commit() and of        *)
(* recovery makes a crash harmless there: the header on the disk is empty  *)
(* until the whole log is written, names the blocks of log.lh while they   *)
(* are installed, and no system call runs from the moment the log is       *)
(* copied until it is empty again.                                         *)
(***************************************************************************)
EXTENDS Log, FiniteSetTheorems, TLAPS

Injective(s) == \A j, k \in DOMAIN s : s[j] = s[k] => j = k

Committing == {"write_log", "write_head", "install", "done"}

NobodyInOp == \A p \in Procs : pc[p] # "op"

(* A commit has one process, which no system call and no recovery joins.   *)
CommitInv ==
    /\ committing <=> phase \in Committing
    /\ committing => NobodyInOp
    /\ phase \in Committing => \E p \in Procs : pc[p] = "commit"
    /\ \A p, q \in Procs : pc[p] = "commit" /\ pc[q] = "commit" => p = q
    /\ (\E p \in Procs : pc[p] = "commit") => committing
    /\ phase \in Recovery => \A p \in Procs : pc[p] = "user"

(* The log header in memory and on the disk.                               *)
HeaderInv ==
    /\ Injective(lh) /\ Injective(hd)
    /\ phase \in {"none", "write_log", "write_head", "done"} => hd = <<>>
    /\ phase \in {"install", "r_install"} => hd = lh
    /\ phase \in {"read_head", "done"} => lh = <<>>
    /\ phase = "none" /\ lh # <<>> => \E p \in Procs : pc[p] = "op"

(* The contents of the log, of the home blocks and of the cache.           *)
ContentInv ==
    /\ phase = "write_log" => \A k \in 1..tail : logd[k] = cache[lh[k]]
    /\ phase \in {"write_head", "install"} => \A k \in DOMAIN lh : logd[k] = cache[lh[k]]
    /\ phase \in {"install", "r_install"} => \A k \in 1..tail : home[lh[k]] = logd[k]
    /\ phase \in Recovery => cache = home

IInv == TypeOK /\ CommitInv /\ HeaderInv /\ ContentInv /\ LoggedIsCached

(* The number of system calls under way is 0 when there is none, and 1     *)
(* when there is one and no other.                                         *)
LEMMA OutstandingCounts ==
  /\ outstanding \in Nat
  /\ outstanding = 0 <=> NobodyInOp
  /\ \A p, q \in Procs : outstanding = 1 /\ pc[p] = "op" /\ pc[q] = "op" => p = q
<1> DEFINE S == {p \in Procs : pc[p] = "op"}
<1>1. IsFiniteSet(S)
  BY FS_Subset, LogAssumption
<1>2. outstanding = Cardinality(S)
  BY DEF outstanding
<1>3. outstanding \in Nat
  BY <1>1, <1>2, FS_CardinalityType
<1>4. outstanding = 0 <=> S = {}
  BY <1>1, <1>2, FS_EmptySet
<1>5. outstanding = 1 => \E x : S = {x}
  BY <1>1, <1>2, FS_Singleton, Zenon
<1> QED BY <1>3, <1>4, <1>5 DEF NobodyInOp

LEMMA OneOpCounts ==
  ASSUME NEW p \in Procs, pc[p] = "op", outstanding # 1
  PROVE  \E q \in Procs : pc[q] = "op" /\ q # p
<1> DEFINE S == {q \in Procs : pc[q] = "op"}
<1> SUFFICES ASSUME \A q \in Procs : pc[q] = "op" => q = p PROVE FALSE
  OBVIOUS
<1>1. S = {p}
  OBVIOUS
<1> QED BY <1>1, FS_Singleton DEF outstanding

LEMMA InitIInv == Init => IInv
<1> SUFFICES ASSUME Init PROVE IInv
  OBVIOUS
<1> USE LogAssumption DEF Init
<1>1. TypeOK
  <2>1. committing \in BOOLEAN /\ panicked \in BOOLEAN
    BY Zenon
  <2>2. /\ home \in [Blocks -> Vals] /\ cache \in [Blocks -> Vals]
        /\ logd \in [1..LOGSIZE -> Vals]
        /\ pc \in [Procs -> {"user", "sleep", "begin", "op", "commit"}]
        /\ wrote \in [Procs -> SUBSET Blocks]
    OBVIOUS
  <2>3. /\ hd \in Seq(Blocks) /\ lh \in Seq(Blocks) 
        /\ Len(hd) = 0 /\ Len(lh) = 0
    OBVIOUS
  <2> QED BY <2>1, <2>2, <2>3 DEF TypeOK
<1>2. CommitInv
  BY DEF CommitInv, NobodyInOp, Committing, Recovery
<1>3. HeaderInv /\ ContentInv /\ LoggedIsCached
  BY DEF HeaderInv, ContentInv, LoggedIsCached, Injective, Recovery, Blocknos
<1> QED BY <1>1, <1>2, <1>3 DEF IInv

(* Every step keeps the invariant.                                         *)
LEMMA StepIInv == IInv /\ [Next]_vars => IInv'
<1> SUFFICES ASSUME IInv, [Next]_vars PROVE IInv'
  OBVIOUS
<1> USE LogAssumption DEF IInv, TypeOK, CommitInv, NobodyInOp, HeaderInv, ContentInv,
      LoggedIsCached, Committing, Recovery, Injective, Blocknos, Up, disk
<1>1. ASSUME NEW p \in Procs, begin_op(p) PROVE IInv'
  BY <1>1 DEF begin_op, MustWait
<1>2. ASSUME NEW p \in Procs, end_op(p) PROVE IInv'
  <2>0. /\ phase = "none" /\ ~committing /\ pc[p] = "op"
        /\ \A q \in Procs : pc[q] # "commit"
    BY <1>2 DEF end_op
  <2>1. CASE outstanding = 1
    <3>1. /\ committing' = TRUE /\ pc' = [pc EXCEPT ![p] = "commit"] /\ tail' = 0
          /\ phase' = IF lh # <<>> THEN "write_log" ELSE "done"
          /\ wrote' = [wrote EXCEPT ![p] = {}]
          /\ UNCHANGED <<home, logd, hd, cache, pinned, lh, panicked>>
      BY <1>2, <2>1 DEF end_op, commit
    <3>2. NobodyInOp'
      BY <2>0, <2>1, <3>1, OutstandingCounts
    <3>3. TypeOK'
      BY <3>1
    <3>4. CommitInv'
      BY <2>0, <3>1, <3>2
    <3>5. HeaderInv' /\ ContentInv' /\ LoggedIsCached'
      BY <2>0, <3>1
    <3> QED BY <3>3, <3>4, <3>5, Zenon
  <2>2. CASE outstanding # 1
    <3>1. /\ pc' = [q \in Procs |-> IF q = p THEN "user"
                                    ELSE IF pc[q] = "sleep" THEN "begin" ELSE pc[q]]
          /\ wrote' = [wrote EXCEPT ![p] = {}]
          /\ UNCHANGED <<home, logd, hd, cache, pinned, lh, committing, phase, tail, panicked>>
      BY <1>2, <2>2 DEF end_op, Leave, wakeup
    <3>2. \E q \in Procs : pc[q] = "op" /\ q # p
      BY <2>0, <2>2, OneOpCounts
    <3>3. TypeOK' /\ CommitInv'
      BY <2>0, <3>1
    <3>5. HeaderInv' /\ ContentInv' /\ LoggedIsCached'
      BY <2>0, <3>1, <3>2
    <3> QED BY <3>3, <3>5, Zenon
  <2> QED BY <2>1, <2>2, Zenon
<1>3. ASSUME NEW p \in Procs, NEW b \in Blocks, NEW v \in Vals, log_write(p, b, v)
      PROVE  IInv'
  <2>0. phase = "none" /\ pc[p] = "op"
    BY <1>3 DEF log_write, MayLog
  <2>1. CASE LogFull
    <3>1. panicked' = TRUE /\ UNCHANGED <<home, logd, hd, cache, pinned, lh, committing, pc, wrote, phase, tail>>
      BY <1>3, <2>1 DEF log_write
    <3> QED BY <2>0, <3>1
  <2>2. CASE ~LogFull
    <3>1. /\ cache' = [cache EXCEPT ![b] = v] /\ pinned' = pinned \cup {b}
          /\ lh' = IF b \in Blocknos(lh) THEN lh ELSE Append(lh, b)
          /\ wrote' = [wrote EXCEPT ![p] = @ \cup {b}]
          /\ Len(lh) < LOGSIZE
          /\ UNCHANGED <<home, logd, hd, committing, pc, phase, tail, panicked>>
      BY <1>3, <2>2 DEF log_write, LogFull, bpin
    <3>2. /\ lh' \in Seq(Blocks) /\ Len(lh') <= LOGSIZE /\ Len(lh) <= Len(lh')
          /\ Injective(lh') /\ Blocknos(lh') = Blocknos(lh) \cup {b}
      <4>1. CASE b \in Blocknos(lh)
        BY <3>1, <4>1
      <4>2. CASE b \notin Blocknos(lh)
        <5>1. /\ lh' = Append(lh, b) /\ Len(lh') = Len(lh) + 1 /\ DOMAIN lh' = 1..(Len(lh) + 1)
              /\ \A k \in DOMAIN lh' : lh'[k] = IF k = Len(lh) + 1 THEN b ELSE lh[k]
          BY <3>1, <4>2
        <5>2. Injective(lh') /\ lh' \in Seq(Blocks)
          BY <4>2, <5>1
        <5>3. \A c : c \in Blocknos(lh') <=> c \in Blocknos(lh) \cup {b}
          <6>1. ASSUME NEW k \in DOMAIN lh PROVE lh[k] \in Blocknos(lh')
            <7>1. k \in DOMAIN lh' /\ lh'[k] = lh[k]
              BY <5>1
            <7> QED BY <7>1
          <6>2. b \in Blocknos(lh')
            <7>1. Len(lh) + 1 \in DOMAIN lh' /\ lh'[Len(lh) + 1] = b
              BY <5>1
            <7> QED BY <7>1
          <6>3. ASSUME NEW k \in DOMAIN lh' PROVE lh'[k] \in Blocknos(lh) \cup {b}
            BY <5>1
          <6> QED BY <6>1, <6>2, <6>3
        <5>4. Blocknos(lh') = Blocknos(lh) \cup {b}
          <6> HIDE DEF Blocknos
          <6> QED BY <5>3, Zenon
        <5> HIDE DEF Blocknos, Injective
        <5> QED BY <3>1, <5>1, <5>2, <5>4
      <4> QED BY <4>1, <4>2, Zenon
    <3>3. TypeOK' /\ CommitInv'
      BY <3>1, <3>2
    <3>4. HeaderInv' /\ ContentInv' 
      BY <2>0, <3>1, <3>2
    <3>5. LoggedIsCached'
      <4>1. cache \in [Blocks -> Vals] /\ LoggedIsCached
        OBVIOUS
      <4> HIDE DEF IInv, TypeOK, CommitInv, HeaderInv, ContentInv, Injective, Blocknos
      <4> QED BY <3>1, <3>2, <4>1
    <3> QED BY <3>3, <3>4, <3>5, Zenon
  <2> QED BY <2>1, <2>2, Zenon
<1>4. ASSUME write_log PROVE IInv'
  <2>1. TypeOK'
    BY <1>4 DEF write_log
  <2>2. CommitInv'
    BY <1>4 DEF write_log
  <2>3. HeaderInv'
    BY <1>4 DEF write_log
  <2>4. ContentInv'
    BY <1>4 DEF write_log
  <2>5. LoggedIsCached'
    BY <1>4 DEF write_log
  <2> QED BY <2>1, <2>2, <2>3, <2>4, <2>5, Zenon
<1>5. ASSUME write_head PROVE IInv'
  <2>1. TypeOK'
    BY <1>5 DEF write_head
  <2>2. CommitInv'
    BY <1>5 DEF write_head
  <2>3. HeaderInv'
    BY <1>5 DEF write_head
  <2>4. ContentInv'
    BY <1>5 DEF write_head
  <2>5. LoggedIsCached'
    BY <1>5 DEF write_head
  <2> QED BY <2>1, <2>2, <2>3, <2>4, <2>5, Zenon
<1>6. ASSUME install_trans PROVE IInv'
  <2>1. TypeOK'
    BY <1>6 DEF install_trans
  <2>2. CommitInv'
    BY <1>6 DEF install_trans
  <2>3. HeaderInv'
    BY <1>6, Zenon DEF install_trans
  <2>4. ContentInv'
    <3>0. /\ phase \in {"install", "r_install"} /\ phase' = phase /\ lh' = lh /\ logd' = logd
          /\ tail' = tail + 1 /\ tail + 1 \in DOMAIN lh /\ tail \in Nat
          /\ home' = [home EXCEPT ![lh[tail + 1]] = logd[tail + 1]]
          /\ cache' = [cache EXCEPT ![lh[tail + 1]] = logd[tail + 1]]
      BY <1>6 DEF install_trans
    <3>1. ASSUME NEW k \in 1..(tail + 1) PROVE home'[lh[k]] = logd[k]
      BY <3>0
    <3>2. phase = "install" => \A k \in DOMAIN lh : logd[k] = cache'[lh[k]]
      BY <3>0
    <3>3. phase = "r_install" => cache' = home'
      BY <3>0
    <3> QED BY <3>0, <3>1, <3>2, <3>3
  <2>5. LoggedIsCached'
    BY <1>6 DEF install_trans
  <2> QED BY <2>1, <2>2, <2>3, <2>4, <2>5, Zenon
<1>7. ASSUME clear_log PROVE IInv'
  <2>1. TypeOK'
    BY <1>7 DEF clear_log
  <2>2. CommitInv'
    BY <1>7, Zenon DEF clear_log
  <2>3. HeaderInv'
    BY <1>7 DEF clear_log
  <2>4. ContentInv'
    BY <1>7, Zenon DEF clear_log
  <2>5. LoggedIsCached'
    BY <1>7 DEF clear_log
  <2> QED BY <2>1, <2>2, <2>3, <2>4, <2>5, Zenon
<1>8. ASSUME NEW p \in Procs, EndCommit(p) PROVE IInv'
  <2>1. /\ phase = "done" /\ pc[p] = "commit" /\ committing' = FALSE /\ phase' = "none"
        /\ pc' = [q \in Procs |-> IF q = p THEN "user"
                                  ELSE IF pc[q] = "sleep" THEN "begin" ELSE pc[q]]
        /\ UNCHANGED <<home, logd, hd, cache, pinned, lh, wrote, tail, panicked>>
    BY <1>8, Zenon DEF EndCommit, Leave, wakeup
  <2>2. TypeOK'
    BY <2>1, Zenon
  <2>3. CommitInv'
    BY <2>1
  <2>4. HeaderInv' /\ ContentInv' /\ LoggedIsCached'
    BY <2>1
  <2> QED BY <2>2, <2>3, <2>4, Zenon
<1>9. ASSUME NEW b \in Blocks, Recycle(b) PROVE IInv'
  BY <1>9 DEF Recycle
<1>10. ASSUME Crash PROVE IInv'
  <2>1. TypeOK'
    <3>1. committing' \in BOOLEAN /\ panicked' \in BOOLEAN
      BY <1>10, Zenon DEF Crash
    <3>2. lh' \in Seq(Blocks) /\ Len(lh') = 0
      BY <1>10 DEF Crash
    <3>3. pc' \in [Procs -> {"user"}] /\ wrote' \in [Procs -> SUBSET Blocks]
      BY <1>10 DEF Crash
    <3> QED BY <1>10, <3>1, <3>2, <3>3 DEF Crash
  <2>2. CommitInv'
    BY <1>10, Zenon DEF Crash
  <2>3. HeaderInv' /\ ContentInv' /\ LoggedIsCached'
    BY <1>10 DEF Crash
  <2> QED BY <2>1, <2>2, <2>3, Zenon
<1>11. ASSUME read_head PROVE IInv'
  BY <1>11 DEF read_head
<1>12. ASSUME UNCHANGED vars PROVE IInv'
  BY <1>12 DEF vars
<1> QED
  BY <1>1, <1>2, <1>3, <1>4, <1>5, <1>6, <1>7, <1>8, <1>9, <1>10, <1>11, <1>12, Zenon
  DEF Next, CommitStep

(* The inductive invariant holds throughout.                               *)
THEOREM Invariance == Spec => []IInv
  BY InitIInv, StepIInv, PTL DEF Spec

(* bpin() keeps every block that differs from the disk in the cache, until *)
(* install_trans() has written it home.                                    *)
THEOREM LoggedIsCachedHolds == Spec => [](TypeOK /\ LoggedIsCached)
<1>1. IInv => TypeOK /\ LoggedIsCached
  BY Zenon DEF IInv
<1> QED BY <1>1, Invariance, PTL

(* begin_op() is never left asleep: the log is empty when no system call   *)
(* is under way, so a process that has to wait waits for somebody, and the *)
(* last one to leave wakes it.                                             *)
Waker == (\E p \in Procs : pc[p] = "sleep") => ~NobodyInOp \/ committing

LEMMA StepWaker == IInv /\ Waker /\ [Next]_vars => Waker'
<1> SUFFICES ASSUME IInv, Waker, [Next]_vars PROVE Waker'
  OBVIOUS
<1> USE DEF Waker, NobodyInOp
<1>1. ASSUME NEW p \in Procs, begin_op(p) PROVE Waker'
  <2>1. CASE MustWait
    <3>1. committing \/ ~NobodyInOp
      <4> SUFFICES ASSUME ~committing, NobodyInOp PROVE FALSE
        OBVIOUS
      <4>1. phase = "none" /\ lh = <<>>
        BY <1>1 DEF begin_op, Up, IInv, TypeOK, CommitInv, HeaderInv, Committing, Recovery
      <4>2. Len(lh) = 0 /\ outstanding = 0
        BY <4>1, OutstandingCounts, Zenon
      <4> QED BY <2>1, <4>2, LogAssumption DEF MustWait
    <3> QED BY <1>1, <2>1, <3>1 DEF begin_op, IInv, TypeOK
  <2>2. CASE ~MustWait
    BY <1>1, <2>2 DEF begin_op, IInv, TypeOK
  <2> QED BY <2>1, <2>2, Zenon
<1>2. ASSUME NEW p \in Procs, end_op(p) PROVE Waker'
  <2>1. CASE outstanding = 1
    BY <1>2, <2>1, Zenon DEF end_op
  <2>2. CASE outstanding # 1
    BY <1>2, <2>2, Zenon DEF end_op, Leave, wakeup, IInv, TypeOK
  <2> QED BY <2>1, <2>2
<1>3. ASSUME NEW p \in Procs, EndCommit(p) PROVE Waker'
  BY <1>3 DEF EndCommit, Leave, wakeup, IInv, TypeOK
<1>4. ASSUME Crash PROVE Waker'
  BY <1>4 DEF Crash
<1>5. ASSUME UNCHANGED <<pc, committing>> PROVE Waker'
  BY <1>5
<1> QED
  BY <1>1, <1>2, <1>3, <1>4, <1>5, Zenon
  DEF Next, CommitStep, log_write, write_log, write_head, install_trans, clear_log,
      Recycle, read_head, vars

(* A process asleep in begin_op() always has somebody to wake it.          *)
THEOREM SleeperHasWakerHolds == Spec => []SleeperHasWaker
<1>1. Init => Waker
  BY DEF Init, Waker
<1>2. Waker => SleeperHasWaker
  BY OutstandingCounts DEF Waker, SleeperHasWaker
<1> QED BY <1>1, <1>2, StepWaker, Invariance, PTL DEF Spec

(* What a system call has logged is in the log, and what it may still log  *)
(* is reserved.                                                            *)
ReserveInv ==
    /\ ReservationKept
    /\ \A p \in Procs : IsFiniteSet(wrote[p])
    /\ \A p \in Procs : pc[p] = "op" => wrote[p] \subseteq Blocknos(lh)

(* The reservations are finitely many.                                     *)
LEMMA ReservedFinite ==
  /\ IsFiniteSet(Procs \X (1..MAXOPBLOCKS))
  /\ IsFiniteSet(Reserved) /\ Cardinality(Reserved) \in Nat
<1>1. IsFiniteSet(1..MAXOPBLOCKS)
  BY LogAssumption, FS_Interval
<1>2. IsFiniteSet(Procs \X (1..MAXOPBLOCKS))
  BY <1>1, LogAssumption, FS_Product
<1>3. Reserved \in SUBSET (Procs \X (1..MAXOPBLOCKS))
  BY DEF Reserved
<1> QED BY <1>2, <1>3, FS_Subset, FS_CardinalityType, Zenon

(* When the log does not grow and no reservation is added, none is broken. *)
LEMMA FewerReserved ==
  ASSUME IInv, ReservationKept, Reserved' \subseteq Reserved, Len(lh') \in Nat, Len(lh') <= Len(lh)
  PROVE  ReservationKept'
<1>1. Cardinality(Reserved') <= Cardinality(Reserved) /\ Cardinality(Reserved') \in Nat
  BY ReservedFinite, FS_Subset, FS_CardinalityType, Zenon
<1>2. Len(lh) \in Nat /\ Cardinality(Reserved) \in Nat
  BY ReservedFinite DEF IInv, TypeOK
<1> QED BY <1>1, <1>2, LogAssumption DEF ReservationKept

LEMMA StepReserve == IInv /\ IInv' /\ ReserveInv /\ [Next]_vars => ReserveInv'
<1> SUFFICES ASSUME IInv, IInv', ReserveInv, [Next]_vars PROVE ReserveInv'
  OBVIOUS
<1>0. /\ Len(lh) \in Nat /\ Len(lh') \in Nat /\ Len(lh') <= LOGSIZE
      /\ pc \in [Procs -> {"user", "sleep", "begin", "op", "commit"}]
      /\ wrote \in [Procs -> SUBSET Blocks]
  BY DEF IInv, TypeOK
<1>1. ASSUME NEW p \in Procs, begin_op(p) PROVE ReserveInv'
  <2>1. /\ wrote' = [wrote EXCEPT ![p] = {}] /\ lh' = lh /\ pc[p] # "op"
        /\ pc' = [pc EXCEPT ![p] = IF MustWait THEN "sleep" ELSE "op"]
    BY <1>1, Zenon DEF begin_op
  <2>2. /\ \A q \in Procs : IsFiniteSet(wrote'[q])
        /\ \A q \in Procs : pc'[q] = "op" => wrote'[q] \subseteq Blocknos(lh')
    BY <1>0, <2>1, FS_EmptySet, Zenon DEF ReserveInv
  <2>3. CASE MustWait
    <3>1. Reserved' \subseteq Reserved
      BY <1>0, <2>1, <2>3 DEF Reserved
    <3> QED BY <1>0, <2>1, <2>2, <3>1, FewerReserved DEF ReserveInv
  <2>4. CASE ~MustWait
    <3> DEFINE Ops == {q \in Procs : pc[q] = "op"}
    <3>1. Reserved' \subseteq (Ops \cup {p}) \X (1..MAXOPBLOCKS)
      BY <1>0, <2>1, <2>4, Zenon DEF Reserved
    <3>2. IsFiniteSet(Ops \cup {p}) /\ Cardinality(Ops \cup {p}) = outstanding + 1
      BY <2>1, LogAssumption, FS_Subset, FS_AddElement, Zenon DEF outstanding
    <3>3. IsFiniteSet(1..MAXOPBLOCKS) /\ Cardinality(1..MAXOPBLOCKS) = MAXOPBLOCKS
      BY LogAssumption, FS_Interval
    <3>4. /\ IsFiniteSet((Ops \cup {p}) \X (1..MAXOPBLOCKS))
          /\ Cardinality((Ops \cup {p}) \X (1..MAXOPBLOCKS)) = (outstanding + 1) * MAXOPBLOCKS
      <4> DEFINE A == Ops \cup {p}
                 B == 1..MAXOPBLOCKS
      <4>1. /\ IsFiniteSet(A) /\ Cardinality(A) = outstanding + 1
            /\ IsFiniteSet(B) /\ Cardinality(B) = MAXOPBLOCKS
        BY <3>2, <3>3
      <4> HIDE DEF A, B
      <4>2. IsFiniteSet(A \X B) /\ Cardinality(A \X B) = (outstanding + 1) * MAXOPBLOCKS
        BY <4>1, FS_Product
      <4> QED BY <4>2 DEF A, B
    <3>5. /\ Cardinality(Reserved') <= (outstanding + 1) * MAXOPBLOCKS
          /\ Cardinality(Reserved') \in Nat
      BY <3>1, <3>4, FS_Subset, FS_CardinalityType
    <3>6. Len(lh) + (outstanding + 1) * MAXOPBLOCKS <= LOGSIZE
      BY <1>0, <2>4, OutstandingCounts, LogAssumption DEF MustWait
    <3>7. ReservationKept'
      <4> DEFINE most == (outstanding + 1) * MAXOPBLOCKS
      <4>1. most \in Nat
        BY OutstandingCounts, LogAssumption
      <4> HIDE DEF most
      <4>2. Len(lh) + most <= LOGSIZE /\ Cardinality(Reserved') <= most
        BY <3>5, <3>6 DEF most
      <4> QED BY <1>0, <2>1, <3>5, <4>1, <4>2, LogAssumption DEF ReservationKept
    <3> QED BY <2>2, <3>7, Zenon DEF ReserveInv
  <2> QED BY <2>3, <2>4
<1>2. ASSUME NEW p \in Procs, NEW b \in Blocks, NEW v \in Vals, log_write(p, b, v) PROVE ReserveInv'
  <2>1. CASE LogFull
    <3>1. UNCHANGED <<pc, wrote, lh>>
      BY <1>2, <2>1 DEF log_write
    <3> QED BY <3>1 DEF ReserveInv, ReservationKept, Reserved
  <2>2. CASE ~LogFull
    <3>1. /\ lh' = IF b \in Blocknos(lh) THEN lh ELSE Append(lh, b)
          /\ wrote' = [wrote EXCEPT ![p] = @ \cup {b}] /\ pc' = pc /\ pc[p] = "op"
          /\ Cardinality(wrote[p] \cup {b}) <= MAXOPBLOCKS
      BY <1>2, <2>2, Zenon DEF log_write, MayLog
    <3>2. Blocknos(lh') = Blocknos(lh) \cup {b} /\ Len(lh') = Len(lh) + (IF b \in Blocknos(lh) THEN 0 ELSE 1)
      <4>1. lh \in Seq(Blocks)
        BY Zenon DEF IInv, TypeOK
      <4>2. CASE b \in Blocknos(lh)
        BY <3>1, <4>1, <4>2
      <4>3. CASE b \notin Blocknos(lh)
        BY <3>1, <4>1, <4>3 DEF Blocknos
      <4> QED BY <4>2, <4>3, Zenon
    <3>3. /\ IsFiniteSet(wrote'[p]) /\ Cardinality(wrote[p]) \in Nat /\ Cardinality(wrote'[p]) \in Nat
          /\ wrote'[p] = wrote[p] \cup {b}
          /\ Cardinality(wrote'[p]) = Cardinality(wrote[p]) + (IF b \in wrote[p] THEN 0 ELSE 1)
      BY <1>0, <3>1, FS_AddElement, FS_CardinalityType DEF ReserveInv
    <3>4. /\ \A q \in Procs : IsFiniteSet(wrote'[q])
          /\ \A q \in Procs : pc'[q] = "op" => wrote'[q] \subseteq Blocknos(lh')
      BY <1>0, <3>1, <3>2, <3>3, Zenon DEF ReserveInv
    <3>5. Reserved' \subseteq Reserved
      BY <1>0, <3>1, <3>3 DEF Reserved
    <3>6. CASE b \in Blocknos(lh)
      BY <1>0, <3>2, <3>4, <3>5, <3>6, FewerReserved DEF ReserveInv
    <3>7. CASE b \notin Blocknos(lh)
      <4> DEFINE n == Cardinality(wrote'[p])
                 r == <<p, n>>
      <4>1. n \in 1..MAXOPBLOCKS /\ n = Cardinality(wrote[p]) + 1
        <5>1. b \notin wrote[p]
          BY <3>1, <3>7, Zenon DEF ReserveInv
        <5>2. n = Cardinality(wrote[p]) + 1 /\ Cardinality(wrote[p]) \in Nat
          BY <3>3, <5>1, Zenon
        <5>3. n <= MAXOPBLOCKS
          BY <3>1, <3>3, Zenon
        <5> QED BY <5>2, <5>3, LogAssumption
      <4>2. r \in Reserved
        <5>1. n > Cardinality(wrote[p])
          BY <3>3, <4>1
        <5> HIDE DEF n
        <5> QED BY <3>1, <4>1, <5>1 DEF Reserved
      <4>3. r \notin Reserved'
        <5>1. ~(n > Cardinality(wrote'[p]))
          BY <3>3
        <5> HIDE DEF n
        <5> QED BY <5>1 DEF Reserved
      <4>4. Reserved' \in SUBSET (Reserved \ {r})
        BY <3>5, <4>3, Zenon
      <4>5. IsFiniteSet(Reserved \ {r}) /\ Cardinality(Reserved \ {r}) = Cardinality(Reserved) - 1
        BY <4>2, ReservedFinite, FS_RemoveElement, Zenon
      <4>6. Cardinality(Reserved') <= Cardinality(Reserved) - 1 /\ Cardinality(Reserved') \in Nat
        BY <4>4, <4>5, FS_Subset, FS_CardinalityType
      <4>7. ReservationKept'
        BY <1>0, <3>2, <3>7, <4>6, ReservedFinite, LogAssumption DEF ReserveInv, ReservationKept
      <4> QED BY <3>4, <4>7, Zenon DEF ReserveInv
    <3> QED BY <3>6, <3>7, Zenon
  <2> QED BY <2>1, <2>2, Zenon
<1>3. ASSUME NEW p \in Procs, end_op(p) PROVE ReserveInv'
  <2>1. /\ wrote' = [wrote EXCEPT ![p] = {}] /\ lh' = lh
        /\ \A q \in Procs : pc'[q] = "op" => pc[q] = "op" /\ q # p
    BY <1>0, <1>3, Zenon DEF end_op, Leave, wakeup
  <2>2. Reserved' \subseteq Reserved
    BY <1>0, <2>1 DEF Reserved
  <2> QED BY <1>0, <2>1, <2>2, FewerReserved, FS_EmptySet DEF ReserveInv
<1>4. ASSUME NEW p \in Procs, EndCommit(p) PROVE ReserveInv'
  <2>1. /\ UNCHANGED <<wrote, lh>> /\ \A q \in Procs : pc'[q] = "op" => pc[q] = "op"
    BY <1>0, <1>4 DEF EndCommit, Leave, wakeup
  <2>2. Reserved' \subseteq Reserved
    BY <1>0, <2>1 DEF Reserved
  <2> QED BY <1>0, <2>1, <2>2, FewerReserved DEF ReserveInv
<1>5. ASSUME Crash \/ read_head \/ clear_log PROVE ReserveInv'
  <2>1. \A q \in Procs : pc'[q] # "op"
    BY <1>5 DEF IInv, CommitInv, NobodyInOp, Committing, Recovery, Crash, read_head, clear_log
  <2>2. Reserved' = {}
    BY <2>1, Zenon DEF Reserved
  <2>3. \A q \in Procs : IsFiniteSet(wrote'[q])
    BY <1>5, FS_EmptySet, Zenon DEF ReserveInv, Crash, read_head, clear_log
  <2> QED BY <1>0, <2>1, <2>2, <2>3, FS_EmptySet, LogAssumption DEF ReserveInv, ReservationKept
<1>6. ASSUME UNCHANGED <<pc, wrote, lh>> PROVE ReserveInv'
  BY <1>6 DEF ReserveInv, ReservationKept, Reserved
<1> QED
  BY <1>1, <1>2, <1>3, <1>4, <1>5, <1>6, Zenon
  DEF Next, CommitStep, write_log, write_head, install_trans, Recycle, vars

(* begin_op() reserves MAXOPBLOCKS for each system call, and log_write()   *)
(* takes a block from the reservation of the call only when it is new to   *)
(* the log: however the calls interleave, the log has room for what they   *)
(* may still write.                                                        *)
THEOREM ReservationKeptHolds == Spec => []ReservationKept
<1>1. Init => ReserveInv
  <2> SUFFICES ASSUME Init PROVE ReserveInv
    OBVIOUS
  <2>1. Reserved = {} /\ Len(lh) = 0
    BY DEF Init, Reserved
  <2> QED BY <2>1, FS_EmptySet, LogAssumption DEF Init, ReserveInv, ReservationKept
<1>2. ReserveInv => ReservationKept
  BY DEF ReserveInv
<1> QED BY <1>1, <1>2, StepReserve, Invariance, PTL DEF Spec

(* What a crash leaves, block by block: the log where the header names the *)
(* block, the home block elsewhere.                                        *)
RecoveredIs ==
    /\ Recovered \in [Blocks -> Vals]
    /\ \A k \in DOMAIN hd : Recovered[hd[k]] = logd[k]
    /\ \A b \in Blocks \ Blocknos(hd) : Recovered[b] = home[b]

LEMMA RecoveredValue == IInv => RecoveredIs
<1> SUFFICES ASSUME IInv PROVE RecoveredIs
  OBVIOUS
<1> DEFINE At(b) == CHOOSE k \in DOMAIN hd : hd[k] = b
<1>1. ASSUME NEW b \in Blocknos(hd) PROVE At(b) \in DOMAIN hd /\ hd[At(b)] = b
  BY <1>1 DEF Blocknos
<1>2. \A b \in Blocks : Recovered[b] = IF b \in Blocknos(hd) THEN logd[At(b)] ELSE home[b]
  BY DEF Recovered
<1> HIDE DEF At
<1>3. /\ hd \in Seq(Blocks) /\ Len(hd) <= LOGSIZE /\ Injective(hd)
      /\ logd \in [1..LOGSIZE -> Vals] /\ home \in [Blocks -> Vals]
  BY Zenon DEF IInv, TypeOK, HeaderInv
<1>4. ASSUME NEW b \in Blocks PROVE Recovered[b] \in Vals
  BY <1>1, <1>2, <1>3, LogAssumption
<1>5. ASSUME NEW k \in DOMAIN hd PROVE Recovered[hd[k]] = logd[k]
  <2>1. hd[k] \in Blocknos(hd) /\ hd[k] \in Blocks
    BY <1>3 DEF Blocknos
  <2>2. At(hd[k]) = k
    BY <1>1, <1>3, <2>1, Zenon DEF Injective
  <2> QED BY <1>2, <2>1, <2>2, Zenon
<1>6. Recovered = [b \in Blocks |-> Recovered[b]]
  BY DEF Recovered
<1> QED BY <1>2, <1>4, <1>5, <1>6 DEF RecoveredIs

(* The log implements AtomicDisk.  write_head() is the commit; every other *)
(* step of commit() and of recovery leaves what a crash would recover as   *)
(* it is.                                                                  *)
THEOREM Refinement == Spec => ImplementsAtomicDisk
<1> DEFINE cur == IF phase \in Recovery THEN Recovered ELSE cache
           act == {p \in Procs : pc[p] = "op"}
<1>1. Init => Disk!Init
  <2> SUFFICES ASSUME Init PROVE Disk!Init
    OBVIOUS
  <2>1. IInv
    BY InitIInv
  <2>2. RecoveredIs
    BY <2>1, RecoveredValue
  <2>3. phase \in Recovery /\ act = {}
    BY Zenon DEF Init, Recovery
  <2> QED BY <2>2, <2>3 DEF Disk!Init, RecoveredIs
<1>2. IInv /\ IInv' /\ RecoveredIs /\ RecoveredIs' /\ [Next]_vars
        => [Disk!Next]_(Disk!vars)
  <2> SUFFICES ASSUME IInv, IInv', RecoveredIs, RecoveredIs', [Next]_vars
               PROVE  [Disk!Next]_(Disk!vars)
    OBVIOUS
  <2> USE DEF Up, disk
  <2> DEFINE Same == Recovered' = Recovered /\ cur' = cur /\ act' = act
  <2>0. Same => [Disk!Next]_(Disk!vars)
    BY Zenon DEF Disk!vars
  <2>1. ASSUME UNCHANGED disk PROVE Recovered' = Recovered
    BY <2>1 DEF Recovered, Blocknos
  <2>2. ASSUME NEW p \in Procs, begin_op(p) PROVE Same \/ Disk!Begin(p)
    BY <2>1, <2>2 DEF begin_op, Disk!Begin, IInv, TypeOK
  <2>3. ASSUME NEW p \in Procs, end_op(p) PROVE Disk!End(p)
    <3>1. Recovered' = Recovered /\ cur' = cur
      BY <2>1, <2>3, Zenon DEF end_op, commit, Recovery
    <3>2. p \in act /\ act' = act \ {p}
      BY <2>3, Zenon DEF end_op, Leave, wakeup, IInv, TypeOK
    <3> QED BY <3>1, <3>2, Zenon DEF Disk!End
  <2>4. ASSUME NEW p \in Procs, NEW b \in Blocks, NEW v \in Vals, log_write(p, b, v)
        PROVE  Same \/ Disk!Write(p, b, v)
    BY <2>1, <2>4, Zenon DEF log_write, MayLog, Disk!Write
  <2>5. ASSUME write_log PROVE Same
    BY <2>5 DEF write_log, IInv, HeaderInv, Recovery, Recovered, Blocknos
  <2>6. ASSUME write_head PROVE Disk!Commit
    <3>1. /\ phase = "write_head" /\ phase' = "install" /\ hd' = lh
          /\ UNCHANGED <<home, logd, cache, pc>>
      BY <2>6, Zenon DEF write_head
    <3>2. ASSUME NEW b \in Blocks PROVE Recovered'[b] = cache[b]
      <4>1. CASE b \in Blocknos(lh)
        BY <3>1, <4>1 DEF Blocknos, RecoveredIs, IInv, ContentInv
      <4>2. CASE b \notin Blocknos(lh)
        BY <3>1, <4>2 DEF Blocknos, RecoveredIs, IInv, LoggedIsCached
      <4> QED BY <4>1, <4>2, Zenon
    <3>3. Recovered' = cache
      BY <3>2 DEF RecoveredIs, IInv, TypeOK
    <3>4. act = {} /\ act' = act
      BY <3>1 DEF IInv, CommitInv, NobodyInOp, Committing
    <3>5. cur = cache /\ cur' = cache
      BY <3>1 DEF Recovery
    <3> QED BY <3>3, <3>4, <3>5, Zenon DEF Disk!Commit
  <2>7. ASSUME install_trans PROVE Same
    <3>1. /\ phase \in {"install", "r_install"} /\ phase' = phase /\ hd = lh
          /\ tail + 1 \in DOMAIN lh
          /\ home' = [home EXCEPT ![lh[tail + 1]] = logd[tail + 1]]
          /\ cache' = [cache EXCEPT ![lh[tail + 1]] = logd[tail + 1]]
          /\ UNCHANGED <<logd, hd, pc>>
      BY <2>7 DEF install_trans, IInv, TypeOK, HeaderInv
    <3>2. ASSUME NEW b \in Blocks PROVE Recovered'[b] = Recovered[b]
      <4>1. CASE b \in Blocknos(hd)
        BY <3>1, <4>1 DEF Blocknos, RecoveredIs
      <4>2. CASE b \notin Blocknos(hd)
        <5>1. b # lh[tail + 1] /\ home'[b] = home[b]
          BY <3>1, <4>2, Zenon DEF Blocknos, IInv, TypeOK
        <5> QED BY <3>1, <4>2, <5>1 DEF Blocknos, RecoveredIs
      <4> QED BY <4>1, <4>2
    <3>3. Recovered' = Recovered
      BY <3>2 DEF RecoveredIs
    <3>4. phase = "install" => cache' = cache
      BY <3>1 DEF IInv, TypeOK, ContentInv
    <3> QED BY <3>1, <3>3, <3>4, Zenon DEF Recovery
  <2>8. ASSUME clear_log PROVE Same
    <3>1. /\ phase \in {"install", "r_install"} /\ hd = lh /\ hd' = <<>>
          /\ phase' = IF phase = "install" THEN "done" ELSE "none"
          /\ \A k \in DOMAIN hd : home[hd[k]] = logd[k]
          /\ UNCHANGED <<home, logd, cache, pc>>
      BY <2>8 DEF clear_log, IInv, TypeOK, HeaderInv, ContentInv
    <3>2. ASSUME NEW b \in Blocks PROVE Recovered[b] = home[b]
      BY <3>1 DEF Blocknos, RecoveredIs
    <3>3. ASSUME NEW b \in Blocks PROVE Recovered'[b] = home[b]
      BY <3>1 DEF Blocknos, RecoveredIs
    <3>4. Recovered = home /\ Recovered' = home
      BY <3>2, <3>3 DEF RecoveredIs, IInv, TypeOK
    <3> QED BY <3>1, <3>4, Zenon DEF Recovery, IInv, ContentInv
  <2>9. ASSUME NEW p \in Procs, EndCommit(p) PROVE Same
    BY <2>1, <2>9, Zenon DEF EndCommit, Leave, wakeup, IInv, TypeOK, Recovery
  <2>10. ASSUME NEW b \in Blocks, Recycle(b) PROVE Same
    BY <2>1, <2>10 DEF Recycle, IInv, TypeOK, LoggedIsCached
  <2>11. ASSUME Crash PROVE Disk!Crash
    BY <2>1, <2>11, Zenon DEF Crash, Disk!Crash, Recovery
  <2>12. ASSUME read_head PROVE Same
    BY <2>1, <2>12, Zenon DEF read_head, Recovery
  <2>13. ASSUME UNCHANGED vars PROVE Same
    BY <2>1, <2>13 DEF vars
  <2> QED
    BY <2>0, <2>2, <2>3, <2>4, <2>5, <2>6, <2>7, <2>8, <2>9, <2>10, <2>11, <2>12, <2>13, Zenon
    DEF Next, CommitStep, Disk!Next
<1> QED
  BY <1>1, <1>2, Invariance, RecoveredValue, PTL
  DEF Spec, ImplementsAtomicDisk, Disk!Spec
=============================================================================
