---------------------------- MODULE PipeRTProofs ----------------------------
(***************************************************************************)
(* Proofs about the prioritised pipe, for any set of processes, any set of *)
(* priorities and any number of writes.                                    *)
(***************************************************************************)
EXTENDS PipeRT, SequenceTheorems, FiniteSetTheorems, WellFoundedInduction, TLAPS

(* A non-empty set of numbers in 1..n has a least element.                 *)
LEMMA LeastInInterval ==
  ASSUME NEW n \in Nat, NEW T, T \subseteq 1..n, T # {}
  PROVE  \E x \in T : \A y \in T : x <= y
<1> DEFINE F == {1..x : x \in T}
           R == StrictSubsetOrdering(1..n)
<1>1. IsWellFoundedOn(R, FiniteSubsetsOf(1..n))
  BY FS_StrictSubsetOrderingWellFounded, Zenon
<1>2. F \subseteq FiniteSubsetsOf(1..n)
  BY FS_Interval DEF FiniteSubsetsOf
<1>3. F # {}
  BY Zenon
<1>4. \A x, y \in T : y < x => <<1..y, 1..x>> \in R
  BY DEF StrictSubsetOrdering
<1> HIDE DEF R
<1>5. PICK s \in F : \A t \in F : ~ (<<t, s>> \in R)
  <2> HIDE DEF F
  <2> QED BY <1>1, <1>2, <1>3, WFMin
<1>6. PICK x \in T : s = 1..x
  OBVIOUS
<1>7. ASSUME NEW y \in T PROVE x <= y
  <2>1. 1..y \in F
    OBVIOUS
  <2>2. ~ (<<1..y, 1..x>> \in R)
    BY <2>1, <1>5, <1>6, Zenon
  <2>3. ~ (y < x)
    BY <2>2, <1>4
  <2> QED BY <2>3
<1> QED BY <1>6, <1>7, Zenon

(* r is s with e inserted at position i, element by element.               *)
Inserted(r, s, i, e, S) ==
    /\ r \in Seq(S) /\ Len(r) = Len(s) + 1
    /\ \A j \in 1..(Len(s) + 1) :
          r[j] = IF j < i THEN s[j] ELSE IF j = i THEN e ELSE s[j-1]

(* What InsertAt returns.                                                  *)
LEMMA InsertAtProperties ==
  ASSUME NEW S, NEW s \in Seq(S), NEW i \in 1..(Len(s) + 1), NEW e \in S
  PROVE  Inserted(InsertAt(s, i, e), s, i, e, S)
<1> DEFINE a == SubSeq(s, 1, i-1)
           b == SubSeq(s, i, Len(s))
           m == a \o <<e>>
<1>1. a \in Seq(S) /\ Len(a) = i-1 /\ \A j \in 1..(i-1) : a[j] = s[j]
  BY SubSeqProperties, ElementOfSeq
<1>2. b \in Seq(S) /\ Len(b) = Len(s)+1-i /\ \A j \in 1..(Len(s)+1-i) : b[j] = s[i+j-1]
  BY SubSeqProperties, ElementOfSeq
<1>3. <<e>> \in Seq(S) /\ Len(<<e>>) = 1 /\ <<e>>[1] = e
  OBVIOUS
<1> HIDE DEF a, b
<1>4. m \in Seq(S) /\ Len(m) = i /\ \A j \in 1..i : m[j] = IF j < i THEN s[j] ELSE e
  BY <1>1, <1>3, ConcatProperties
<1> HIDE DEF m
<1>5. /\ m \o b \in Seq(S)
      /\ Len(m \o b) = Len(s) + 1
      /\ \A j \in 1..(Len(s) + 1) :
            (m \o b)[j] = IF j < i THEN s[j] ELSE IF j = i THEN e ELSE s[j-1]
  <2>1. /\ m \o b \in Seq(S)
        /\ Len(m \o b) = Len(m) + Len(b)
        /\ \A j \in 1..(Len(m) + Len(b)) :
              (m \o b)[j] = IF j <= Len(m) THEN m[j] ELSE b[j - Len(m)]
    BY <1>2, <1>4, ConcatProperties, Zenon
  <2>2. Len(s) \in Nat /\ Len(m) + Len(b) = Len(s) + 1
    BY <1>2, <1>4, LenProperties
  <2>3. ASSUME NEW j \in 1..(Len(s) + 1)
        PROVE  (m \o b)[j] = IF j < i THEN s[j] ELSE IF j = i THEN e ELSE s[j-1]
    <3>1. CASE j <= i
      BY <3>1, <2>1, <2>2, <1>4
    <3>2. CASE j > i
      <4>1. j - i \in 1..(Len(s)+1-i) /\ b[j-i] = s[i+(j-i)-1]
        BY <3>2, <2>2, <1>2
      <4>2. i+(j-i)-1 = j-1
        OBVIOUS
      <4> QED BY <3>2, <4>1, <4>2, <2>1, <2>2, <1>4
    <3> QED BY <3>1, <3>2, <2>2
  <2> QED BY <2>1, <2>2, <2>3, Zenon
<1> QED BY <1>5, Zenon DEF Inserted, InsertAt, m, a, b

(* The walk of pq_insert ends at a position of the list, and in an ordered *)
(* list it separates the tasks that keep their place before the new one    *)
(* from those that go behind it.                                           *)
LEMMA InsertPosProperties ==
  ASSUME NEW q \in Seq(Task), NEW prio \in Prios, Ordered(q)
  PROVE  /\ InsertPos(q, prio) \in 1..(Len(q) + 1)
         /\ \A j \in 1..Len(q) : j < InsertPos(q, prio) => q[j].priority >= prio
         /\ \A j \in 1..Len(q) : j >= InsertPos(q, prio) => prio >= q[j].priority
         /\ q # <<>> /\ InsertPos(q, prio) = 1 => prio > q[1].priority
<1> DEFINE k == InsertPos(q, prio)
           W == StopsWalk(q, prio)
<1>0. /\ Len(q) \in Nat /\ DOMAIN q = 1..Len(q) /\ prio \in Int
      /\ \A j \in 1..Len(q) : q[j] \in Task /\ q[j].priority \in Int
  <2>1. \A j \in 1..Len(q) : q[j] \in Task
    BY ElementOfSeq, Zenon
  <2> QED BY <2>1, LenProperties, PipeRTAssumption, Zenon DEF Task
<1>1. CASE q = <<>> \/ prio > q[1].priority
  <2>1. k = 1
    BY <1>1, Zenon DEF InsertPos
  <2>2. ASSUME NEW j \in 1..Len(q) PROVE prio >= q[j].priority
    BY <1>0, <1>1, <2>2 DEF Ordered
  <2>3. q # <<>> => prio > q[1].priority
    BY <1>1, Zenon
  <2> HIDE DEF k
  <2> QED BY <1>0, <2>1, <2>2, <2>3 DEF k
<1>2. CASE ~(q = <<>> \/ prio > q[1].priority)
  <2>1. W \subseteq 1..(Len(q) + 1) /\ W # {}
    BY <1>0 DEF StopsWalk
  <2>2. \E x \in W : \A y \in W : x <= y
    <3>1. Len(q) + 1 \in Nat
      BY <1>0
    <3> HIDE DEF W
    <3> QED BY <2>1, <3>1, LeastInInterval, Zenon
  <2>3. k = CHOOSE i \in W : \A j \in W : i <= j
    BY <1>2 DEF InsertPos
  <2>4. k \in W /\ \A j \in W : k <= j
    <3> HIDE DEF W, k
    <3> QED BY <2>2, <2>3
  <2> HIDE DEF k
  <2>5. k \in 2..(Len(q) + 1)
    <3>1. Len(q) >= 1
      BY <1>2, <1>0, EmptySeq
    <3> QED BY <3>1, <2>4, <1>0 DEF StopsWalk
  <2>6. \A j \in 2..Len(q) : j < k => q[j].priority > prio
    BY <2>4, <2>5, <1>0 DEF StopsWalk
  <2>7. q[1].priority >= prio
    <3>1. Len(q) >= 1
      BY <1>2, <1>0, EmptySeq
    <3> QED BY <1>2, <1>0, <3>1
  <2>8. \A j \in 1..Len(q) : j < k => q[j].priority >= prio
    BY <2>6, <2>7, <1>0
  <2>9. ASSUME NEW j \in 1..Len(q), j >= k PROVE prio >= q[j].priority
    <3>1. k \in 2..Len(q) /\ ~(q[k].priority > prio)
      BY <2>4, <2>5, <2>9, <1>0 DEF StopsWalk
    <3>2. q[k].priority >= q[j].priority
      BY <3>1, <2>9, <1>0 DEF Ordered
    <3> QED BY <3>1, <3>2, <1>0
  <2> QED BY <2>5, <2>8, <2>9, <1>0 DEF k
<1> QED BY <1>1, <1>2, Zenon

(* The elements of a sequence.                                             *)
Elements(q) == {q[i] : i \in DOMAIN q}

(* No two tasks of the list carry the same write number.                   *)
DistinctIds(q) == \A i, j \in DOMAIN q : q[i].id = q[j].id => i = j

(* pq_insert keeps the list ordered, adds exactly the new task, and moves  *)
(* the head only for a task of strictly higher priority.                   *)
LEMMA InsertProperties ==
  ASSUME NEW q \in Seq(Task), NEW t \in Task, Ordered(q)
  PROVE  /\ pq_insert(q, t) \in Seq(Task)
         /\ Len(pq_insert(q, t)) = Len(q) + 1
         /\ Ordered(pq_insert(q, t))
         /\ Elements(pq_insert(q, t)) = Elements(q) \cup {t}
         /\ DistinctIds(q) /\ (\A i \in DOMAIN q : q[i].id # t.id)
               => DistinctIds(pq_insert(q, t))
         /\ q # <<>> => \/ pq_insert(q, t)[1] = q[1]
                        \/ pq_insert(q, t)[1].priority > q[1].priority
<1> DEFINE k == InsertPos(q, t.priority)
           r == pq_insert(q, t)
<1>0. /\ Len(q) \in Nat /\ DOMAIN q = 1..Len(q) /\ t.priority \in Prios
      /\ t.priority \in Int
      /\ \A j \in 1..Len(q) : q[j] \in Task /\ q[j].priority \in Int
  <2>1. \A j \in 1..Len(q) : q[j] \in Task
    BY ElementOfSeq
  <2> QED BY <2>1, LenProperties, PipeRTAssumption, Zenon DEF Task
<1>1. /\ k \in 1..(Len(q) + 1)
      /\ \A j \in 1..Len(q) : j < k => q[j].priority >= t.priority
      /\ \A j \in 1..Len(q) : j >= k => t.priority >= q[j].priority
      /\ q # <<>> /\ k = 1 => t.priority > q[1].priority
  BY <1>0, InsertPosProperties
<1> HIDE DEF k
<1>2. /\ r \in Seq(Task) /\ Len(r) = Len(q) + 1 /\ DOMAIN r = 1..(Len(q) + 1)
      /\ \A j \in 1..(Len(q) + 1) :
            r[j] = IF j < k THEN q[j] ELSE IF j = k THEN t ELSE q[j-1]
  <2>1. r = InsertAt(q, k, t)
    BY Zenon DEF pq_insert, k
  <2>2. /\ r \in Seq(Task) /\ Len(r) = Len(q) + 1
        /\ \A j \in 1..(Len(q) + 1) :
              r[j] = IF j < k THEN q[j] ELSE IF j = k THEN t ELSE q[j-1]
    <3>1. k \in 1..(Len(q) + 1)
      BY <1>1, Zenon
    <3>2. Inserted(InsertAt(q, k, t), q, k, t, Task)
      BY <3>1, InsertAtProperties, Zenon
    <3>3. Inserted(r, q, k, t, Task)
      BY <2>1, <3>2, Zenon
    <3> HIDE DEF r
    <3> QED BY <3>3, Zenon DEF Inserted
  <2> QED BY <2>2, LenProperties, Zenon
<1> HIDE DEF r
<1>3. Ordered(r)
  <2> SUFFICES ASSUME NEW i \in 1..(Len(q)+1), NEW j \in 1..(Len(q)+1), i < j
               PROVE  r[i].priority >= r[j].priority
    BY <1>2, Zenon DEF Ordered
  <2>1. CASE i < k /\ j < k
    <3>1. r[i] = q[i] /\ r[j] = q[j] /\ i \in 1..Len(q) /\ j \in 1..Len(q)
      BY <2>1, <1>0, <1>1, <1>2
    <3> QED BY <3>1, <1>0, Zenon DEF Ordered
  <2>2. CASE i < k /\ j = k
    <3>1. r[i] = q[i] /\ r[j] = t /\ i \in 1..Len(q)
      BY <2>2, <1>0, <1>1, <1>2
    <3> QED BY <3>1, <2>2, <1>0, <1>1, Zenon
  <2>3. CASE i < k /\ j > k
    <3>1. r[i] = q[i] /\ r[j] = q[j-1] /\ i < j-1 /\ i \in 1..Len(q) /\ j-1 \in 1..Len(q)
      BY <2>3, <1>0, <1>1, <1>2
    <3> QED BY <3>1, <1>0, Zenon DEF Ordered
  <2>4. CASE i = k
    <3>1. r[i] = t /\ r[j] = q[j-1] /\ j-1 >= k /\ j-1 \in 1..Len(q)
      BY <2>4, <1>0, <1>1, <1>2
    <3> QED BY <3>1, <1>0, <1>1, Zenon
  <2>5. CASE i > k
    <3>1. /\ r[i] = q[i-1] /\ r[j] = q[j-1] /\ i-1 < j-1
          /\ i-1 \in 1..Len(q) /\ j-1 \in 1..Len(q)
      BY <2>5, <1>0, <1>1, <1>2
    <3> QED BY <3>1, <1>0 DEF Ordered
  <2> QED BY <2>1, <2>2, <2>3, <2>4, <2>5, <1>0, <1>1
<1>4. Elements(r) = Elements(q) \cup {t}
  <2>1. ASSUME NEW j \in 1..(Len(q)+1) PROVE r[j] \in Elements(q) \cup {t}
    <3>1. CASE j < k
      <4>1. r[j] = q[j] /\ j \in 1..Len(q)
        BY <3>1, <1>0, <1>1, <1>2
      <4> QED BY <4>1, <1>0, Zenon DEF Elements
    <3>2. CASE j = k
      BY <3>2, <1>1, <1>2
    <3>3. CASE j > k
      <4>1. r[j] = q[j-1] /\ j-1 \in 1..Len(q)
        BY <3>3, <1>0, <1>1, <1>2
      <4> QED BY <4>1, <1>0 DEF Elements
    <3> QED BY <3>1, <3>2, <3>3, <1>0, <1>1
  <2>2. ASSUME NEW j \in 1..Len(q) PROVE q[j] \in Elements(r)
    <3>1. CASE j < k
      <4>1. j \in 1..(Len(q)+1) /\ r[j] = q[j]
        BY <3>1, <1>0, <1>1, <1>2
      <4> QED BY <4>1, <1>2, Zenon DEF Elements
    <3>2. CASE j >= k
      <4>1. j+1 \in 1..(Len(q)+1) /\ r[j+1] = q[j]
        BY <3>2, <1>0, <1>1, <1>2
      <4> QED BY <4>1, <1>2 DEF Elements
    <3> QED BY <3>1, <3>2, <1>0, <1>1
  <2>3. t \in Elements(r)
    BY <1>1, <1>2 DEF Elements
  <2> QED BY <2>1, <2>2, <2>3, <1>0, <1>2, Zenon DEF Elements
<1>5. ASSUME DistinctIds(q), \A i \in DOMAIN q : q[i].id # t.id
      PROVE  DistinctIds(r)
  <2> SUFFICES ASSUME NEW i \in 1..(Len(q)+1), NEW j \in 1..(Len(q)+1),
                      r[i].id = r[j].id, i < j
               PROVE  FALSE
    BY <1>0, <1>2 DEF DistinctIds
  <2>1. CASE i < k /\ j < k
    <3>1. r[i] = q[i] /\ r[j] = q[j] /\ i \in 1..Len(q) /\ j \in 1..Len(q)
      BY <2>1, <1>0, <1>1, <1>2
    <3> QED BY <3>1, <1>0, <1>5 DEF DistinctIds
  <2>2. CASE i < k /\ j = k
    <3>1. r[i] = q[i] /\ r[j] = t /\ i \in 1..Len(q)
      BY <2>2, <1>0, <1>1, <1>2
    <3> QED BY <3>1, <1>0, <1>5, Zenon
  <2>3. CASE i < k /\ j > k
    <3>1. r[i] = q[i] /\ r[j] = q[j-1] /\ i < j-1 /\ i \in 1..Len(q) /\ j-1 \in 1..Len(q)
      BY <2>3, <1>0, <1>1, <1>2
    <3> QED BY <3>1, <1>0, <1>5 DEF DistinctIds
  <2>4. CASE i = k
    <3>1. r[i] = t /\ r[j] = q[j-1] /\ j-1 \in 1..Len(q)
      BY <2>4, <1>0, <1>1, <1>2
    <3> QED BY <3>1, <1>0, <1>5, Zenon
  <2>5. CASE i > k
    <3>1. /\ r[i] = q[i-1] /\ r[j] = q[j-1] /\ i-1 < j-1
          /\ i-1 \in 1..Len(q) /\ j-1 \in 1..Len(q)
      BY <2>5, <1>0, <1>1, <1>2
    <3> QED BY <3>1, <1>0, <1>5 DEF DistinctIds
  <2> QED BY <2>1, <2>2, <2>3, <2>4, <2>5, <1>0, <1>1
<1>6. q # <<>> => r[1] = q[1] \/ r[1].priority > q[1].priority
  BY <1>0, <1>1, <1>2
<1> QED BY <1>2, <1>3, <1>4, <1>5, <1>6, Zenon DEF r

(* pq_remove: what is left after the head is taken.                        *)
LEMMA RemoveProperties ==
  ASSUME NEW q \in Seq(Task), q # <<>>, Ordered(q), DistinctIds(q)
  PROVE  /\ Head(q) \in Task /\ Tail(q) \in Seq(Task)
         /\ Len(Tail(q)) = Len(q) - 1
         /\ Ordered(Tail(q)) /\ DistinctIds(Tail(q))
         /\ Head(q) \in Elements(q)
         /\ Elements(Tail(q)) = Elements(q) \ {Head(q)}
         /\ \A u \in Elements(q) : Head(q).priority >= u.priority
         /\ \A u \in Elements(q) : u.id = Head(q).id => u = Head(q)
<1> DEFINE r == Tail(q)
<1>0. /\ Len(q) \in Nat /\ Len(q) >= 1 /\ DOMAIN q = 1..Len(q)
      /\ \A j \in 1..Len(q) : q[j] \in Task /\ q[j].priority \in Int
  <2>1. \A j \in 1..Len(q) : q[j] \in Task
    BY ElementOfSeq
  <2>2. Len(q) \in Nat /\ DOMAIN q = 1..Len(q)
    BY LenProperties
  <2>3. Len(q) >= 1
    BY <2>2, EmptySeq
  <2> QED BY <2>1, <2>2, <2>3, PipeRTAssumption, Zenon DEF Task
<1>1. /\ Head(q) = q[1] /\ Head(q) \in Task
      /\ r \in Seq(Task) /\ Len(r) = Len(q) - 1
      /\ \A i \in 1..Len(r) : r[i] = q[i+1]
  BY HeadTailProperties
<1> HIDE DEF r
<1>2. DOMAIN r = 1..(Len(q) - 1)
  BY <1>1, LenProperties, Zenon
<1>3. ASSUME NEW i \in 1..(Len(q)-1), NEW j \in 1..(Len(q)-1)
      PROVE  /\ i < j => r[i].priority >= r[j].priority
             /\ r[i].id = r[j].id => i = j
  <2>1. /\ r[i] = q[i+1] /\ r[j] = q[j+1]
        /\ i+1 \in DOMAIN q /\ j+1 \in DOMAIN q /\ (i < j => i+1 < j+1)
    BY <1>0, <1>1
  <2> QED BY <2>1 DEF Ordered, DistinctIds
<1>4. Ordered(r) /\ DistinctIds(r)
  BY <1>2, <1>3, Zenon DEF Ordered, DistinctIds
<1>5. ASSUME NEW j \in 1..Len(q) PROVE q[1].priority >= q[j].priority
  BY <1>0 DEF Ordered
<1>6. ASSUME NEW j \in 1..Len(q), q[j].id = q[1].id PROVE j = 1
  BY <1>0, <1>6 DEF DistinctIds
<1>7. Elements(r) = Elements(q) \ {q[1]}
  <2>1. ASSUME NEW i \in 1..(Len(q) - 1) PROVE r[i] \in Elements(q) \ {q[1]}
    <3>1. r[i] = q[i+1] /\ i+1 \in 1..Len(q) /\ i+1 # 1
      BY <1>0, <1>1
    <3> QED BY <3>1, <1>0, <1>6, Zenon DEF Elements
  <2>2. ASSUME NEW j \in 1..Len(q), q[j] # q[1] PROVE q[j] \in Elements(r)
    <3>1. j-1 \in 1..(Len(q)-1) /\ r[j-1] = q[j]
      BY <2>2, <1>0, <1>1
    <3> QED BY <3>1, <1>2, Zenon DEF Elements
  <2> QED BY <2>1, <2>2, <1>0, <1>2, Zenon DEF Elements
<1>8. /\ q[1] \in Elements(q)
      /\ \A u \in Elements(q) : q[1].priority >= u.priority
      /\ \A u \in Elements(q) : u.id = q[1].id => u = q[1]
  BY <1>0, <1>5, <1>6 DEF Elements
<1> QED BY <1>1, <1>4, <1>7, <1>8, Zenon DEF r
-----------------------------------------------------------------------------
(* The inductive invariant.  Besides the properties themselves it says     *)
(* that a process about to run pipe_rt_close is the only one that still    *)
(* has to do with that end, and that a process not yet forked holds no     *)
(* descriptor: without the first, nread and nwrite could drop below 0.     *)
CloseExclusive ==
    \A e \in Ends, p \in Procs : pc[p] = ClosingPC(e) =>
        \A o \in Procs : e \notin holds[o] /\ (pc[o] = ClosingPC(e) => o = p)

UnbornHoldNothing == \A p \in Procs : pc[p] = "unborn" => holds[p] = {}

EndInv == EndCounts /\ CloseExclusive /\ UnbornHoldNothing

QueueInv == PriorityOrder /\ TaskAccounting

IInv == /\ TypeOK /\ EndInv /\ QueueInv
        /\ NoLostWakeup /\ PageAccounting /\ ClosedIsEmpty

(* The initial state satisfies the inductive invariant.                    *)
LEMMA InitIInv == Init => IInv
<1> SUFFICES ASSUME Init PROVE IInv
  OBVIOUS
<1>1. PICK p \in Procs : pc = [q \in Procs |-> IF q = p THEN "user" ELSE "unborn"]
  BY Zenon DEF Init
<1>2. TypeOK
  <2>1. pc \in [Procs -> PCs]
    BY <1>1 DEF PCs
  <2>2. queue \in Seq(Task) /\ got \subseteq 1..nsent /\ dropped \subseteq 1..nsent
    BY DEF Init
  <2> QED BY <2>1, <2>2, Zenon DEF Init, TypeOK
<1>3. ~EndOpen("r") /\ ~EndOpen("w")
  BY <1>1 DEF Init, EndOpen, ClosingPC
<1>4. EndInv
  BY <1>1, <1>3 DEF Init, EndInv, EndCounts, CloseExclusive, UnbornHoldNothing,
                    ClosingPC, Ends
<1>5. QueueInv
  <2>1. queue = <<>> /\ DOMAIN queue = {} /\ nsent = 0 /\ got = {} /\ dropped = {}
    BY DEF Init
  <2>2. PriorityOrder
    BY <2>1, Zenon DEF PriorityOrder, Ordered
  <2>3. QueuedIds = {} /\ 1..nsent = {}
    BY <2>1 DEF QueuedIds
  <2> QED BY <2>1, <2>2, <2>3, Zenon DEF QueueInv, TaskAccounting
<1>6. NoLostWakeup
  BY <1>1, Zenon DEF Init, NoLostWakeup
<1>7. PageAccounting /\ ClosedIsEmpty
  BY Zenon DEF Init, PageAccounting, ClosedIsEmpty
<1> QED BY <1>2, <1>4, <1>5, <1>6, <1>7, Zenon DEF IInv

(* The descriptor part of the invariant is kept by every step.             *)
LEMMA EndStep == IInv /\ [Next]_vars => EndInv'
<1> SUFFICES ASSUME IInv, [Next]_vars PROVE EndInv'
  OBVIOUS
<1>0. TypeOK /\ EndInv
  BY DEF IInv
<1> USE DEF Ends
<1>1. ASSUME NEW p \in Procs, sys_pipe_rt(p) PROVE EndInv'
  <2>1. ~active /\ ~EndOpen("r") /\ ~EndOpen("w") /\ nread = 0 /\ nwrite = 0
    BY <1>1, <1>0 DEF IInv, sys_pipe_rt, pipe_rt_alloc, PageAccounting, EndInv, EndCounts, TypeOK
  <2> QED
    BY <1>0, <1>1, <2>1 DEF sys_pipe_rt, pipe_rt_alloc, EndInv, EndCounts, CloseExclusive,
          UnbornHoldNothing, EndOpen, ClosingPC, TypeOK
<1>2. ASSUME NEW p \in Procs, NEW c \in Procs, fork(p, c) PROVE EndInv'
  <2>1. \A e \in Ends : EndOpen(e)' <=> EndOpen(e)
    BY <1>0, <1>2, Zenon DEF fork, EndInv, UnbornHoldNothing, EndOpen, ClosingPC, TypeOK
  <2> QED
    BY <1>0, <1>2, <2>1, Zenon DEF fork, EndInv, EndCounts, CloseExclusive,
          UnbornHoldNothing, ClosingPC, TypeOK
<1>3. ASSUME NEW p \in Procs, kill(p) PROVE EndInv'
  <2>1. \A e \in Ends, o \in Procs : pc'[o] = ClosingPC(e) <=> pc[o] = ClosingPC(e)
    BY <1>0, <1>3, Zenon DEF kill, ClosingPC, TypeOK
  <2>2. \A o \in Procs : pc'[o] = "unborn" <=> pc[o] = "unborn"
    BY <1>0, <1>3, Zenon DEF kill, TypeOK
  <2> QED
    BY <1>0, <1>3, <2>1, <2>2 DEF kill, EndInv, EndCounts, CloseExclusive,
          UnbornHoldNothing, EndOpen
<1>4. ASSUME pc' = wakeup, UNCHANGED <<nread, nwrite, active, holds>> PROVE EndInv'
  <2>1. \A e \in Ends, o \in Procs : pc'[o] = ClosingPC(e) <=> pc[o] = ClosingPC(e)
    BY <1>0, <1>4, Zenon DEF wakeup, ClosingPC, TypeOK
  <2>2. \A o \in Procs : pc'[o] = "unborn" <=> pc[o] = "unborn"
    BY <1>0, <1>4, Zenon DEF wakeup, TypeOK
  <2> QED
    BY <1>0, <1>4, <2>1, <2>2 DEF EndInv, EndCounts, CloseExclusive,
          UnbornHoldNothing, EndOpen
<1>5. ASSUME NEW p \in Procs, EnterRead(p) \/ pipe_rt_read(p) PROVE EndInv'
  <2>1. UNCHANGED <<nread, nwrite, active, holds>>
    BY <1>5, Zenon DEF EnterRead, pipe_rt_read, ReadSleeps, ReadEmpty, ReadTask, pq_remove
  <2>2. \A e \in Ends, o \in Procs : pc'[o] = ClosingPC(e) <=> pc[o] = ClosingPC(e)
    BY <1>0, <1>5, Zenon DEF ClosingPC, TypeOK,
          EnterRead, pipe_rt_read, ReadSleeps, ReadEmpty, ReadTask, pq_remove
  <2>3. \A o \in Procs : pc'[o] = "unborn" <=> pc[o] = "unborn"
    BY <1>0, <1>5, Zenon DEF TypeOK,
          EnterRead, pipe_rt_read, ReadSleeps, ReadEmpty, ReadTask, pq_remove
  <2> QED
    BY SMTT(30), <1>0, <2>1, <2>2, <2>3 DEF EndInv, EndCounts, CloseExclusive,
          UnbornHoldNothing, EndOpen
<1>6. ASSUME NEW p \in Procs, NEW e \in Ends, fileclose(p, e) PROVE EndInv'
  <2>1. \A f \in Ends : EndOpen(f)' <=> EndOpen(f)
    BY <1>0, <1>6, Zenon DEF fileclose, EndOpen, ClosingPC, TypeOK
  <2>2. CloseExclusive'
    BY <1>0, <1>6 DEF fileclose, EndInv, CloseExclusive, ClosingPC, TypeOK
  <2> QED
    BY SMTT(30), <1>0, <1>6, <2>1, <2>2 DEF fileclose, EndInv, EndCounts,
          UnbornHoldNothing, ClosingPC, TypeOK
<1>7. ASSUME NEW p \in Procs, NEW e \in Ends, pipe_rt_close(p, e) PROVE EndInv'
  <2>1. \A f \in Ends, o \in Procs :
           pc'[o] = ClosingPC(f) <=> pc[o] = ClosingPC(f) /\ o # p
    BY <1>0, <1>7, Zenon DEF pipe_rt_close, ClosingPC, wakeup, TypeOK
  <2>2. \A o \in Procs : pc'[o] = "unborn" <=> pc[o] = "unborn"
    BY <1>0, <1>7, Zenon DEF pipe_rt_close, ClosingPC, wakeup, TypeOK
  <2>3. holds' = holds
    BY <1>7, Zenon DEF pipe_rt_close
  <2>4. EndOpen(e) /\ ~EndOpen(e)'
    BY <1>0, <1>7, <2>1, <2>3, Zenon DEF pipe_rt_close, EndOpen, EndInv, CloseExclusive
  <2>5. \A f \in Ends \ {e} : EndOpen(f)' <=> EndOpen(f)
    BY <1>0, <1>7, <2>1, <2>3, Zenon DEF pipe_rt_close, EndOpen, ClosingPC
  <2>6. EndCounts'
    BY SMTT(30), <1>0, <1>7, <2>4, <2>5 DEF pipe_rt_close, EndInv, EndCounts, TypeOK
  <2> QED
    BY <1>0, <2>1, <2>2, <2>3, <2>6 DEF EndInv, CloseExclusive, UnbornHoldNothing
<1>8. CASE UNCHANGED vars
  BY SMTT(30), <1>0, <1>8 DEF vars, EndInv, EndCounts, CloseExclusive, UnbornHoldNothing,
        EndOpen
<1> QED
  BY <1>1, <1>2, <1>3, <1>4, <1>5, <1>6, <1>7, <1>8, Zenon
     DEF Next, WriteNoMemory, pipe_rt_write

(* The task part of the invariant is kept by every step.                   *)
LEMMA QueueStep == IInv /\ [Next]_vars => QueueInv' /\ (queue \in Seq(Task))'
<1> SUFFICES ASSUME IInv, [Next]_vars PROVE QueueInv' /\ queue' \in Seq(Task)
  OBVIOUS
<1>0. /\ queue \in Seq(Task) /\ nsent \in Nat /\ Ordered(queue)
      /\ QueuedIds = {u.id : u \in Elements(queue)}
      /\ QueuedIds \cup got \cup dropped = 1..nsent
      /\ got \cap dropped = {} /\ QueuedIds \cap (got \cup dropped) = {}
      /\ DistinctIds(queue)
  BY DEF IInv, TypeOK, QueueInv, PriorityOrder, TaskAccounting, DistinctIds,
         Elements, QueuedIds
<1>1. ASSUME NEW p \in Procs, NEW prio \in Prios, pipe_rt_write(p, prio)
      PROVE  QueueInv' /\ queue' \in Seq(Task)
  <2> DEFINE t == [priority |-> prio, id |-> nsent + 1]
  <2>1. t \in Task /\ t.id = nsent + 1
    BY <1>0 DEF Task
  <2>2. queue' = pq_insert(queue, t) /\ nsent' = nsent + 1 /\ UNCHANGED <<got, dropped>>
    BY <1>1, Zenon DEF pipe_rt_write
  <2>3. \A i \in DOMAIN queue : queue[i].id # nsent + 1
    <3>1. \A i \in DOMAIN queue : queue[i].id \in 1..nsent
      BY <1>0 DEF QueuedIds
    <3> QED BY <3>1, <1>0
  <2> HIDE DEF t
  <2>4. /\ queue' \in Seq(Task) /\ Ordered(queue') /\ DistinctIds(queue')
        /\ Elements(queue') = Elements(queue) \cup {t}
    BY <1>0, <2>1, <2>2, <2>3, InsertProperties, Zenon
  <2>5. QueuedIds' = {u.id : u \in Elements(queue')}
    BY DEF QueuedIds, Elements
  <2>6. QueuedIds' = QueuedIds \cup {nsent + 1}
    BY <1>0, <2>1, <2>4, <2>5
  <2>7. 1..(nsent + 1) = 1..nsent \cup {nsent + 1} /\ nsent + 1 \notin 1..nsent
    BY <1>0
  <2> QED
    BY <1>0, <2>2, <2>4, <2>6, <2>7
       DEF QueueInv, PriorityOrder, TaskAccounting, DistinctIds
<1>2. ASSUME NEW p \in Procs, WriteNoMemory(p)
      PROVE  QueueInv' /\ queue' \in Seq(Task)
  <2>1. 1..(nsent + 1) = 1..nsent \cup {nsent + 1} /\ nsent + 1 \notin 1..nsent
    BY <1>0
  <2>2. QueuedIds' = QueuedIds /\ queue' = queue
    BY <1>2, Zenon DEF WriteNoMemory, QueuedIds
  <2> QED
    BY <1>0, <1>2, <2>1, <2>2
       DEF WriteNoMemory, QueueInv, PriorityOrder, TaskAccounting, DistinctIds
<1>3. ASSUME NEW p \in Procs, ReadTask(p) PROVE QueueInv' /\ queue' \in Seq(Task)
  <2>1. queue # <<>> /\ queue' = Tail(queue) /\ nsent' = nsent
    BY <1>3, Zenon DEF ReadTask, pq_remove
  <2>2. /\ queue' \in Seq(Task) /\ Ordered(queue') /\ DistinctIds(queue')
        /\ Head(queue) \in Elements(queue)
        /\ Elements(queue') = Elements(queue) \ {Head(queue)}
        /\ \A u \in Elements(queue) : u.id = Head(queue).id => u = Head(queue)
    BY <1>0, <2>1, RemoveProperties, Zenon
  <2>3. QueuedIds' = {u.id : u \in Elements(queue')}
    BY Zenon DEF QueuedIds, Elements
  <2>4. QueuedIds' = QueuedIds \ {Head(queue).id} /\ Head(queue).id \in QueuedIds
    BY <1>0, <2>2, <2>3, Zenon
  <2>5. \/ got' = got \cup {Head(queue).id} /\ dropped' = dropped
        \/ dropped' = dropped \cup {Head(queue).id} /\ got' = got
    BY <1>3, Zenon DEF ReadTask, pq_remove
  <2>6. TaskAccounting'
    <3>1. /\ QueuedIds' \cup got' \cup dropped' = 1..nsent
          /\ got' \cap dropped' = {} /\ QueuedIds' \cap (got' \cup dropped') = {}
      BY <1>0, <2>4, <2>5
    <3> QED BY <3>1, <2>1, <2>2, Zenon DEF TaskAccounting, DistinctIds
  <2> QED BY <2>2, <2>6, Zenon DEF QueueInv, PriorityOrder
<1>4. ASSUME NEW p \in Procs, NEW e \in Ends, pipe_rt_close(p, e)
      PROVE  QueueInv' /\ queue' \in Seq(Task)
  <2>1. CASE UNCHANGED <<queue, dropped>>
    BY <1>0, <1>4, <2>1
       DEF pipe_rt_close, QueueInv, PriorityOrder, TaskAccounting, QueuedIds, DistinctIds
  <2>2. CASE queue' = <<>> /\ dropped' = dropped \cup QueuedIds
    <3>1. QueuedIds' = {} /\ queue' \in Seq(Task) /\ DOMAIN queue' = {}
      BY <2>2 DEF QueuedIds
    <3>2. got' = got /\ nsent' = nsent
      BY <1>4, Zenon DEF pipe_rt_close
    <3> QED
      BY <1>0, <2>2, <3>1, <3>2, Zenon DEF QueueInv, PriorityOrder, Ordered, TaskAccounting
  <2> QED BY <1>4, <2>1, <2>2, Zenon DEF pipe_rt_close, QueuedIds
<1>5. CASE UNCHANGED <<queue, nsent, got, dropped>>
  BY <1>0, <1>5 DEF QueueInv, PriorityOrder, TaskAccounting, QueuedIds, DistinctIds
<1> QED
  BY <1>1, <1>2, <1>3, <1>4, <1>5, Zenon
     DEF Next, vars, sys_pipe_rt, pipe_rt_alloc, fork, kill, EnterRead, pipe_rt_read,
         ReadSleeps, ReadEmpty, fileclose

(* Types, sleeping readers and pages are kept by every step.               *)
LEMMA RestStep ==
  IInv /\ [Next]_vars =>
     TypeOK' /\ NoLostWakeup' /\ PageAccounting' /\ ClosedIsEmpty'
<1> SUFFICES ASSUME IInv, [Next]_vars
             PROVE  TypeOK' /\ NoLostWakeup' /\ PageAccounting' /\ ClosedIsEmpty'
  OBVIOUS
<1>0. /\ TypeOK /\ EndInv /\ NoLostWakeup /\ PageAccounting /\ ClosedIsEmpty
      /\ EndCounts /\ EndCounts' /\ QueueInv' /\ queue' \in Seq(Task)
      /\ Len(queue) \in Nat /\ (Len(queue) = 0 <=> queue = <<>>)
  <2>1. EndInv' /\ QueueInv' /\ queue' \in Seq(Task)
    BY EndStep, QueueStep, Zenon
  <2>2. queue \in Seq(Task)
    BY DEF IInv, TypeOK
  <2>3. Len(queue) \in Nat /\ (Len(queue) = 0 <=> queue = <<>>)
    BY <2>2, LenProperties, EmptySeq, Zenon
  <2> QED BY <2>1, <2>3, Zenon DEF IInv, EndInv
<1>1. nread' \in {0, 1} /\ nwrite' \in {0, 1}
  BY <1>0, Zenon DEF EndCounts
<1>2. nsent' \in Nat => got' \subseteq 1..nsent' /\ dropped' \subseteq 1..nsent'
  BY <1>0, Zenon DEF QueueInv, TaskAccounting
<1>3. nread = 0 /\ nwrite = 0 => queue = <<>>
  BY <1>0 DEF ClosedIsEmpty, EndCounts
<1>4. (nread' = 0 /\ nwrite' = 0 => queue' = <<>>) => ClosedIsEmpty'
  BY <1>0, Zenon DEF ClosedIsEmpty, EndCounts
<1> DEFINE Goal == /\ TypeOK' /\ NoLostWakeup' /\ PageAccounting'
                   /\ nread' = 0 /\ nwrite' = 0 => queue' = <<>>
<1>5. ASSUME NEW p \in Procs, sys_pipe_rt(p) PROVE Goal
  <2>1. pages = 0 /\ queue = <<>> /\ ~active
    BY <1>0, <1>5, Zenon DEF sys_pipe_rt, pipe_rt_alloc, PageAccounting
  <2>2. TypeOK'
    BY <1>0, <1>1, <1>2, <1>5, Zenon DEF sys_pipe_rt, pipe_rt_alloc, TypeOK
  <2> QED BY <1>0, <1>5, <2>1, <2>2 DEF sys_pipe_rt, pipe_rt_alloc, NoLostWakeup, PageAccounting
<1>6. ASSUME NEW p \in Procs, NEW c \in Procs, fork(p, c) PROVE Goal
  <2>1. TypeOK'
    BY SMTT(30), <1>0, <1>1, <1>2, <1>6 DEF fork, TypeOK, PCs
  <2> QED BY <1>0, <1>3, <1>6, <2>1 DEF fork, NoLostWakeup, PageAccounting, TypeOK
<1>7. ASSUME NEW p \in Procs, kill(p) PROVE Goal
  <2>1. TypeOK'
    BY <1>0, <1>1, <1>2, <1>7, Zenon DEF kill, TypeOK, PCs
  <2> QED BY <1>0, <1>3, <1>7, <2>1, Zenon DEF kill, NoLostWakeup, PageAccounting, TypeOK
<1>8. ASSUME NEW p \in Procs, WriteNoMemory(p) PROVE Goal
  <2>1. TypeOK'
    BY <1>0, <1>1, <1>2, <1>8 DEF WriteNoMemory, wakeup, TypeOK, PCs
  <2> QED
    BY <1>0, <1>3, <1>8, <2>1, Zenon DEF WriteNoMemory, wakeup, NoLostWakeup, PageAccounting
<1>9. ASSUME NEW p \in Procs, NEW prio \in Prios, pipe_rt_write(p, prio) PROVE Goal
  <2>1. TypeOK'
    BY SMTT(30), <1>0, <1>1, <1>2, <1>9 DEF pipe_rt_write, wakeup, TypeOK, PCs
  <2>2. Len(queue') = Len(queue) + 1
    <3>1. [priority |-> prio, id |-> nsent + 1] \in Task
      BY <1>0 DEF Task, TypeOK
    <3> QED
      BY <1>0, <1>9, <3>1, InsertProperties, Zenon
         DEF pipe_rt_write, IInv, QueueInv, PriorityOrder, TypeOK
  <2>3. PageAccounting'
    BY <1>0, <1>9, <2>2 DEF pipe_rt_write, PageAccounting, TypeOK
  <2> QED BY <1>0, <1>9, <2>1, <2>3 DEF pipe_rt_write, wakeup, NoLostWakeup
<1>10. ASSUME NEW p \in Procs, EnterRead(p) PROVE Goal
  <2>1. TypeOK'
    BY SMTT(30), <1>0, <1>1, <1>2, <1>10 DEF EnterRead, TypeOK, PCs
  <2> QED
    BY <1>0, <1>3, <1>10, <2>1, Zenon DEF EnterRead, NoLostWakeup, PageAccounting, TypeOK
<1>11. ASSUME NEW p \in Procs, ReadSleeps(p) \/ ReadEmpty(p) PROVE Goal
  <2>1. TypeOK'
    BY <1>0, <1>1, <1>2, <1>11, Zenon DEF ReadSleeps, ReadEmpty, TypeOK, PCs
  <2> QED
    BY <1>0, <1>3, <1>11, <2>1, Zenon
       DEF ReadSleeps, ReadEmpty, NoLostWakeup, PageAccounting, TypeOK
<1>12. ASSUME NEW p \in Procs, ReadTask(p) PROVE Goal
  <2>1. Len(queue') = Len(queue) - 1 /\ queue # <<>>
    <3>1. queue \in Seq(Task) /\ queue # <<>> /\ queue' = Tail(queue)
      BY <1>0, <1>12, Zenon DEF ReadTask, pq_remove, TypeOK
    <3> QED BY <3>1, HeadTailProperties, Zenon
  <2>2. pages = 1 + Len(queue) /\ Len(queue) >= 1
    BY <1>0, <2>1 DEF PageAccounting
  <2>3. PageAccounting' /\ pages' \in Nat
    BY <1>0, <1>12, <2>1, <2>2 DEF ReadTask, pq_remove, PageAccounting
  <2>4. TypeOK'
    BY SMTT(30), <1>0, <1>1, <1>2, <1>12, <2>3 DEF ReadTask, pq_remove, TypeOK, PCs
  <2>5. NoLostWakeup'
    BY <1>0, <1>12, <2>1, Zenon DEF ReadTask, pq_remove, NoLostWakeup, TypeOK
  <2> QED BY <1>3, <1>12, <2>1, <2>3, <2>4, <2>5, Zenon DEF ReadTask, pq_remove
<1>13. ASSUME NEW p \in Procs, NEW e \in Ends, fileclose(p, e) PROVE Goal
  <2>1. TypeOK'
    BY <1>0, <1>1, <1>2, <1>13, Zenon DEF fileclose, ClosingPC, TypeOK, PCs
  <2> QED
    BY <1>0, <1>3, <1>13, <2>1, Zenon
       DEF fileclose, ClosingPC, NoLostWakeup, PageAccounting, TypeOK
<1>14. ASSUME NEW p \in Procs, NEW e \in Ends, pipe_rt_close(p, e) PROVE Goal
  <2>1. pc' \in [Procs -> PCs]
    BY <1>0, <1>14, Zenon DEF pipe_rt_close, wakeup, TypeOK, PCs
  <2>2. pages = 1 + Len(queue)
    <3>1. EndOpen(e)
      BY <1>14, Zenon DEF pipe_rt_close, EndOpen
    <3>2. active
      BY <1>0, <3>1 DEF EndCounts, Ends, TypeOK
    <3> QED BY <1>0, <3>2, Zenon DEF PageAccounting
  <2>3. CASE nwrite' = 0 /\ nread' = 0
    <3>1. queue' = <<>> /\ pages' = 1 /\ active' = FALSE
      BY SMTT(30), <1>0, <1>14, <2>2, <2>3 DEF pipe_rt_close
    <3>2. TypeOK'
      BY <1>0, <1>1, <1>2, <1>14, <2>1, <3>1, Zenon DEF pipe_rt_close, TypeOK
    <3>3. NoLostWakeup'
      <4> SUFFICES ASSUME NEW o \in Procs, pc'[o] = "sleeping" PROVE FALSE
        BY Zenon DEF NoLostWakeup
      <4>1. e = "r" /\ pc[o] = "sleeping"
        BY <1>0, <1>14, Zenon DEF pipe_rt_close, wakeup, ClosingPC, TypeOK, Ends
      <4> QED BY <1>0, <1>14, <2>3, <4>1 DEF pipe_rt_close, NoLostWakeup, TypeOK
    <3> QED BY <3>1, <3>2, <3>3 DEF PageAccounting
  <2>4. CASE ~(nwrite' = 0 /\ nread' = 0)
    <3>1. UNCHANGED <<queue, pages, dropped, active>>
      BY <1>14, <2>4, Zenon DEF pipe_rt_close
    <3>2. TypeOK'
      BY <1>0, <1>1, <1>2, <1>14, <2>1, <3>1, Zenon DEF pipe_rt_close, TypeOK
    <3>3. NoLostWakeup'
      <4> SUFFICES ASSUME NEW o \in Procs, pc'[o] = "sleeping"
                   PROVE  queue' = <<>> /\ active' /\ nwrite' > 0
        BY Zenon DEF NoLostWakeup
      <4>1. e = "r" /\ pc[o] = "sleeping"
        BY <1>0, <1>14 DEF pipe_rt_close, wakeup, ClosingPC, TypeOK, Ends
      <4> QED BY <1>0, <1>14, <3>1, <4>1, Zenon DEF pipe_rt_close, NoLostWakeup, TypeOK
    <3> QED BY SMTT(30), <1>0, <2>4, <3>1, <3>2, <3>3 DEF PageAccounting
  <2> QED BY <2>3, <2>4, Zenon
<1>15. ASSUME UNCHANGED vars PROVE Goal
  <2>1. TypeOK' /\ NoLostWakeup' /\ PageAccounting'
    BY <1>0, <1>15, Zenon DEF vars, TypeOK, NoLostWakeup, PageAccounting
  <2>2. UNCHANGED <<nread, nwrite, queue>>
    BY <1>15, Zenon DEF vars
  <2> QED BY <1>3, <2>1, <2>2, Zenon
<1>16. Goal
  <2> HIDE DEF Goal
  <2> QED BY <1>5, <1>6, <1>7, <1>8, <1>9, <1>10, <1>11, <1>12, <1>13, <1>14, <1>15, Zenon
             DEF Next, pipe_rt_read
<1> QED BY <1>4, <1>16, Zenon

(* Every reachable state satisfies the inductive invariant.                *)
THEOREM Invariance == Spec => []IInv
<1>1. IInv /\ [Next]_vars => IInv'
  BY EndStep, QueueStep, RestStep, Zenon DEF IInv
<1> QED BY <1>1, InitIInv, PTL DEF Spec

(* The list is always in priority order, for any number of writers,        *)
(* readers, priorities and writes.                                         *)
THEOREM PriorityOrderHolds == Spec => []PriorityOrder
<1>1. IInv => PriorityOrder
  BY Zenon DEF IInv, QueueInv
<1> QED BY <1>1, Invariance, PTL

(* No reader sleeps while a task or an end of file is there for it.        *)
THEOREM NoLostWakeupHolds == Spec => []NoLostWakeup
<1>1. IInv => NoLostWakeup
  BY Zenon DEF IInv
<1> QED BY <1>1, Invariance, PTL

(* Every task written is queued once, delivered or dropped, never two of   *)
(* these.                                                                  *)
THEOREM TaskAccountingHolds == Spec => []TaskAccounting
<1>1. IInv => TaskAccounting
  BY DEF IInv, QueueInv
<1> QED BY <1>1, Invariance, PTL

(* The pipe's page and descriptor counters agree with its contents and     *)
(* with the descriptors that exist, and a closed pipe holds no task.       *)
THEOREM CountersHold == Spec => [](TypeOK /\ EndCounts /\ PageAccounting /\ ClosedIsEmpty)
<1>1. IInv => TypeOK /\ EndCounts /\ PageAccounting /\ ClosedIsEmpty
  BY DEF IInv, EndInv
<1> QED BY <1>1, Invariance, PTL

(* A task overtakes the head of the list only with a strictly higher       *)
(* priority.                                                               *)
THEOREM HeadNotOvertakenHolds == Spec => HeadNotOvertaken
<1>1. IInv /\ [Next]_vars => [HeadKept]_vars
  <2> SUFFICES ASSUME IInv, Next, Len(queue') > Len(queue), queue # <<>>
               PROVE  \/ Head(queue') = Head(queue)
                      \/ Head(queue').priority > Head(queue).priority
    BY Zenon DEF HeadKept
  <2>0. queue \in Seq(Task) /\ Ordered(queue) /\ Len(queue) \in Nat /\ nsent \in Nat
    BY LenProperties, Zenon DEF IInv, TypeOK, QueueInv, PriorityOrder
  <2>1. CASE queue' = queue
    BY <2>0, <2>1, Zenon
  <2>2. ASSUME NEW p \in Procs, ReadTask(p) PROVE FALSE
    <3>1. queue' = Tail(queue)
      BY <2>2, Zenon DEF ReadTask, pq_remove
    <3>2. Len(queue') = Len(queue) - 1
      BY <2>0, <3>1, HeadTailProperties
    <3> QED BY <2>0, <3>2
  <2>3. ASSUME NEW p \in Procs, NEW e \in Ends, pipe_rt_close(p, e), queue' # queue
        PROVE  FALSE
    <3>1. queue' = <<>>
      BY <2>3 DEF pipe_rt_close
    <3> QED BY <2>0, <3>1
  <2>4. ASSUME NEW p \in Procs, NEW prio \in Prios, pipe_rt_write(p, prio)
        PROVE  \/ Head(queue') = Head(queue)
               \/ Head(queue').priority > Head(queue).priority
    <3> DEFINE t == [priority |-> prio, id |-> nsent + 1]
    <3>1. t \in Task /\ queue' = pq_insert(queue, t)
      BY <2>0, <2>4 DEF Task, pipe_rt_write
    <3> HIDE DEF t
    <3>2. /\ queue' \in Seq(Task) /\ Len(queue') = Len(queue) + 1
          /\ queue'[1] = queue[1] \/ queue'[1].priority > queue[1].priority
      BY <2>0, <3>1, InsertProperties, Zenon
    <3>3. Head(queue') = queue'[1] /\ Head(queue) = queue[1]
      BY <2>0, <3>2
    <3> QED BY <3>2, <3>3, Zenon
  <2> QED
    BY <2>1, <2>2, <2>3, <2>4, Zenon DEF Next, sys_pipe_rt, pipe_rt_alloc, fork, kill, WriteNoMemory,
          EnterRead, pipe_rt_read, ReadSleeps, ReadEmpty, fileclose
<1> QED BY <1>1, Invariance, PTL DEF Spec, HeadNotOvertaken

(* The pipe implements the abstract priority channel: a write is a Put or  *)
(* a Refuse, a read that removes a task is a Take of a task of highest     *)
(* priority, the last close is a Discard, and nothing else touches the     *)
(* tasks.                                                                  *)
THEOREM Refinement == Spec => ImplementsChannel
<1>1. Init => Channel!Init
  BY DEF Init, Channel!Init
<1>2. IInv /\ [Next]_vars => [Channel!Next]_(Channel!vars)
  <2> SUFFICES ASSUME IInv, [Next]_vars PROVE [Channel!Next]_(Channel!vars)
    BY Zenon
  <2> DEFINE pend == {queue[i] : i \in DOMAIN queue}
  <2>0. /\ queue \in Seq(Task) /\ Ordered(queue) /\ DistinctIds(queue)
        /\ nsent \in Nat /\ pend = Elements(queue) /\ pend' = Elements(queue')
    BY Zenon DEF IInv, TypeOK, QueueInv, PriorityOrder, TaskAccounting, DistinctIds,
           Elements
  <2>1. ASSUME NEW p \in Procs, NEW prio \in Prios, pipe_rt_write(p, prio)
        PROVE  Channel!Next
    <3> DEFINE t == [priority |-> prio, id |-> nsent + 1]
    <3>1. t \in Task /\ queue' = pq_insert(queue, t)
      BY <2>0, <2>1 DEF Task, pipe_rt_write
    <3>2. Elements(queue') = Elements(queue) \cup {t}
      <4> HIDE DEF t
      <4> QED BY <2>0, <3>1, InsertProperties, Zenon
    <3>3. Channel!Put
      BY <2>0, <2>1, <3>2 DEF pipe_rt_write, Channel!Put
    <3> QED BY <3>3, Zenon DEF Channel!Next
  <2>2. ASSUME NEW p \in Procs, WriteNoMemory(p) PROVE Channel!Next
    BY <2>2, Zenon DEF WriteNoMemory, Channel!Next, Channel!Refuse
  <2>3. ASSUME NEW p \in Procs, ReadTask(p) PROVE Channel!Next
    <3>1. queue # <<>> /\ queue' = Tail(queue)
      BY <2>3, Zenon DEF ReadTask, pq_remove
    <3>2. /\ Head(queue) \in Elements(queue)
          /\ Elements(queue') = Elements(queue) \ {Head(queue)}
          /\ \A u \in Elements(queue) : Head(queue).priority >= u.priority
      BY <2>0, <3>1, RemoveProperties, Zenon
    <3>3. Channel!Take
      BY <2>0, <2>3, <3>2, Zenon DEF ReadTask, pq_remove, Channel!Take
    <3> QED BY <3>3, Zenon DEF Channel!Next
  <2>4. ASSUME NEW p \in Procs, NEW e \in Ends, pipe_rt_close(p, e)
        PROVE  [Channel!Next]_(Channel!vars)
    <3>1. CASE UNCHANGED <<queue, dropped>>
      BY <2>4, <3>1, Zenon DEF pipe_rt_close, Channel!vars
    <3>2. CASE queue' = <<>> /\ dropped' = dropped \cup {queue[i].id : i \in DOMAIN queue}
      <4>1. pend' = {} /\ {u.id : u \in pend} = {queue[i].id : i \in DOMAIN queue}
        BY <3>2
      <4>2. Channel!Discard
        BY <2>4, <3>2, <4>1, Zenon DEF pipe_rt_close, Channel!Discard
      <4> QED BY <4>2, Zenon DEF Channel!Next
    <3> QED BY <2>4, <3>1, <3>2 DEF pipe_rt_close
  <2>5. CASE UNCHANGED <<queue, nsent, got, dropped>>
    BY <2>5 DEF Channel!vars
  <2> QED
    BY <2>1, <2>2, <2>3, <2>4, <2>5, Zenon
       DEF Next, vars, sys_pipe_rt, pipe_rt_alloc, fork, kill, EnterRead, pipe_rt_read,
           ReadSleeps, ReadEmpty, fileclose
<1> QED BY <1>1, <1>2, Invariance, PTL DEF Spec, ImplementsChannel, Channel!Spec
=============================================================================
