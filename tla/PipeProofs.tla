----------------------------- MODULE PipeProofs ------------------------------
(***************************************************************************)
(* Proofs about Pipe for any processes, any size of the ring and any width *)
(* of the counters that the size divides, and any number of bytes.  The    *)
(* ring holds the last bytes that were written, at the places that follow  *)
(* nread, wherever the two counters have wrapped to; an end is open while  *)
(* somebody has a descriptor for it or is about to close it.               *)
(***************************************************************************)
EXTENDS Pipe, Integers, TLAPS

-----------------------------------------------------------------------------
(* Sequences: what the operators return.                                   *)
LEMMA SameSeq ==
  ASSUME NEW S, NEW s \in Seq(S), NEW t \in Seq(S), Len(s) = Len(t),
         \A i \in 1..Len(s) : s[i] = t[i]
  PROVE  s = t
  OBVIOUS

LEMMA JoinIs ==
  ASSUME NEW S, NEW s \in Seq(S), NEW t \in Seq(S)
  PROVE  /\ s \o t \in Seq(S) /\ Len(s \o t) = Len(s) + Len(t)
         /\ \A i \in 1..(Len(s) + Len(t)) :
               (s \o t)[i] = IF i <= Len(s) THEN s[i] ELSE t[i - Len(s)]
  OBVIOUS

-----------------------------------------------------------------------------
(* Arithmetic of the counters.                                             *)
LEMMA Remainder ==
  ASSUME NEW m \in Nat \ {0}, NEW q \in Int, NEW r \in 0..(m - 1), NEW x \in Nat, x = m * q + r
  PROVE  x % m = r
  OBVIOUS

LEMMA PipeSizes ==
  PIPESIZE \in Nat \ {0} /\ Modulus \in Nat \ {0} /\ Modulus > PIPESIZE /\ MaxBytes \in Nat
  BY PipeAssumption

(* A counter is what it is k steps on, less its range if it has wrapped.   *)
LEMMA PlusIs ==
  ASSUME NEW c \in Nat, NEW k \in Nat, c < Modulus, k < Modulus
  PROVE  /\ c + k < Modulus => Plus(c, k) = c + k
         /\ c + k >= Modulus => Plus(c, k) = c + k - Modulus
         /\ Plus(c, k) \in Nat /\ Plus(c, k) < Modulus
  BY PipeSizes DEF Plus

LEMMA PlusPlus ==
  ASSUME NEW c \in Nat, NEW a \in Nat, NEW b \in Nat, c < Modulus, a + b < Modulus
  PROVE  Plus(Plus(c, a), b) = Plus(c, a + b)
<1>1. a + b \in Nat /\ a < Modulus /\ b < Modulus /\ Modulus \in Nat
  BY PipeSizes
<1> DEFINE d == Plus(c, a)
<1>2. /\ c + a < Modulus => d = c + a
      /\ c + a >= Modulus => d = c + a - Modulus
      /\ d \in Nat /\ d < Modulus
  BY <1>1, PlusIs
<1> HIDE DEF d
<1>3. /\ d + b < Modulus => Plus(d, b) = d + b
      /\ d + b >= Modulus => Plus(d, b) = d + b - Modulus
  BY <1>1, <1>2, PlusIs
<1>4. /\ c + (a + b) < Modulus => Plus(c, a + b) = c + (a + b)
      /\ c + (a + b) >= Modulus => Plus(c, a + b) = c + (a + b) - Modulus
  BY <1>1, PlusIs
<1>5. Plus(d, b) = Plus(c, a + b)
  BY <1>1, <1>2, <1>3, <1>4
<1> QED BY <1>5 DEF d

(* Different steps lead to different counters.                             *)
LEMMA PlusInjective ==
  ASSUME NEW c \in Nat, NEW a \in Nat, NEW b \in Nat,
         c < Modulus, a < Modulus, b < Modulus, Plus(c, a) = Plus(c, b)
  PROVE  a = b
<1>1. /\ c + a < Modulus => Plus(c, a) = c + a
      /\ c + a >= Modulus => Plus(c, a) = c + a - Modulus
  BY PlusIs, Zenon
<1>2. /\ c + b < Modulus => Plus(c, b) = c + b
      /\ c + b >= Modulus => Plus(c, b) = c + b - Modulus
  BY PlusIs, Zenon
<1> QED BY <1>1, <1>2, PipeSizes

(* What (w - r) % Modulus says.                                            *)
LEMMA Distance ==
  ASSUME NEW r \in Nat, NEW w \in Nat, r < Modulus, w < Modulus
  PROVE  LET u == (w + Modulus - r) % Modulus
         IN  u \in Nat /\ u < Modulus /\ w = Plus(r, u)
<1> DEFINE u == (w + Modulus - r) % Modulus
<1>1. /\ w >= r => u = w - r
      /\ w < r => u = w + Modulus - r
      /\ u \in Nat /\ u < Modulus
  BY PipeSizes
<1> HIDE DEF u
<1>2. /\ r + u < Modulus => Plus(r, u) = r + u
      /\ r + u >= Modulus => Plus(r, u) = r + u - Modulus
  BY <1>1, PlusIs
<1>3. w = Plus(r, u)
  BY <1>1, <1>2, PipeSizes
<1> QED BY <1>1, <1>3 DEF u

(* A place in a ring goes on where it was when a counter wraps, because    *)
(* the size of the ring divides the range of the counters.                 *)
LEMMA PlaceKept ==
  ASSUME NEW m \in Nat, NEW z \in Nat \ {0}, m % z = 0, NEW x \in Nat, x >= m
  PROVE  (x - m) % z = x % z
<1> DEFINE q == m \div z
           d == x \div z
           r == x % z
           y == x - m
<1>1. q \in Nat /\ m = z * q + (m % z)
  OBVIOUS
<1>2. d \in Nat /\ r \in 0..(z - 1) /\ x = z * d + r
  OBVIOUS
<1>3. y \in Nat /\ y = x - m
  OBVIOUS
<1> HIDE DEF q, d, r, y
<1>4. y = z * d + r - z * q
  BY <1>1, <1>2, <1>3
<1> DEFINE e == d - q
<1>5. y = z * e + r /\ e \in Int
  BY <1>1, <1>2, <1>4
<1> HIDE DEF e
<1>6. y % z = r
  BY <1>2, <1>3, <1>5, Remainder
<1> QED BY <1>6 DEF r, y

LEMMA PlaceOfPlus ==
  ASSUME NEW c \in Nat, NEW k \in Nat, c < Modulus, k < Modulus
  PROVE  Plus(c, k) % PIPESIZE = (c + k) % PIPESIZE
<1>1. PIPESIZE \in Nat \ {0} /\ Modulus \in Nat /\ c + k \in Nat /\ Modulus % PIPESIZE = 0
  BY PipeAssumption
<1>2. /\ c + k < Modulus => Plus(c, k) = c + k
      /\ c + k >= Modulus => Plus(c, k) = c + k - Modulus
  BY PlusIs
<1>3. CASE c + k < Modulus
  BY <1>2, <1>3
<1>4. CASE c + k >= Modulus
  <2> DEFINE x == c + k
  <2>1. x \in Nat /\ x >= Modulus /\ Plus(c, k) = x - Modulus
    BY <1>1, <1>2, <1>4
  <2> HIDE DEF x
  <2>2. (x - Modulus) % PIPESIZE = x % PIPESIZE
    BY <1>1, <2>1, PlaceKept, Zenon
  <2> QED BY <2>1, <2>2 DEF x
<1> QED BY <1>1, <1>3, <1>4

(* As many places in a row as the ring has are all different.              *)
LEMMA RowDiffers ==
  ASSUME NEW z \in Nat \ {0}, NEW c \in Nat, NEW i \in 0..(z - 1), NEW j \in 0..(z - 1),
         (c + i) % z = (c + j) % z
  PROVE  i = j
<1> DEFINE di == (c + i) \div z
           dj == (c + j) \div z
           r == (c + i) % z
<1>1. /\ di \in Nat /\ dj \in Nat /\ r \in Nat
      /\ c + i = z * di + r
      /\ c + j = z * dj + ((c + j) % z)
  OBVIOUS
<1>2. c + j = z * dj + r
  BY <1>1
<1> HIDE DEF di, dj, r
<1> DEFINE e == di - dj
<1>3. e \in Int /\ i - j = z * e
  BY <1>1, <1>2
<1> HIDE DEF e
<1>4. CASE e >= 1
  <2>1. z * e >= z
    BY <1>3, <1>4
  <2> QED BY <1>3, <2>1
<1>5. CASE e <= -1
  <2>1. z * e <= -z
    BY <1>3, <1>5
  <2> QED BY <1>3, <2>1
<1>6. CASE e = 0
  BY <1>3, <1>6
<1> QED BY <1>3, <1>4, <1>5, <1>6

LEMMA PlacesDiffer ==
  ASSUME NEW c \in Nat, NEW i \in 0..(PIPESIZE - 1), NEW j \in 0..(PIPESIZE - 1),
         (c + i) % PIPESIZE = (c + j) % PIPESIZE
  PROVE  i = j
  BY PipeSizes, RowDiffers, Zenon

LEMMA DistanceIs ==
  ASSUME NEW r \in Nat, NEW w \in Nat, NEW u \in Nat, r < Modulus, w < Modulus, u < Modulus,
         w = Plus(r, u)
  PROVE  (w + Modulus - r) % Modulus = u
<1> DEFINE d == (w + Modulus - r) % Modulus
<1>1. d \in Nat /\ d < Modulus /\ w = Plus(r, d)
  BY Distance
<1> HIDE DEF d
<1>2. d = u
  BY <1>1, PlusInjective, Zenon
<1> QED BY <1>2 DEF d

-----------------------------------------------------------------------------
(* The ring holds the last bytes written, at the places from nread on.     *)
Ring ==
    /\ Used <= PIPESIZE /\ Used <= nsent
    /\ \A i \in Nat : i < Used => data[(nread + i) % PIPESIZE] = nsent - Used + i + 1

LEMMA Counters ==
  ASSUME TypeOK
  PROVE  /\ nread \in Nat /\ nwrite \in Nat /\ nread < Modulus /\ nwrite < Modulus
         /\ Used \in Nat /\ Used < Modulus /\ nwrite = Plus(nread, Used)
         /\ nsent \in Nat /\ nsent <= MaxBytes
<1>1. /\ nread \in Nat /\ nwrite \in Nat /\ nread < Modulus /\ nwrite < Modulus
      /\ nsent \in Nat /\ nsent <= MaxBytes
  BY PipeSizes DEF TypeOK
<1> QED BY <1>1, Distance DEF Used

(* The test for a full ring, on a count that is j bytes on.                *)
LEMMA FullIs ==
  ASSUME TypeOK, NEW j \in Nat, Used + j <= PIPESIZE
  PROVE  Full(Plus(nwrite, j)) <=> Used + j = PIPESIZE
<1>1. Used + j \in Nat /\ Used + j < Modulus /\ PIPESIZE \in Nat /\ PIPESIZE < Modulus
  BY Counters, PipeSizes
<1>2. Plus(nwrite, j) = Plus(nread, Used + j)
  BY <1>1, Counters, PlusPlus
<1>3. Plus(nread, Used + j) = Plus(nread, PIPESIZE) <=> Used + j = PIPESIZE
  BY <1>1, Counters, PlusInjective
<1> QED BY <1>2, <1>3 DEF Full

LEMMA PlusZero == ASSUME TypeOK PROVE Plus(nwrite, 0) = nwrite /\ Plus(nread, 0) = nread
  BY Counters, PlusIs, PipeSizes

LEMMA EmptyIs == ASSUME TypeOK PROVE Empty <=> Used = 0
<1>1. Used = 0 => Empty
  BY Counters, PlusZero DEF Empty
<1>2. Empty => Used = 0
  BY Counters, PlusZero, DistanceIs, PipeSizes DEF Empty, Used
<1> QED BY <1>1, <1>2

(* pipewrite() puts its bytes behind the others, over none of them.        *)
LEMMA PutKeepsRing ==
  ASSUME TypeOK, Ring, NEW k \in Nat, PutBytes(k), nread' = nread
  PROVE  /\ Used + k <= PIPESIZE /\ Used' = Used + k
         /\ nsent' = nsent + k /\ nsent' \in 0..MaxBytes
         /\ nwrite' \in 0..(Modulus - 1)
         /\ data' \in [0..PIPESIZE-1 -> 0..MaxBytes]
         /\ Ring'
<1> USE PipeSizes
<1>0. /\ nread \in Nat /\ nwrite \in Nat /\ nread < Modulus /\ nwrite < Modulus
      /\ Used \in Nat /\ Used < Modulus /\ nwrite = Plus(nread, Used)
      /\ nsent \in Nat /\ nsent <= MaxBytes /\ Used <= PIPESIZE
  BY Counters DEF Ring
<1>1. Used + k <= PIPESIZE
  <2> SUFFICES ASSUME Used + k > PIPESIZE PROVE FALSE
    BY <1>0
  <2> DEFINE j == PIPESIZE - Used
  <2>1. j \in Nat /\ j \in 0..k-1 /\ Used + j = PIPESIZE
    BY <1>0
  <2> HIDE DEF j
  <2>2. ~Full(Plus(nwrite, j))
    BY <2>1 DEF PutBytes
  <2> QED BY <1>0, <2>1, <2>2, FullIs
<1>2. /\ nsent' = nsent + k /\ nsent' <= MaxBytes /\ nsent' \in 0..MaxBytes
      /\ nwrite' = Plus(nwrite, k)
  BY <1>0 DEF PutBytes
<1>3. nwrite' = Plus(nread, Used + k)
  BY <1>0, <1>1, <1>2, PlusPlus
<1>4. nwrite' \in Nat /\ nwrite' < Modulus
  <2>1. Used + k \in Nat /\ Used + k < Modulus
    BY <1>0, <1>1
  <2> QED BY <1>0, <1>3, <2>1, PlusIs, Zenon
<1>5. Used' = Used + k
  <2>1. Used + k \in Nat /\ Used + k < Modulus
    BY <1>0, <1>1
  <2>2. (nwrite' + Modulus - nread) % Modulus = Used + k
    BY <1>0, <1>3, <1>4, <2>1, DistanceIs
  <2> QED BY <2>2 DEF Used
(* Where the j-th new byte goes.                                           *)
<1>6. \A j \in 0..k-1 : Plus(nwrite, j) % PIPESIZE = (nread + (Used + j)) % PIPESIZE
  <2> SUFFICES ASSUME NEW j \in Nat, j < k
               PROVE  Plus(nwrite, j) % PIPESIZE = (nread + (Used + j)) % PIPESIZE
    OBVIOUS
  <2>1. Used + j \in Nat /\ Used + j < Modulus
    BY <1>0, <1>1
  <2>2. Plus(nwrite, j) = Plus(nread, Used + j)
    BY <1>0, <2>1, PlusPlus
  <2> QED BY <1>0, <2>1, <2>2, PlaceOfPlus
<1> DEFINE At(x) == \E j \in 0..k-1 : Plus(nwrite, j) % PIPESIZE = x
           Which(x) == CHOOSE j \in 0..k-1 : Plus(nwrite, j) % PIPESIZE = x
<1>7. data' = [x \in DOMAIN data |-> IF At(x) THEN nsent + 1 + Which(x) ELSE data[x]]
  BY DEF PutBytes
<1>8. \A x : At(x) => Which(x) \in 0..k-1 /\ Plus(nwrite, Which(x)) % PIPESIZE = x
  OBVIOUS
<1> HIDE DEF At, Which
<1>9. data \in [0..PIPESIZE-1 -> 0..MaxBytes]
  BY DEF TypeOK
<1>10. data' \in [0..PIPESIZE-1 -> 0..MaxBytes]
  <2>1. ASSUME NEW x \in 0..PIPESIZE-1 PROVE (IF At(x) THEN nsent + 1 + Which(x) ELSE data[x]) \in 0..MaxBytes
    <3>1. CASE At(x)
      BY <1>0, <1>2, <1>8, <3>1
    <3>2. CASE ~At(x)
      BY <1>9, <3>2
    <3> QED BY <3>1, <3>2
  <2> QED BY <1>7, <1>9, <2>1
<1>11. ASSUME NEW i \in Nat, i < Used + k
       PROVE  data'[(nread + i) % PIPESIZE] = (nsent + k) - (Used + k) + i + 1
  <2> DEFINE x == (nread + i) % PIPESIZE
  <2>1. x \in 0..PIPESIZE-1 /\ i \in 0..PIPESIZE-1
    BY <1>0, <1>1, <1>11
  <2>2. \A j \in 0..k-1 : Plus(nwrite, j) % PIPESIZE = x => Used + j = i
    <3> SUFFICES ASSUME NEW j \in 0..k-1, Plus(nwrite, j) % PIPESIZE = x PROVE Used + j = i
      OBVIOUS
    <3>1. (nread + (Used + j)) % PIPESIZE = (nread + i) % PIPESIZE
      BY <1>6
    <3>2. Used + j \in 0..PIPESIZE-1
      BY <1>0, <1>1
    <3> QED BY <1>0, <2>1, <3>1, <3>2, PlacesDiffer, Zenon
  <2>3. CASE i < Used
    <3>1. ~At(x)
      BY <1>0, <2>2, <2>3 DEF At
    <3>2. data[x] = nsent - Used + i + 1
      BY <2>3 DEF Ring
    <3> HIDE DEF x
    <3>3. data'[x] = nsent - Used + i + 1
      BY <1>7, <1>9, <2>1, <3>1, <3>2
    <3> QED BY <1>0, <3>3 DEF x
  <2>4. CASE i >= Used
    <3> DEFINE j == i - Used
    <3>1. j \in 0..k-1 /\ Used + j = i
      BY <1>0, <1>11, <2>4
    <3> HIDE DEF j
    <3>2. Plus(nwrite, j) % PIPESIZE = x
      BY <1>6, <3>1
    <3>3. At(x)
      BY <3>1, <3>2 DEF At
    <3>4. Which(x) \in 0..k-1 /\ Used + Which(x) = i
      BY <1>8, <2>2, <3>3
    <3> HIDE DEF x
    <3>5. data'[x] = nsent + 1 + Which(x)
      BY <1>7, <1>9, <2>1, <3>3
    <3>6. nsent + 1 + Which(x) = (nsent + k) - (Used + k) + i + 1
      BY <1>0, <3>4
    <3> QED BY <3>5, <3>6 DEF x
  <2> QED BY <1>0, <2>3, <2>4
<1>12. Ring'
  BY <1>0, <1>1, <1>2, <1>5, <1>11 DEF Ring
<1> QED BY <1>1, <1>2, <1>4, <1>5, <1>10, <1>12

(* piperead() takes bytes from the front.                                  *)
LEMMA TakeKeepsRing ==
  ASSUME TypeOK, Ring, NEW k \in Nat, k <= Used, nread' = Plus(nread, k),
         UNCHANGED <<nwrite, data, nsent>>
  PROVE  /\ Used' = Used - k
         /\ nread' \in 0..(Modulus - 1)
         /\ Ring'
<1> USE PipeSizes
<1>0. /\ nread \in Nat /\ nwrite \in Nat /\ nread < Modulus /\ nwrite < Modulus
      /\ Used \in Nat /\ Used < Modulus /\ nwrite = Plus(nread, Used)
      /\ nsent \in Nat /\ Used <= PIPESIZE /\ Used <= nsent
  BY Counters DEF Ring
<1> DEFINE r == Plus(nread, k)
           u == Used - k
<1>1. k < Modulus /\ u \in Nat /\ u < Modulus /\ k + u = Used
  BY <1>0
<1>2. r \in Nat /\ r < Modulus
  BY <1>0, <1>1, PlusIs, Zenon
<1>3. Plus(r, u) = nwrite
  <2> HIDE DEF u
  <2>1. k + u < Modulus
    BY <1>0, <1>1
  <2>2. Plus(Plus(nread, k), u) = Plus(nread, k + u)
    BY <1>0, <1>1, <2>1, PlusPlus
  <2> QED BY <1>0, <1>1, <2>2
<1>4. Used' = u
  <2> HIDE DEF u
  <2>1. nread' = r /\ nwrite' = nwrite
    OBVIOUS
  <2> HIDE DEF r
  <2>2. (nwrite + Modulus - r) % Modulus = u
    BY <1>0, <1>1, <1>2, <1>3, DistanceIs
  <2> QED BY <2>1, <2>2 DEF Used
<1>5. ASSUME NEW i \in Nat, i < u PROVE data[(r + i) % PIPESIZE] = nsent - u + i + 1
  <2> DEFINE m == k + i
  <2>1. m \in Nat /\ m < Used /\ m < Modulus /\ i < Modulus
    BY <1>0, <1>1, <1>5
  <2>2. Plus(r, i) % PIPESIZE = (r + i) % PIPESIZE
    <3> HIDE DEF r
    <3> QED BY <1>2, <2>1, PlaceOfPlus, Zenon
  <2>3. Plus(r, i) = Plus(nread, m)
    BY <1>0, <2>1, PlusPlus
  <2>4. Plus(nread, m) % PIPESIZE = (nread + m) % PIPESIZE
    <3> HIDE DEF m
    <3> QED BY <1>0, <2>1, PlaceOfPlus, Zenon
  <2>5. data[(nread + m) % PIPESIZE] = nsent - Used + m + 1
    <3> HIDE DEF m
    <3> QED BY <2>1 DEF Ring
  <2>6. (r + i) % PIPESIZE = (nread + m) % PIPESIZE
    BY <2>2, <2>3, <2>4, Zenon
  <2>7. nsent - Used + m + 1 = nsent - u + i + 1
    BY <1>0
  <2> QED BY <2>5, <2>6, <2>7, Zenon
<1>6. Ring'
  <2>1. nread' = r /\ nsent' = nsent /\ data' = data /\ u <= PIPESIZE /\ u <= nsent
    BY <1>0, <1>1
  <2> HIDE DEF r, u
  <2> QED BY <1>4, <1>5, <2>1 DEF Ring
<1> QED BY <1>2, <1>4, <1>6

(* What the ring holds: the last bytes written.                            *)
LEMMA ContentsIs ==
  ASSUME TypeOK, Ring
  PROVE  Contents = [i \in 1..Used |-> nsent - Used + i]
<1> USE PipeSizes
<1>0. /\ nread \in Nat /\ nread < Modulus /\ Used \in Nat /\ Used < Modulus /\ nsent \in Nat
  BY Counters
<1>1. ASSUME NEW i \in 1..Used PROVE data[Plus(nread, i - 1) % PIPESIZE] = nsent - Used + i
  <2> DEFINE m == i - 1
  <2>1. m \in Nat /\ m < Used /\ m < Modulus
    BY <1>0
  <2>2. nsent - Used + m + 1 = nsent - Used + i
    BY <1>0
  <2> HIDE DEF m
  <2>3. Plus(nread, m) % PIPESIZE = (nread + m) % PIPESIZE
    BY <1>0, <2>1, PlaceOfPlus, Zenon
  <2>4. data[(nread + m) % PIPESIZE] = nsent - Used + m + 1
    BY <2>1 DEF Ring
  <2> QED BY <2>2, <2>3, <2>4 DEF m
<1> QED BY <1>1, Zenon DEF Contents

-----------------------------------------------------------------------------
(* Who has an end: an end is open while somebody has a descriptor for it   *)
(* or is about to close it; the one who is about to close it is alone with *)
(* it, and whoever reads or writes has the descriptor.                     *)
EndInv(e) ==
    /\ e \in open => \E p \in Procs : e \in holds[p] \/ pc[p] = ClosingPC(e)
    /\ \A p \in Procs : e \in holds[p] \/ pc[p] = ClosingPC(e) => e \in open
    /\ \A p, q \in Procs :
          pc[p] = ClosingPC(e) => e \notin holds[q] /\ (pc[q] = ClosingPC(e) => q = p)

EndsInv ==
    /\ EndInv("r") /\ EndInv("w")
    /\ \A p \in Procs :
          /\ pc[p] = "unborn" => holds[p] = {}
          /\ InRead(p) => "r" \in holds[p]
          /\ InWrite(p) => "w" \in holds[p]
    /\ page = "live" <=> open # {}

Bytes == got \in Seq(Nat)

IInv == TypeOK /\ Ring /\ EndsInv /\ NoLostWakeup /\ Bytes

LEMMA InitIInv == Init => IInv
<1> SUFFICES ASSUME Init PROVE IInv
  OBVIOUS
<1> USE PipeSizes
<1>1. TypeOK
  <2>1. killed \in [Procs -> BOOLEAN] /\ silent \in BOOLEAN
    BY Zenon DEF Init
  <2>2. pc \in [Procs -> PCs]
    BY DEF Init, PCs
  <2>3. data \in [0..PIPESIZE-1 -> 0..MaxBytes]
    BY DEF Init
  <2> QED BY <2>1, <2>2, <2>3 DEF Init, TypeOK
<1>2. Used = 0
  BY <1>1, EmptyIs DEF Init, Empty
<1>3. Ring
  BY <1>2 DEF Init, Ring
<1>4. EndsInv
  BY DEF Init, EndsInv, EndInv, ClosingPC, InRead, InWrite
<1>5. NoLostWakeup /\ Bytes
  BY DEF Init, NoLostWakeup, Bytes
<1> QED BY <1>1, <1>3, <1>4, <1>5 DEF IInv

(* A step inside a call keeps who has what.                                *)
LEMMA EndsKept ==
  ASSUME EndsInv, UNCHANGED <<open, holds, page>>,
         \A q \in Procs :
            \/ pc'[q] = pc[q]
            \/ /\ pc[q] \notin {"unborn", "closing_r", "closing_w"}
               /\ \/ pc'[q] = "user"
                  \/ pc'[q] \in {"read", "rsleep"} /\ "r" \in holds[q]
                  \/ pc'[q] \in {"write", "wsleep"} /\ "w" \in holds[q]
  PROVE  EndsInv'
<1>1. EndInv("r")' /\ EndInv("w")'
  BY DEF EndsInv, EndInv, ClosingPC
<1>2. \A p \in Procs : /\ pc'[p] = "unborn" => holds'[p] = {}
                       /\ InRead(p)' => "r" \in holds'[p]
                       /\ InWrite(p)' => "w" \in holds'[p]
  BY DEF EndsInv, InRead, InWrite
<1> QED BY <1>1, <1>2 DEF EndsInv

LEMMA RingKept == ASSUME Ring, UNCHANGED <<data, nread, nwrite, nsent>> PROVE Ring'
  BY DEF Ring, Used

(* A step that is not in the code under the lock of the pipe.              *)
LEMMA OutsideStep ==
  ASSUME IInv, NEW p \in Procs,
         sys_pipe(p) \/ (\E c \in Procs : fork(p, c)) \/ kill(p) \/ pipewrite(p) \/ piperead(p)
  PROVE  IInv'
<1> USE PipeSizes
<1>0. /\ TypeOK /\ Ring /\ EndsInv /\ NoLostWakeup /\ Bytes
      /\ pc \in [Procs -> PCs] /\ holds \in [Procs -> SUBSET Ends] /\ todo \in [Procs -> Nat]
      /\ Lengths \subseteq Nat
  BY PipeAssumption, Zenon DEF IInv, TypeOK
<1>1. CASE sys_pipe(p)
  <2>1. /\ page = "none" /\ page' = "live" /\ open' = Ends /\ nread' = 0 /\ nwrite' = 0
        /\ holds' = [holds EXCEPT ![p] = Ends] /\ pc[p] = "user"
        /\ UNCHANGED <<data, pc, todo, killed, nsent, got, silent>>
    BY <1>1 DEF sys_pipe
  <2>2. TypeOK'
    BY <1>0, <2>1 DEF TypeOK, Ends
  <2>3. Used' = 0
    <3>1. Used' = (0 + Modulus - 0) % Modulus
      BY <2>1 DEF Used
    <3>2. Modulus % Modulus = 0 /\ 0 + Modulus - 0 = Modulus
      OBVIOUS
    <3> QED BY <3>1, <3>2
  <2>4. Ring'
    BY <1>0, <2>1, <2>3, Counters DEF Ring
  <2>5. open = {} /\ \A q \in Procs : holds[q] = {} /\ pc[q] \in {"unborn", "user"}
    BY <1>0, <2>1 DEF EndsInv, EndInv, Ends, PCs, ClosingPC, InRead, InWrite
  <2>6. EndsInv'
    BY <1>0, <2>1, <2>5 DEF EndsInv, EndInv, Ends, ClosingPC, InRead, InWrite
  <2>7. NoLostWakeup' /\ Bytes'
    BY <1>0, <2>1, <2>5 DEF NoLostWakeup, Bytes
  <2> QED BY <2>2, <2>4, <2>6, <2>7 DEF IInv
<1>2. ASSUME NEW c \in Procs, fork(p, c) PROVE IInv'
  <2>1. /\ pc[p] = "user" /\ pc[c] = "unborn" /\ pc' = [pc EXCEPT ![c] = "user"]
        /\ holds' = [holds EXCEPT ![c] = holds[p]]
        /\ UNCHANGED <<page, data, nread, nwrite, open, todo, killed, nsent, got, silent>>
    BY <1>2 DEF fork
  <2>2. TypeOK'
    BY <1>0, <2>1, Zenon DEF TypeOK, PCs
  <2>3. Ring' /\ Bytes'
    BY <1>0, <2>1, RingKept DEF Bytes
  <2>4. EndsInv'
    BY <1>0, <2>1 DEF EndsInv, EndInv, ClosingPC, InRead, InWrite
  <2>5. NoLostWakeup'
    BY <1>0, <2>1 DEF NoLostWakeup, Empty, Full
  <2> QED BY <2>2, <2>3, <2>4, <2>5 DEF IInv
<1>3. CASE kill(p)
  <2>1. /\ pc' = [pc EXCEPT ![p] = CASE pc[p] = "rsleep" -> "read"
                                     [] pc[p] = "wsleep" -> "write"
                                     [] OTHER -> pc[p]]
        /\ UNCHANGED <<page, data, nread, nwrite, open, holds, todo, nsent, got, silent>>
    BY <1>3 DEF kill
  <2>2. \A q \in Procs : \/ pc'[q] = pc[q]
                         \/ pc[q] = "rsleep" /\ pc'[q] = "read"
                         \/ pc[q] = "wsleep" /\ pc'[q] = "write"
    BY <1>0, <2>1
  <2>3. killed' \in [Procs -> BOOLEAN] /\ silent' \in BOOLEAN
    BY <1>0, <1>3, Zenon DEF kill, TypeOK
  <2>4. pc' \in [Procs -> PCs]
    BY <1>0, <2>1 DEF PCs
  <2>5. TypeOK'
    BY <1>0, <2>1, <2>3, <2>4, Zenon DEF TypeOK
  <2>6. EndsInv'
    BY <1>0, <2>1, <2>2, EndsKept DEF EndsInv, InRead, InWrite
  <2>7. NoLostWakeup'
    BY <1>0, <2>1, <2>2 DEF NoLostWakeup, Empty, Full
  <2> QED BY <1>0, <2>1, <2>5, <2>6, <2>7, RingKept DEF IInv, Bytes
<1>4. CASE pipewrite(p) \/ piperead(p)
  <2>1. PICK n \in Lengths : todo' = [todo EXCEPT ![p] = n]
    BY <1>4, Zenon DEF pipewrite, piperead
  <2>2. /\ pc[p] = "user"
        /\ \/ pc' = [pc EXCEPT ![p] = "write"] /\ "w" \in holds[p]
           \/ pc' = [pc EXCEPT ![p] = "read"] /\ "r" \in holds[p]
        /\ UNCHANGED <<page, data, nread, nwrite, open, holds, killed, nsent, got, silent>>
    BY <1>4, Zenon DEF pipewrite, piperead
  <2>3. TypeOK'
    <3>1. pc' \in [Procs -> PCs]
      BY <1>0, <2>2 DEF PCs
    <3>2. todo' \in [Procs -> Nat]
      BY <1>0, <2>1
    <3> QED BY <1>0, <2>2, <3>1, <3>2, Zenon DEF TypeOK
  <2>4. EndsInv'
    BY <1>0, <2>2, EndsKept
  <2>5. NoLostWakeup'
    BY <1>0, <2>2 DEF NoLostWakeup, Empty, Full
  <2> QED BY <1>0, <2>2, <2>3, <2>4, <2>5, RingKept, Zenon DEF IInv, Bytes
<1> QED BY <1>1, <1>2, <1>3, <1>4

(* pipewrite() under the lock: k bytes go in, and the process sleeps,      *)
(* returns, or finds that it was killed.                                   *)
LEMMA PutStep ==
  ASSUME IInv, NEW p \in Procs, NEW k \in Nat, pc[p] = "write",
         PutBytes(k), UNCHANGED <<page, nread, open, holds, got>>,
         todo' \in [Procs -> Nat], killed' \in [Procs -> BOOLEAN], silent' \in BOOLEAN,
         pc' \in [Procs -> PCs],
         \A q \in Procs : q # p => pc'[q] = pc[q] \/ (pc[q] = "rsleep" /\ pc'[q] = "read"),
         \A q \in Procs : pc'[q] = "rsleep" => silent',
         pc'[p] = "user" \/ (pc'[p] = "wsleep" /\ "r" \in open /\ Full(Plus(nwrite, k)))
  PROVE  IInv'
<1> USE PipeSizes
<1>0. /\ TypeOK /\ Ring /\ EndsInv /\ NoLostWakeup /\ Bytes
      /\ pc \in [Procs -> PCs] /\ "w" \in holds[p]
  BY DEF IInv, TypeOK, EndsInv, InWrite
<1>1. /\ Used + k <= PIPESIZE /\ Used' = Used + k
      /\ nsent' \in 0..MaxBytes
      /\ nwrite' \in 0..(Modulus - 1)
      /\ data' \in [0..PIPESIZE-1 -> 0..MaxBytes]
      /\ Ring'
  BY <1>0, PutKeepsRing, Zenon
<1>4. TypeOK'
  BY <1>0, <1>1, Zenon DEF TypeOK
<1>5. EndsInv'
  BY <1>0, EndsKept DEF EndsInv, InRead
<1>7. ASSUME NEW q \in Procs, pc'[q] = "rsleep" PROVE "w" \in open' /\ silent'
  <2>1. pc[q] = "rsleep"
    BY <1>7
  <2>2. "w" \in open'
    BY <1>0, <2>1 DEF NoLostWakeup
  <2> QED BY <1>7, <2>2, Zenon
<1>8. ASSUME NEW q \in Procs, pc'[q] = "wsleep" PROVE "r" \in open' /\ Full(nwrite)'
  <2>1. nwrite' = Plus(nwrite, k)
    BY DEF PutBytes
  <2>2. CASE Full(Plus(nwrite, k)) /\ "r" \in open
    BY <2>1, <2>2 DEF Full
  <2>3. CASE ~(Full(Plus(nwrite, k)) /\ "r" \in open)
    <3>1. q # p /\ pc[q] = "wsleep"
      BY <1>8, <2>3
    <3>2. "r" \in open /\ Full(nwrite) /\ Plus(nwrite, 0) = nwrite
      BY <1>0, <3>1, PlusZero DEF NoLostWakeup
    <3>3. k = 0
      <4> SUFFICES ASSUME 0 \in 0..k-1 PROVE FALSE
        OBVIOUS
      <4>1. ~Full(Plus(nwrite, 0))
        BY DEF PutBytes
      <4> QED BY <3>2, <4>1
    <3> QED BY <2>3, <3>2, <3>3
  <2> QED BY <2>2, <2>3
<1>9. NoLostWakeup'
  BY <1>7, <1>8, Zenon DEF NoLostWakeup
<1>10. Bytes'
  BY <1>0 DEF Bytes
<1> QED BY <1>1, <1>4, <1>5, <1>9, <1>10 DEF IInv

LEMMA WriteStep == ASSUME IInv, NEW p \in Procs, InPipewrite(p) PROVE IInv'
<1> USE PipeSizes
<1>0. /\ TypeOK /\ Ring /\ EndsInv /\ NoLostWakeup /\ Bytes
      /\ pc \in [Procs -> PCs] /\ todo \in [Procs -> Nat] /\ todo[p] \in Nat
  BY DEF IInv, TypeOK
<1>1. CASE WriteSleeps(p)
  <2>1. PICK k \in 0..todo[p]-1 :
           /\ PutBytes(k) /\ Full(Plus(nwrite, k))
           /\ todo' = [todo EXCEPT ![p] = @ - k]
    BY <1>1, Zenon DEF WriteSleeps
  <2>2. /\ pc[p] = "write" /\ pc' = [WakeReaders(pc) EXCEPT ![p] = "wsleep"]
        /\ UNCHANGED <<page, nread, open, holds, got>> /\ "r" \in open
    BY <1>1 DEF WriteSleeps, MayWrite
  <2>3. silent' \in BOOLEAN /\ killed' \in [Procs -> BOOLEAN]
    <3>1. killed \in [Procs -> BOOLEAN]
      BY <1>0 DEF TypeOK
    <3>2. [killed EXCEPT ![p] = TRUE] \in [Procs -> BOOLEAN]
      BY <3>1, Zenon
    <3>3. silent' = FALSE /\ (killed' = killed \/ killed' = [killed EXCEPT ![p] = TRUE])
      BY <1>1, Zenon DEF WriteSleeps, KillMayLand
    <3> QED BY <3>1, <3>2, <3>3, Zenon
  <2>4. todo' \in [Procs -> Nat] /\ k \in Nat
    BY <1>0, <2>1
  <2>5. /\ pc' \in [Procs -> PCs] /\ pc'[p] = "wsleep"
        /\ \A q \in Procs : q # p => pc'[q] = pc[q] \/ (pc[q] = "rsleep" /\ pc'[q] = "read")
        /\ \A q \in Procs : pc'[q] # "rsleep"
    BY <1>0, <2>2 DEF WakeReaders, PCs
  <2> QED BY <2>1, <2>2, <2>3, <2>4, <2>5, PutStep, Zenon
<1>2. CASE WriteFails(p)
  <2>1. /\ pc[p] = "write" /\ pc' = [pc EXCEPT ![p] = "user"]
        /\ todo' = [todo EXCEPT ![p] = 0]
        /\ UNCHANGED <<page, data, nread, nwrite, open, holds, killed, nsent, got, silent>>
    BY <1>2 DEF WriteFails
  <2>2. pc' \in [Procs -> PCs] /\ todo' \in [Procs -> Nat]
    BY <1>0, <2>1 DEF PCs
  <2>3. TypeOK'
    BY <1>0, <2>1, <2>2 DEF TypeOK
  <2>4. EndsInv'
    BY <1>0, <2>1, EndsKept
  <2>5. NoLostWakeup'
    BY <1>0, <2>1 DEF NoLostWakeup, Empty, Full
  <2> QED BY <1>0, <2>1, <2>3, <2>4, <2>5, RingKept DEF IInv, Bytes
<1>3. CASE WriteKilled(p)
  <2>1. PICK k \in 1..todo[p]-1 : PutBytes(k)
    BY <1>3 DEF WriteKilled
  <2>2. /\ pc[p] = "write" /\ pc' = [pc EXCEPT ![p] = "user"]
        /\ UNCHANGED <<page, nread, open, holds, got>>
        /\ todo' = [todo EXCEPT ![p] = 0]
    BY <1>3 DEF WriteKilled
  <2>3. silent' \in BOOLEAN /\ killed' \in [Procs -> BOOLEAN] /\ silent' = TRUE
    BY <1>0, <1>3, Zenon DEF WriteKilled, TypeOK
  <2>4. todo' \in [Procs -> Nat] /\ k \in Nat
    BY <1>0, <2>1, <2>2
  <2>5. /\ pc' \in [Procs -> PCs] /\ pc'[p] = "user"
        /\ \A q \in Procs : q # p => pc'[q] = pc[q] \/ (pc[q] = "rsleep" /\ pc'[q] = "read")
    BY <1>0, <2>2 DEF PCs
  <2>6. silent'
    BY <2>3, Zenon
  <2> QED BY <2>1, <2>2, <2>3, <2>4, <2>5, <2>6, PutStep, Zenon
<1>4. CASE WriteReturns(p)
  <2>1. PICK k \in 0..todo[p] : PutBytes(k)
    BY <1>4 DEF WriteReturns
  <2>2. /\ pc[p] = "write" /\ pc' = [WakeReaders(pc) EXCEPT ![p] = "user"]
        /\ UNCHANGED <<page, nread, open, holds, got>>
        /\ todo' = [todo EXCEPT ![p] = 0]
    BY <1>4 DEF WriteReturns
  <2>3. silent' \in BOOLEAN /\ killed' \in [Procs -> BOOLEAN]
    BY <1>0, <1>4, Zenon DEF WriteReturns, TypeOK
  <2>4. todo' \in [Procs -> Nat] /\ k \in Nat
    BY <1>0, <2>1, <2>2
  <2>5. /\ pc' \in [Procs -> PCs] /\ pc'[p] = "user"
        /\ \A q \in Procs : q # p => pc'[q] = pc[q] \/ (pc[q] = "rsleep" /\ pc'[q] = "read")
        /\ \A q \in Procs : pc'[q] # "rsleep"
    BY <1>0, <2>2 DEF WakeReaders, PCs
  <2> QED BY <2>1, <2>2, <2>3, <2>4, <2>5, PutStep, Zenon
<1> QED BY <1>1, <1>2, <1>3, <1>4 DEF InPipewrite

(* What ReadCopies takes: k bytes, of which the first ones, all or all but *)
(* one, are handed over.                                                   *)
LEMMA ReadTakes ==
  ASSUME IInv, NEW p \in Procs, ReadCopies(p)
  PROVE  \E k \in 0..Used : \E h \in Nat :
            /\ nread' = Plus(nread, k) /\ h <= k /\ k <= h + 1
            /\ got' = got \o SubSeq(Contents, 1, h)
<1> DEFINE most == IF todo[p] < Used THEN todo[p] ELSE Used
<1>1. todo[p] \in Nat /\ Used \in Nat
  BY Counters DEF IInv, TypeOK
<1>2. most \in 0..Used
  BY <1>1
<1> HIDE DEF most
<1>3. \/ /\ nread' = Plus(nread, most)
         /\ got' = got \o SubSeq(Contents, 1, most)
      \/ \E k \in 1..most :
            /\ nread' = Plus(nread, k)
            /\ got' = got \o SubSeq(Contents, 1, k - 1)
  BY Zenon DEF ReadCopies, most
<1>4. CASE nread' = Plus(nread, most) /\ got' = got \o SubSeq(Contents, 1, most)
  <2>1. most \in Nat /\ most <= most /\ most <= most + 1
    BY <1>1, <1>2
  <2> QED BY <1>2, <1>4, <2>1
<1>5. ASSUME NEW k \in 1..most, nread' = Plus(nread, k), got' = got \o SubSeq(Contents, 1, k - 1)
      PROVE  \E kk \in 0..Used : \E h \in Nat :
                /\ nread' = Plus(nread, kk) /\ h <= kk /\ kk <= h + 1
                /\ got' = got \o SubSeq(Contents, 1, h)
  <2> DEFINE h == k - 1
  <2>1. k \in 0..Used /\ h \in Nat /\ h <= k /\ k <= h + 1
    BY <1>1, <1>2
  <2>2. got' = got \o SubSeq(Contents, 1, h)
    BY <1>5
  <2> HIDE DEF h
  <2> QED BY <1>5, <2>1, <2>2, Zenon
<1> QED BY <1>3, <1>4, <1>5, Zenon

(* A piece of the ring is a sequence of bytes.                             *)
LEMMA Piece ==
  ASSUME IInv, NEW h \in Nat, h <= Used
  PROVE  /\ Contents \in Seq(Nat) /\ Len(Contents) = Used
         /\ SubSeq(Contents, 1, h) \in Seq(Nat)
<1>1. Used \in Nat /\ nsent \in Nat /\ Used <= nsent /\ TypeOK /\ Ring
  BY Counters DEF IInv, Ring
<1>2. Contents = [i \in 1..Used |-> nsent - Used + i]
  BY <1>1, ContentsIs
<1>3. \A i \in 1..Used : nsent - Used + i \in Nat
  BY <1>1
<1>4. Contents \in Seq(Nat) /\ Len(Contents) = Used
  BY <1>1, <1>2, <1>3
<1> QED BY <1>4

LEMMA ReadStep == ASSUME IInv, NEW p \in Procs, InPiperead(p) PROVE IInv'
<1> USE PipeSizes
<1>0. /\ TypeOK /\ Ring /\ EndsInv /\ NoLostWakeup /\ Bytes
      /\ pc \in [Procs -> PCs] /\ todo \in [Procs -> Nat] /\ Used \in Nat
  BY Counters, Zenon DEF IInv, TypeOK
<1>1. CASE ReadSleeps(p)
  <2>1. /\ pc[p] = "read" /\ MustWait /\ pc' = [pc EXCEPT ![p] = "rsleep"]
        /\ UNCHANGED <<page, data, nread, nwrite, open, holds, todo, nsent, got, silent>>
    BY <1>1 DEF ReadSleeps
  <2>2. killed' \in [Procs -> BOOLEAN]
    <3>1. killed \in [Procs -> BOOLEAN]
      BY <1>0 DEF TypeOK
    <3>2. [killed EXCEPT ![p] = TRUE] \in [Procs -> BOOLEAN]
      BY <3>1, Zenon
    <3>3. killed' = killed \/ killed' = [killed EXCEPT ![p] = TRUE]
      BY <1>1, Zenon DEF ReadSleeps, KillMayLand
    <3> QED BY <3>1, <3>2, <3>3, Zenon
  <2>3. pc' \in [Procs -> PCs]
    BY <1>0, <2>1, Zenon DEF PCs
  <2>4. TypeOK'
    BY <1>0, <2>1, <2>2, <2>3, Zenon DEF TypeOK
  <2>5. EndsInv'
    BY <1>0, <2>1, EndsKept DEF EndsInv, InRead
  <2>6. NoLostWakeup'
    BY <1>0, <2>1 DEF NoLostWakeup, Empty, Full, MustWait
  <2> QED BY <1>0, <2>1, <2>4, <2>5, <2>6, RingKept DEF IInv, Bytes
<1>2. CASE ReadFails(p)
  <2>1. /\ pc[p] = "read" /\ pc' = [pc EXCEPT ![p] = "user"]
        /\ todo' = [todo EXCEPT ![p] = 0]
        /\ UNCHANGED <<page, data, nread, nwrite, open, holds, killed, nsent, got, silent>>
    BY <1>2 DEF ReadFails
  <2>2. pc' \in [Procs -> PCs] /\ todo' \in [Procs -> Nat]
    BY <1>0, <2>1, Zenon DEF PCs
  <2>3. TypeOK'
    BY <1>0, <2>1, <2>2, Zenon DEF TypeOK
  <2>4. EndsInv'
    BY <1>0, <2>1, EndsKept
  <2>5. NoLostWakeup'
    BY <1>0, <2>1 DEF NoLostWakeup, Empty, Full
  <2> QED BY <1>0, <2>1, <2>3, <2>4, <2>5, RingKept DEF IInv, Bytes
<1>3. CASE ReadCopies(p)
  <2>a. PICK k \in 0..Used : \E h \in Nat :
            /\ nread' = Plus(nread, k) /\ h <= k /\ k <= h + 1
            /\ got' = got \o SubSeq(Contents, 1, h)
    BY <1>3, ReadTakes, Zenon
  <2>1. PICK h \in Nat :
            /\ nread' = Plus(nread, k) /\ h <= k /\ k <= h + 1
            /\ got' = got \o SubSeq(Contents, 1, h)
    BY <2>a, Zenon
  <2>2. /\ pc[p] = "read" /\ pc' = [WakeWriters(pc) EXCEPT ![p] = "user"]
        /\ todo' = [todo EXCEPT ![p] = 0]
        /\ UNCHANGED <<page, data, nwrite, open, holds, killed, nsent, silent>>
    BY <1>3 DEF ReadCopies
  <2>3. k \in Nat /\ k <= Used /\ h <= Used
    BY <1>0, <2>1
  <2>4. Used' = Used - k /\ nread' \in 0..(Modulus - 1) /\ Ring'
    BY <1>0, <2>1, <2>2, <2>3, TakeKeepsRing, Zenon
  <2>5. /\ pc' \in [Procs -> PCs] /\ todo' \in [Procs -> Nat] /\ pc'[p] = "user"
        /\ \A q \in Procs : q # p => \/ pc'[q] = pc[q] /\ pc'[q] # "wsleep"
                                     \/ pc[q] = "wsleep" /\ pc'[q] = "write"
    BY <1>0, <2>2, Zenon DEF WakeWriters, PCs
  <2>6. TypeOK'
    BY <1>0, <2>2, <2>4, <2>5, Zenon DEF TypeOK
  <2>7. EndsInv'
    BY <1>0, <2>2, <2>5, EndsKept DEF EndsInv, InWrite
  <2>8. Bytes'
    <3>1. SubSeq(Contents, 1, h) \in Seq(Nat)
      BY <2>3, Piece, Zenon
    <3> QED BY <1>0, <2>1, <3>1 DEF Bytes
  <2>9. NoLostWakeup'
    <3>1. Empty => nread' = nread
      <4> SUFFICES ASSUME Empty PROVE nread' = nread
        OBVIOUS
      <4>1. k = 0
        BY <1>0, <2>3, EmptyIs
      <4> QED BY <1>0, <2>1, <4>1, PlusZero
    <3>2. \A q \in Procs : pc'[q] # "wsleep" /\ (pc'[q] = "rsleep" => pc[q] = "rsleep")
      BY <2>5
    <3> QED BY <1>0, <2>2, <3>1, <3>2 DEF NoLostWakeup, Empty
  <2> QED BY <2>4, <2>6, <2>7, <2>8, <2>9 DEF IInv
<1> QED BY <1>1, <1>2, <1>3, Zenon DEF InPiperead

(* Closing an end.                                                         *)
LEMMA CloseStep ==
  ASSUME IInv, NEW p \in Procs, NEW e \in Ends, fileclose(p, e) \/ pipeclose(p, e)
  PROVE  IInv'
<1> USE PipeSizes
<1>0. /\ TypeOK /\ Ring /\ EndsInv /\ NoLostWakeup /\ Bytes
      /\ pc \in [Procs -> PCs] /\ holds \in [Procs -> SUBSET Ends] /\ open \subseteq Ends
      /\ e \in {"r", "w"}
  BY DEF IInv, TypeOK, Ends
<1>1. CASE fileclose(p, e)
  <2>1. /\ pc[p] = "user" /\ e \in holds[p]
        /\ holds' = [holds EXCEPT ![p] = @ \ {e}]
        /\ pc' = [pc EXCEPT ![p] = IF \E o \in Procs \ {p} : e \in holds[o]
                                   THEN "user" ELSE ClosingPC(e)]
        /\ UNCHANGED <<page, data, nread, nwrite, open, todo, killed, nsent, got, silent>>
    BY <1>1 DEF fileclose
  <2>2. pc' \in [Procs -> PCs] /\ holds' \in [Procs -> SUBSET Ends]
    BY <1>0, <2>1, Zenon DEF PCs, ClosingPC
  <2>3. TypeOK'
    BY <1>0, <2>1, <2>2, Zenon DEF TypeOK
  <2>4. CASE \E o \in Procs \ {p} : e \in holds[o]
    <3>1. pc' = pc /\ \E o \in Procs : e \in holds'[o]
      BY <1>0, <2>1, <2>4, Zenon
    <3>2. EndInv("r")' /\ EndInv("w")'
      BY <1>0, <2>1, <2>4, <3>1 DEF EndsInv, EndInv, ClosingPC
    <3>3. EndsInv'
      BY <1>0, <2>1, <3>1, <3>2, Zenon DEF EndsInv, InRead, InWrite
    <3> QED BY <1>0, <2>1, <2>3, <3>1, <3>3, RingKept, Zenon DEF IInv, Bytes, NoLostWakeup, Empty, Full
  <2>5. CASE ~\E o \in Procs \ {p} : e \in holds[o]
    <3>1. /\ pc' = [pc EXCEPT ![p] = ClosingPC(e)]
          /\ \A o \in Procs : e \notin holds'[o]
      BY <1>0, <2>1, <2>5, Zenon
    <3>2. EndInv("r")' /\ EndInv("w")'
      BY <1>0, <2>1, <3>1 DEF EndsInv, EndInv, ClosingPC
    <3>3. EndsInv'
      BY <1>0, <2>1, <3>1, <3>2 DEF EndsInv, InRead, InWrite, ClosingPC
    <3>4. NoLostWakeup'
      BY <1>0, <2>1, <3>1 DEF NoLostWakeup, Empty, Full, ClosingPC
    <3> QED BY <1>0, <2>1, <2>3, <3>3, <3>4, RingKept, Zenon DEF IInv, Bytes
  <2> QED BY <2>4, <2>5, Zenon
<1>2. CASE pipeclose(p, e)
  <2>1. /\ pc[p] = ClosingPC(e) /\ open' = open \ {e}
        /\ pc' = [IF e = "w" THEN WakeReaders(pc) ELSE WakeWriters(pc) EXCEPT ![p] = "user"]
        /\ page' = IF open' = {} THEN "freed" ELSE page
        /\ UNCHANGED <<data, nread, nwrite, holds, todo, killed, nsent, got, silent>>
    BY <1>2 DEF pipeclose
  <2>2. /\ pc' \in [Procs -> PCs] /\ pc'[p] = "user"
        /\ \A q \in Procs : q # p => \/ pc'[q] = pc[q]
                                     \/ pc[q] = "rsleep" /\ pc'[q] = "read"
                                     \/ pc[q] = "wsleep" /\ pc'[q] = "write"
        /\ \A q \in Procs : e = "w" => pc'[q] # "rsleep"
        /\ \A q \in Procs : e = "r" => pc'[q] # "wsleep"
    BY <1>0, <2>1, Zenon DEF PCs, ClosingPC, WakeReaders, WakeWriters
  <2>3. TypeOK'
    BY <1>0, <2>1, <2>2, Zenon DEF TypeOK, Ends
  <2>4. \A q \in Procs : e \notin holds[q] /\ (pc[q] = ClosingPC(e) => q = p)
    BY <1>0, <2>1 DEF EndsInv, EndInv
  <2>5. EndInv("r")' /\ EndInv("w")'
    BY <1>0, <2>1, <2>2, <2>4 DEF EndsInv, EndInv, ClosingPC
  <2>6. page = "live"
    BY <1>0, <2>1, Zenon DEF EndsInv, EndInv
  <2>7. EndsInv'
    <3>1. page' = "live" <=> open' # {}
      BY <2>1, <2>6, Zenon
    <3>2. \A q \in Procs : /\ pc'[q] = "unborn" => holds'[q] = {}
                           /\ InRead(q)' => "r" \in holds'[q]
                           /\ InWrite(q)' => "w" \in holds'[q]
      BY <1>0, <2>1, <2>2 DEF EndsInv, InRead, InWrite
    <3> QED BY <2>5, <3>1, <3>2, Zenon DEF EndsInv
  <2>8. NoLostWakeup'
    BY <1>0, <2>1, <2>2 DEF NoLostWakeup, Empty, Full
  <2> QED BY <1>0, <2>1, <2>3, <2>7, <2>8, RingKept, Zenon DEF IInv, Bytes
<1> QED BY <1>1, <1>2

LEMMA StepIInv == IInv /\ [Next]_vars => IInv'
<1> SUFFICES ASSUME IInv, [Next]_vars PROVE IInv'
  OBVIOUS
<1>1. CASE UNCHANGED vars
  <2>1. EndsInv' /\ NoLostWakeup' /\ Bytes' /\ TypeOK'
    BY <1>1 DEF IInv, vars, EndsInv, EndInv, InRead, InWrite, NoLostWakeup, Empty, Full, Bytes, TypeOK
  <2>2. Ring'
    BY <1>1, RingKept DEF IInv, vars
  <2> QED BY <2>1, <2>2, Zenon DEF IInv
<1>2. CASE Next
  BY <1>2, OutsideStep, WriteStep, ReadStep, CloseStep DEF Next
<1> QED BY <1>1, <1>2

(* Where the bytes of the pipe are, who has its ends and who may sleep.    *)
THEOREM Invariance == Spec => []IInv
  BY InitIInv, StepIInv, PTL DEF Spec

(* pipewrite(), piperead() and pipeclose() wake every sleeper whose reason *)
(* to sleep they end, except for a killed writer's bytes.                  *)
THEOREM NoLostWakeupHolds == Spec => []NoLostWakeup
<1>1. IInv => NoLostWakeup
  BY DEF IInv
<1> QED BY <1>1, Invariance, PTL

(* pipeclose() frees the page only when nobody is left who could touch it. *)
THEOREM NoUseAfterFreeHolds == Spec => []NoUseAfterFree
<1>1. IInv => NoUseAfterFree
  <2> SUFFICES ASSUME IInv, page # "live", NEW p \in Procs
               PROVE  holds[p] = {} /\ pc[p] \in {"unborn", "user"}
    BY Zenon DEF NoUseAfterFree
  <2>1. open = {} /\ holds[p] \subseteq Ends /\ pc[p] \in PCs
    BY Zenon DEF IInv, EndsInv, TypeOK
  <2>2. /\ "r" \notin holds[p] /\ "w" \notin holds[p]
        /\ pc[p] # "closing_r" /\ pc[p] # "closing_w"
    BY <2>1, Zenon DEF IInv, EndsInv, EndInv, ClosingPC
  <2>3. ~InRead(p) /\ ~InWrite(p)
    BY <2>2 DEF IInv, EndsInv
  <2> QED BY <2>1, <2>2, <2>3 DEF Ends, PCs, InRead, InWrite
<1> QED BY <1>1, Invariance, PTL

-----------------------------------------------------------------------------
(* The ring as a stream.  What is in it is a run of byte numbers.          *)
Span(a, n) == [i \in 1..n |-> a + i]

Pend == IF page = "live" THEN Contents ELSE <<>>

LEMMA Joined ==
  ASSUME NEW s \in Seq(Nat), NEW t \in Seq(Nat), NEW u \in Seq(Nat),
         Len(u) = Len(s) + Len(t),
         \A i \in 1..Len(s) : u[i] = s[i],
         \A j \in 1..Len(t) : u[Len(s) + j] = t[j]
  PROVE  s \o t = u
<1>1. /\ s \o t \in Seq(Nat) /\ Len(s \o t) = Len(s) + Len(t)
      /\ \A i \in 1..(Len(s) + Len(t)) :
            (s \o t)[i] = IF i <= Len(s) THEN s[i] ELSE t[i - Len(s)]
  BY JoinIs, Zenon
<1>2. Len(s) \in Nat /\ Len(t) \in Nat
  OBVIOUS
<1>3. ASSUME NEW i \in 1..(Len(s) + Len(t)) PROVE (s \o t)[i] = u[i]
  <2>1. CASE i <= Len(s)
    <3>1. i \in 1..Len(s)
      BY <1>2, <2>1
    <3> QED BY <1>1, <2>1, <3>1, Zenon
  <2>2. CASE ~(i <= Len(s))
    <3>1. i - Len(s) \in 1..Len(t) /\ Len(s) + (i - Len(s)) = i
      BY <1>2, <2>2
    <3>2. u[Len(s) + (i - Len(s))] = t[i - Len(s)]
      BY <3>1, Zenon
    <3>3. (s \o t)[i] = t[i - Len(s)]
      BY <1>1, <2>2, Zenon
    <3> QED BY <3>1, <3>2, <3>3, Zenon
  <2> QED BY <2>1, <2>2, Zenon
<1>4. \A i \in 1..Len(s \o t) : (s \o t)[i] = u[i]
  BY <1>1, <1>3, Zenon
<1> QED BY <1>1, <1>4, SameSeq, Zenon

LEMMA SpanGrows ==
  ASSUME NEW a \in Nat, NEW n \in Nat, NEW k \in Nat
  PROVE  Span(a, n) \o [j \in 1..k |-> (a + n) + j] = Span(a, n + k)
<1> DEFINE t == [j \in 1..k |-> (a + n) + j]
<1>1. /\ Span(a, n) \in Seq(Nat) /\ Len(Span(a, n)) = n
      /\ t \in Seq(Nat) /\ Len(t) = k
      /\ Span(a, n + k) \in Seq(Nat) /\ Len(Span(a, n + k)) = n + k
  BY DEF Span
<1>2. \A i \in 1..n : Span(a, n + k)[i] = Span(a, n)[i]
  BY DEF Span
<1>3. \A j \in 1..k : Span(a, n + k)[n + j] = t[j]
  BY DEF Span
<1> HIDE DEF t
<1>4. Span(a, n) \o t = Span(a, n + k)
  <2>1. /\ Len(Span(a, n + k)) = Len(Span(a, n)) + Len(t)
        /\ \A i \in 1..Len(Span(a, n)) : Span(a, n + k)[i] = Span(a, n)[i]
        /\ \A j \in 1..Len(t) : Span(a, n + k)[Len(Span(a, n)) + j] = t[j]
    BY <1>1, <1>2, <1>3, Zenon
  <2> QED BY <1>1, <2>1, Joined, Zenon
<1> QED BY <1>4, Zenon DEF t

LEMMA SpanShrinks ==
  ASSUME NEW a \in Nat, NEW n \in Nat, NEW k \in Nat, k <= n
  PROVE  SubSeq(Span(a, n), k + 1, n) = Span(a + k, n - k)
<1>1. /\ Span(a, n) \in Seq(Nat) /\ Len(Span(a, n)) = n
      /\ Span(a + k, n - k) \in Seq(Nat) /\ Len(Span(a + k, n - k)) = n - k
  BY DEF Span
<1>2. \A i \in 1..n : Span(a, n)[i] = a + i
  BY DEF Span
<1>3. \A i \in 1..(n - k) : Span(a + k, n - k)[i] = a + k + i
  BY DEF Span
<1> QED BY <1>1, <1>2, <1>3

(* What is pending depends on the two counts only.                         *)
LEMMA PendIs ==
  IInv => /\ Used \in Nat /\ nsent \in Nat /\ nsent - Used \in Nat
          /\ Contents = Span(nsent - Used, Used)
<1> SUFFICES ASSUME IInv
             PROVE  /\ Used \in Nat /\ nsent \in Nat /\ nsent - Used \in Nat
                    /\ Contents = Span(nsent - Used, Used)
  OBVIOUS
<1>1. TypeOK /\ Ring /\ Used \in Nat /\ nsent \in Nat /\ Used <= nsent
  BY Counters DEF IInv, Ring
<1> QED BY <1>1, ContentsIs DEF Span

LEMMA StreamPut ==
  ASSUME IInv, IInv', NEW p \in Procs, InWrite(p), NEW k \in Nat, PutBytes(k),
         UNCHANGED <<page, nread, got>>
  PROVE  [Stream!Next]_(Stream!vars)
<1>1. page = "live" /\ page' = "live"
  BY DEF IInv, EndsInv, EndInv
<1>2. Used + k <= PIPESIZE /\ Used' = Used + k /\ nsent' = nsent + k
  BY PutKeepsRing DEF IInv
<1> DEFINE a == nsent - Used
           u == Used
<1>3. u \in Nat /\ a \in Nat /\ nsent = a + u /\ Contents = Span(a, u)
  BY PendIs
<1>4. (Contents = Span(nsent - Used, Used))'
  BY PendIs, PTL
<1>5. Span(nsent - Used, Used)' = Span(a, u + k)
  <2>1. nsent' - Used' = a
    BY <1>2, <1>3
  <2>2. Used' = u + k
    BY <1>2
  <2> HIDE DEF a, u
  <2> QED BY <2>1, <2>2 DEF Span
<1>6. Used' = u + k /\ u + k <= PIPESIZE
  BY <1>2
<1> HIDE DEF a, u
<1>7. Pend = Span(a, u) /\ Pend' = Span(a, u + k)
  BY <1>1, <1>3, <1>4, <1>5 DEF Pend
<1>8. Len(Pend) = u
  BY <1>3, <1>7 DEF Span
<1>9. CASE k = 0
  <2>1. u + k = u /\ nsent' = nsent
    BY <1>2, <1>3, <1>9
  <2>2. Pend' = Pend /\ nsent' = nsent /\ got' = got
    BY <1>7, <2>1
  <2> QED BY <2>2 DEF Stream!vars, Pend
<1>10. CASE k # 0
  <2>1. k \in 1..PIPESIZE - Len(Pend)
    BY <1>3, <1>6, <1>8, <1>10, PipeSizes
  <2>2. Pend' = Pend \o [j \in 1..k |-> nsent + j]
    <3>1. Span(a, u) \o [j \in 1..k |-> (a + u) + j] = Span(a, u + k)
      BY <1>3, SpanGrows, Zenon
    <3> QED BY <1>3, <1>7, <3>1, Zenon
  <2>3. nsent' = nsent + k /\ got' = got
    BY <1>2
  <2>4. Stream!Put
    BY <2>1, <2>2, <2>3, Zenon DEF Stream!Put, Pend
  <2> QED BY <2>4 DEF Stream!Next
<1> QED BY <1>9, <1>10, Zenon

LEMMA StreamTake ==
  ASSUME IInv, IInv', page = "live", NEW k \in 0..Used, NEW h \in Nat,
         h <= k, k <= h + 1, nread' = Plus(nread, k),
         got' = got \o SubSeq(Contents, 1, h),
         UNCHANGED <<page, data, nwrite, nsent>>
  PROVE  [Stream!Next]_(Stream!vars)
<1> DEFINE a == nsent - Used
           u == Used
<1>1. u \in Nat /\ a \in Nat /\ nsent = a + u /\ Contents = Span(a, u)
  BY PendIs
<1>2. k \in Nat /\ k <= u
  BY <1>1
<1>3. Used' = Used - k
  BY <1>2, TakeKeepsRing DEF IInv
<1>4. (Contents = Span(nsent - Used, Used))'
  BY PendIs, PTL
<1>5. Span(nsent - Used, Used)' = Span(a + k, u - k)
  <2>1. nsent' - Used' = a + k /\ Used' = u - k
    BY <1>1, <1>2, <1>3
  <2> HIDE DEF a, u
  <2> QED BY <2>1 DEF Span
<1> HIDE DEF a, u
<1>6. Pend = Span(a, u) /\ Pend' = Span(a + k, u - k)
  BY <1>1, <1>4, <1>5 DEF Pend
<1>7. Len(Pend) = u
  BY <1>1, <1>6 DEF Span
<1>8. got' = got \o SubSeq(Pend, 1, h)
  BY DEF Pend
<1>9. CASE k = 0
  <2>1. h = 0 /\ a + k = a /\ u - k = u
    BY <1>1, <1>9
  <2>2. Pend' = Pend
    BY <1>6, <2>1
  <2>3. SubSeq(Pend, 1, h) = <<>>
    BY <2>1
  <2>4. got \in Seq(Nat)
    BY DEF IInv, Bytes
  <2>5. got \o <<>> = got
    BY <2>4
  <2>6. got' = got
    BY <1>8, <2>3, <2>5, Zenon
  <2> QED BY <2>2, <2>6 DEF Stream!vars, Pend
<1>10. CASE k # 0
  <2>1. k \in 1..Len(Pend) /\ h \in {k - 1, k}
    BY <1>1, <1>2, <1>7, <1>10
  <2>2. Pend' = SubSeq(Pend, k + 1, Len(Pend))
    <3>1. SubSeq(Span(a, u), k + 1, u) = Span(a + k, u - k)
      BY <1>1, <1>2, SpanShrinks, Zenon
    <3> QED BY <1>6, <1>7, <3>1, Zenon
  <2>3. Stream!Take
    BY <1>8, <2>1, <2>2, Zenon DEF Stream!Take, Pend
  <2> QED BY <2>3 DEF Stream!Next
<1> QED BY <1>9, <1>10

(* A step that moves no byte changes what is pending only by making the    *)
(* pipe or by freeing it.                                                  *)
LEMMA StreamRests ==
  ASSUME UNCHANGED <<data, nsent, got>>,
         \/ page' = page /\ UNCHANGED <<nread, nwrite>>
         \/ page' = "freed"
         \/ page' = "live" /\ nread' = 0 /\ nwrite' = 0
  PROVE  [Stream!Next]_(Stream!vars)
<1>1. CASE page' = page /\ UNCHANGED <<nread, nwrite>>
  <2>1. Contents' = Contents
    BY <1>1 DEF Contents, Used
  <2>2. Pend' = Pend
    BY <1>1, <2>1 DEF Pend
  <2> QED BY <2>2 DEF Stream!vars, Pend
<1>2. CASE page' = "freed"
  <2>1. Pend' = <<>>
    BY <1>2 DEF Pend
  <2>2. Stream!Discard
    BY <2>1 DEF Stream!Discard, Pend
  <2> QED BY <2>2 DEF Stream!Next
<1>3. CASE page' = "live" /\ nread' = 0 /\ nwrite' = 0
  <2>1. Used' = 0
    <3>1. (0 + Modulus - 0) % Modulus = 0
      BY PipeSizes
    <3> QED BY <1>3, <3>1 DEF Used
  <2>2. Contents' = <<>>
    BY <2>1 DEF Contents
  <2>3. Pend' = <<>>
    BY <1>3, <2>2 DEF Pend
  <2>4. Stream!Discard
    BY <2>3 DEF Stream!Discard, Pend
  <2> QED BY <2>4 DEF Stream!Next
<1> QED BY <1>1, <1>2, <1>3

LEMMA StreamStep ==
  ASSUME IInv, IInv', [Next]_vars
  PROVE  [Stream!Next]_(Stream!vars)
<1>1. CASE UNCHANGED vars
  BY <1>1, StreamRests, Zenon DEF vars
<1>2. ASSUME NEW p \in Procs, sys_pipe(p) PROVE [Stream!Next]_(Stream!vars)
  BY <1>2, StreamRests DEF sys_pipe
<1>3. ASSUME NEW p \in Procs,
             (\E c \in Procs : fork(p, c)) \/ kill(p) \/ pipewrite(p) \/ piperead(p)
      PROVE  [Stream!Next]_(Stream!vars)
  BY <1>3, StreamRests DEF fork, kill, pipewrite, piperead
<1>4. ASSUME NEW p \in Procs, InPipewrite(p) PROVE [Stream!Next]_(Stream!vars)
  <2>1. CASE WriteFails(p)
    BY <2>1, StreamRests DEF WriteFails
  <2>2. CASE WriteSleeps(p) \/ WriteKilled(p) \/ WriteReturns(p)
    <3>1. InWrite(p) /\ todo[p] \in Nat
      BY <2>2 DEF InWrite, WriteSleeps, WriteKilled, WriteReturns, IInv, TypeOK
    <3>2. UNCHANGED <<page, nread, got>>
      BY <2>2 DEF WriteSleeps, WriteKilled, WriteReturns
    <3>3. \E k \in 0..todo[p] : PutBytes(k)
      <4>1. 0..todo[p]-1 \subseteq 0..todo[p] /\ 1..todo[p]-1 \subseteq 0..todo[p]
        BY <3>1
      <4> QED BY <2>2, <4>1, Zenon DEF WriteSleeps, WriteKilled, WriteReturns
    <3>4. PICK k \in 0..todo[p] : PutBytes(k)
      BY <3>3
    <3>5. k \in Nat
      BY <3>1
    <3> QED BY <3>1, <3>2, <3>4, <3>5, StreamPut, Zenon
  <2> QED BY <1>4, <2>1, <2>2 DEF InPipewrite
<1>5. ASSUME NEW p \in Procs, InPiperead(p) PROVE [Stream!Next]_(Stream!vars)
  <2>1. CASE ReadSleeps(p) \/ ReadFails(p)
    BY <2>1, StreamRests DEF ReadSleeps, ReadFails
  <2>2. CASE ReadCopies(p)
    <3>1. PICK k \in 0..Used : \E h \in Nat :
              /\ nread' = Plus(nread, k) /\ h <= k /\ k <= h + 1
              /\ got' = got \o SubSeq(Contents, 1, h)
      BY <2>2, ReadTakes, Zenon
    <3>2. PICK h \in Nat :
              /\ nread' = Plus(nread, k) /\ h <= k /\ k <= h + 1
              /\ got' = got \o SubSeq(Contents, 1, h)
      BY <3>1, Zenon
    <3>3. UNCHANGED <<page, data, nwrite, nsent>> /\ InRead(p)
      BY <2>2, Zenon DEF ReadCopies, InRead
    <3>4. page = "live"
      BY <3>3, Zenon DEF IInv, EndsInv, EndInv
    <3> QED BY <3>2, <3>3, <3>4, StreamTake, Zenon
  <2> QED BY <1>5, <2>1, <2>2, Zenon DEF InPiperead
<1>6. ASSUME NEW p \in Procs, NEW e \in Ends, fileclose(p, e) \/ pipeclose(p, e)
      PROVE  [Stream!Next]_(Stream!vars)
  BY <1>6, StreamRests DEF fileclose, pipeclose
<1> QED BY <1>1, <1>2, <1>3, <1>4, <1>5, <1>6 DEF Next

(* Readers get the bytes in the order they were written, none twice and    *)
(* none overwritten, over any wrap of nread and nwrite and for any size of *)
(* the ring that divides the range of the counters.                        *)
THEOREM StreamImplemented == Spec => ImplementsStream
<1>1. Init => Stream!Init
  BY DEF Init, Stream!Init
<1>2. IInv /\ IInv' /\ [Next]_vars => [Stream!Next]_(Stream!vars)
  BY StreamStep
<1> QED BY <1>1, <1>2, Invariance, PTL DEF Spec, ImplementsStream, Stream!Spec

=============================================================================
