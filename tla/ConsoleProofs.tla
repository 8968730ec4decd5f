---------------------------- MODULE ConsoleProofs ----------------------------
(***************************************************************************)
(* Proofs about Console for any processes, any sizes of the two buffers and *)
(* any range of the indices that the sizes divide, and about FileWrite for  *)
(* any processes, lengths, disk and file size.  See the head of each part.  *)
(***************************************************************************)
EXTENDS MCConsole, TLAPS

-----------------------------------------------------------------------------
(* Sequences: what the operators return.                                   *)
LEMMA LenIs ==
  ASSUME NEW S, NEW s \in Seq(S)
  PROVE  Len(s) \in Nat /\ s \in [1..Len(s) -> S] /\ DOMAIN s = 1..Len(s)
  OBVIOUS

LEMMA SameSeq ==
  ASSUME NEW S, NEW s \in Seq(S), NEW t \in Seq(S), Len(s) = Len(t),
         \A i \in 1..Len(s) : s[i] = t[i]
  PROVE  s = t
  OBVIOUS

LEMMA AppendIs ==
  ASSUME NEW S, NEW s \in Seq(S), NEW v \in S
  PROVE  /\ Append(s, v) \in Seq(S) /\ Append(s, v) # <<>>
         /\ Len(Append(s, v)) = Len(s) + 1
         /\ \A i \in 1..Len(s) : Append(s, v)[i] = s[i]
         /\ Append(s, v)[Len(s) + 1] = v
  OBVIOUS

LEMMA JoinIs ==
  ASSUME NEW S, NEW s \in Seq(S), NEW t \in Seq(S)
  PROVE  /\ s \o t \in Seq(S) /\ Len(s \o t) = Len(s) + Len(t)
         /\ \A i \in 1..(Len(s) + Len(t)) :
               (s \o t)[i] = IF i <= Len(s) THEN s[i] ELSE t[i - Len(s)]
  OBVIOUS

LEMMA JoinEmpty ==
  ASSUME NEW S, NEW s \in Seq(S)
  PROVE  s \o <<>> = s /\ <<>> \o s = s
  OBVIOUS

LEMMA AppendJoin ==
  ASSUME NEW S, NEW s \in Seq(S), NEW v \in S
  PROVE  Append(s, v) = s \o <<v>>
  OBVIOUS

LEMMA JoinJoin ==
  ASSUME NEW S, NEW s \in Seq(S), NEW t \in Seq(S), NEW u \in Seq(S)
  PROVE  (s \o t) \o u = s \o (t \o u)
  OBVIOUS

LEMMA PartIs ==
  ASSUME NEW S, NEW s, NEW m \in Int, NEW n \in Int, \A i \in m..n : s[i] \in S
  PROVE  /\ SubSeq(s, m, n) \in Seq(S)
         /\ Len(SubSeq(s, m, n)) = IF m <= n THEN n - m + 1 ELSE 0
         /\ \A i \in 1..(n - m + 1) : SubSeq(s, m, n)[i] = s[m + i - 1]
  OBVIOUS

LEMMA PartEmpty ==
  ASSUME NEW s, NEW m \in Int, NEW n \in Int, n < m
  PROVE  SubSeq(s, m, n) = <<>>
  OBVIOUS

LEMMA TailIs ==
  ASSUME NEW S, NEW s \in Seq(S), s # <<>>
  PROVE  Head(s) \in S /\ Tail(s) \in Seq(S) /\ Len(Tail(s)) = Len(s) - 1
  OBVIOUS

LEMMA TailPart ==
  ASSUME NEW S, NEW s \in Seq(S), s # <<>>
  PROVE  Tail(s) = SubSeq(s, 2, Len(s))
  OBVIOUS

(* Remainders.                                                             *)
LEMMA Remainder ==
  ASSUME NEW m \in Nat \ {0}, NEW q \in Int, NEW r \in 0..(m - 1), NEW x \in Nat, x = m * q + r
  PROVE  x % m = r
  OBVIOUS

(* A place in a ring goes on where it was when a counter wraps, because    *)
(* the size of the ring divides the range of the counters.                 *)
LEMMA PlaceKept ==
  ASSUME NEW m \in Nat, NEW z \in Nat \ {0}, m % z = 0, NEW x \in Nat, x >= m
  PROVE  (x - m) % z = x % z
<1> DEFINE q == m \div z
           d == x \div z
           r == x % z
           y == x - m
<1>1. q \in Nat /\ m = z * q + (m % z)
  OBVIOUS
<1>2. d \in Nat /\ r \in 0..(z - 1) /\ x = z * d + r
  OBVIOUS
<1>3. y \in Nat /\ y = x - m
  OBVIOUS
<1> HIDE DEF q, d, r, y
<1>4. y = z * d + r - z * q
  BY <1>1, <1>2, <1>3
<1> DEFINE e == d - q
<1>5. y = z * e + r /\ e \in Int
  BY <1>1, <1>2, <1>4
<1> HIDE DEF e
<1>6. y % z = r
  BY <1>2, <1>3, <1>5, Remainder
<1> QED BY <1>6 DEF r, y

(* As many places in a row as the ring has are all different.              *)
LEMMA RowDiffers ==
  ASSUME NEW z \in Nat \ {0}, NEW c \in Nat, NEW i \in 0..(z - 1), NEW j \in 0..(z - 1),
         (c + i) % z = (c + j) % z
  PROVE  i = j
<1> DEFINE di == (c + i) \div z
           dj == (c + j) \div z
           r == (c + i) % z
<1>1. /\ di \in Nat /\ dj \in Nat /\ r \in Nat
      /\ c + i = z * di + r
      /\ c + j = z * dj + ((c + j) % z)
  OBVIOUS
<1>2. c + j = z * dj + r
  BY <1>1
<1> HIDE DEF di, dj, r
<1> DEFINE e == di - dj
<1>3. e \in Int /\ i - j = z * e
  BY <1>1, <1>2
<1> HIDE DEF e
<1>4. CASE e >= 1
  <2>1. z * e >= z
    BY <1>3, <1>4
  <2> QED BY <1>3, <2>1
<1>5. CASE e <= -1
  <2>1. z * e <= -z
    BY <1>3, <1>5
  <2> QED BY <1>3, <2>1
<1>6. CASE e = 0
  BY <1>3, <1>6
<1> QED BY <1>3, <1>4, <1>5, <1>6

(* The console.  A ring of z places holds the sequence s from place r on.  *)
Holds(b, r, s, z) ==
    /\ Len(s) <= z
    /\ \A i \in Nat : i < Len(s) => b[(r + i) % z] = s[i + 1]

LEMMA PlaceIn ==
  ASSUME NEW z \in Nat \ {0}, NEW c \in Nat, NEW i \in Nat PROVE (c + i) % z \in 0..(z - 1)
  OBVIOUS

(* A character behind the others overwrites none of them.                  *)
LEMMA HoldsPush ==
  ASSUME NEW S, NEW T, NEW z \in Nat \ {0}, NEW b \in [0..(z - 1) -> T], NEW r \in Nat,
         NEW s \in Seq(S), NEW v \in S, Holds(b, r, s, z), Len(s) < z,
         NEW c, NEW a, c = [b EXCEPT ![a] = v], a = (r + Len(s)) % z
  PROVE  Holds(c, r, Append(s, v), z)
<1> DEFINE t == Append(s, v)
<1>1. /\ t \in Seq(S) /\ Len(t) = Len(s) + 1 /\ Len(s) \in Nat /\ t[Len(s) + 1] = v
      /\ \A i \in 1..Len(s) : t[i] = s[i]
  BY AppendIs
<1>2. a \in 0..(z - 1)
  BY <1>1, PlaceIn, Zenon
<1> HIDE DEF t
<1>3. ASSUME NEW i \in Nat, i < Len(t) PROVE c[(r + i) % z] = t[i + 1]
  <2> DEFINE j == (r + i) % z
  <2>1. j \in 0..(z - 1)
    BY PlaceIn, Zenon
  <2>2. CASE i = Len(s)
    <3>1. j = a
      BY <2>2
    <3>2. c[a] = v
      BY <1>2
    <3> QED BY <1>1, <2>2, <3>1, <3>2
  <2>3. CASE i < Len(s)
    <3>1. j # a
      <4>1. i \in 0..(z - 1) /\ Len(s) \in 0..(z - 1) /\ i # Len(s)
        BY <1>1, <2>3
      <4> QED BY <4>1, RowDiffers, Zenon
    <3>2. c[j] = b[j]
      BY <2>1, <3>1
    <3>3. b[j] = s[i + 1]
      BY <2>3 DEF Holds
    <3>4. s[i + 1] = t[i + 1]
      <4>1. i + 1 \in 1..Len(s)
        BY <1>1, <2>3
      <4> QED BY <1>1, <4>1, Zenon
    <3> QED BY <3>2, <3>3, <3>4
  <2> QED BY <1>1, <1>3, <2>2, <2>3
<1>4. Len(t) <= z
  BY <1>1
<1> QED BY <1>3, <1>4, Zenon DEF Holds, t

(* The first k are taken; q is the place of the next.                      *)
Cleared(c, b, r, k, z) ==
    \A j \in 0..(z - 1) : (\A i \in 0..(k - 1) : j # (r + i) % z) => c[j] = b[j]
Moved(q, r, k) == q = r + k \/ (r + k >= WRAP /\ q = r + k - WRAP)

LEMMA HoldsTake ==
  ASSUME NEW S, NEW z \in Nat \ {0}, NEW b, NEW r \in Nat, NEW s \in Seq(S), Holds(b, r, s, z),
         NEW k \in Nat, k <= Len(s), NEW q \in Nat,
         WRAP \in Nat, WRAP % z = 0, Moved(q, r, k), NEW c, Cleared(c, b, r, k, z)
  PROVE  Holds(c, q, SubSeq(s, k + 1, Len(s)), z)
<1> DEFINE t == SubSeq(s, k + 1, Len(s))
<1>1. Len(s) \in Nat /\ \A i \in 1..Len(s) : s[i] \in S
  BY LenIs
<1>2. /\ t \in Seq(S) /\ Len(t) = Len(s) - k
      /\ \A i \in 1..(Len(s) - k) : t[i] = s[k + i]
  <2>1. \A i \in (k + 1)..Len(s) : s[i] \in S
    BY <1>1
  <2>2. k + 1 \in Int /\ Len(s) \in Int
    BY <1>1
  <2>3. /\ t \in Seq(S)
        /\ Len(t) = IF k + 1 <= Len(s) THEN Len(s) - (k + 1) + 1 ELSE 0
        /\ \A i \in 1..(Len(s) - (k + 1) + 1) : t[i] = s[(k + 1) + i - 1]
    BY <2>1, <2>2, PartIs
  <2> HIDE DEF t
  <2> QED BY <1>1, <2>3
<1> HIDE DEF t
<1>3. ASSUME NEW i \in Nat, i < Len(t) PROVE c[(q + i) % z] = t[i + 1]
  <2> DEFINE j == (r + (k + i)) % z
  <2>1. k + i \in Nat /\ k + i < Len(s) /\ Len(s) <= z
    BY <1>1, <1>2, <1>3 DEF Holds
  <2>2. (q + i) % z = j
    <3>1. CASE q = r + k
      BY <3>1
    <3>2. CASE r + k >= WRAP /\ q = r + k - WRAP
      <4> DEFINE x == r + (k + i)
      <4>1. x \in Nat /\ x >= WRAP /\ q + i = x - WRAP
        BY <3>2
      <4> HIDE DEF x
      <4>2. (x - WRAP) % z = x % z
        BY <4>1, PlaceKept, Zenon
      <4> QED BY <4>1, <4>2, Zenon DEF x
    <3> QED BY <3>1, <3>2 DEF Moved
  <2>3. j \in 0..(z - 1)
    BY <2>1, PlaceIn, Zenon
  <2>4. ASSUME NEW h \in 0..(k - 1) PROVE j # (r + h) % z
    <3>1. k + i \in 0..(z - 1) /\ h \in 0..(z - 1) /\ k + i # h
      BY <1>1, <2>1
    <3> QED BY <3>1, RowDiffers, Zenon
  <2>5. c[j] = b[j]
    BY <2>3, <2>4, Zenon DEF Cleared
  <2>6. b[j] = s[(k + i) + 1]
    BY <2>1, Zenon DEF Holds
  <2>7. t[i + 1] = s[(k + i) + 1]
    <3>1. i + 1 \in 1..(Len(s) - k) /\ k + (i + 1) = (k + i) + 1
      BY <1>1, <1>2, <1>3
    <3>2. t[i + 1] = s[k + (i + 1)]
      BY <1>2, <3>1, Zenon
    <3> QED BY <3>1, <3>2, Zenon
  <2> QED BY <2>2, <2>5, <2>6, <2>7
<1>4. Len(t) <= z
  BY <1>1, <1>2 DEF Holds
<1> QED BY <1>3, <1>4 DEF Holds, t

(* The last k are erased.                                                  *)
LEMMA HoldsDrop ==
  ASSUME NEW S, NEW z \in Nat \ {0}, NEW b, NEW r \in Nat, NEW s \in Seq(S), Holds(b, r, s, z),
         NEW k \in Nat, k <= Len(s),
         NEW c, \A j \in 0..(z - 1) :
                   (\A i \in (Len(s) - k)..(Len(s) - 1) : j # (r + i) % z) => c[j] = b[j]
  PROVE  Holds(c, r, SubSeq(s, 1, Len(s) - k), z)
<1> DEFINE t == SubSeq(s, 1, Len(s) - k)
<1>1. Len(s) \in Nat /\ \A i \in 1..Len(s) : s[i] \in S
  BY LenIs
<1>2. /\ t \in Seq(S) /\ Len(t) = Len(s) - k
      /\ \A i \in 1..(Len(s) - k) : t[i] = s[i]
  <2>1. \A i \in 1..(Len(s) - k) : s[i] \in S
    BY <1>1
  <2>2. 1 \in Int /\ Len(s) - k \in Int
    BY <1>1
  <2>3. /\ t \in Seq(S)
        /\ Len(t) = IF 1 <= Len(s) - k THEN (Len(s) - k) - 1 + 1 ELSE 0
        /\ \A i \in 1..((Len(s) - k) - 1 + 1) : t[i] = s[1 + i - 1]
    BY <2>1, <2>2, PartIs
  <2> HIDE DEF t
  <2> QED BY <1>1, <2>3
<1> HIDE DEF t
<1>3. ASSUME NEW i \in Nat, i < Len(t) PROVE c[(r + i) % z] = t[i + 1]
  <2> DEFINE j == (r + i) % z
  <2>1. i < Len(s) /\ Len(s) <= z
    BY <1>1, <1>2, <1>3 DEF Holds
  <2>2. j \in 0..(z - 1)
    BY PlaceIn, Zenon
  <2>3. ASSUME NEW h \in (Len(s) - k)..(Len(s) - 1) PROVE j # (r + h) % z
    <3>1. i \in 0..(z - 1) /\ h \in 0..(z - 1) /\ i # h
      BY <1>1, <1>2, <1>3, <2>1
    <3> QED BY <3>1, RowDiffers, Zenon
  <2>4. c[j] = b[j]
    BY <2>2, <2>3, Zenon
  <2>5. b[j] = s[i + 1]
    BY <2>1 DEF Holds
  <2>6. t[i + 1] = s[i + 1]
    <3>1. i + 1 \in 1..(Len(s) - k)
      BY <1>1, <1>2, <1>3
    <3> QED BY <1>2, <3>1, Zenon
  <2> QED BY <2>4, <2>5, <2>6
<1>4. Len(t) <= z
  BY <1>1, <1>2 DEF Holds
<1> QED BY <1>3, <1>4, Zenon DEF Holds, t

(* The console's indices, k characters on and k characters back.           *)
LEMMA ConsoleSizes ==
  /\ INPUT_BUF_SIZE \in Nat \ {0} /\ UART_TX_BUF_SIZE \in Nat \ {0} /\ WRAP \in Nat
  /\ INPUT_BUF_SIZE < WRAP /\ WRAP % INPUT_BUF_SIZE = 0
  /\ UART_TX_BUF_SIZE < WRAP /\ WRAP % UART_TX_BUF_SIZE = 0
  /\ Sizes \subseteq Nat \ {0}
  BY ConsoleAssumption

LEMMA OnIs ==
  ASSUME NEW c \in 0..(WRAP - 1), NEW k \in Nat, k < WRAP
  PROVE  /\ c + k < WRAP => Plus(c, k) = c + k
         /\ c + k >= WRAP => Plus(c, k) = c + k - WRAP
         /\ Plus(c, k) \in 0..(WRAP - 1)
<1>1. WRAP \in Nat
  BY ConsoleSizes
<1> QED BY <1>1 DEF Plus

LEMMA BackIs ==
  ASSUME NEW c \in 0..(WRAP - 1), NEW k \in Nat, k < WRAP
  PROVE  /\ c >= k => Plus(c, -k) = c - k
         /\ c < k => Plus(c, -k) = c - k + WRAP
         /\ Plus(c, -k) \in 0..(WRAP - 1)
<1>1. WRAP \in Nat
  BY ConsoleSizes
<1> QED BY <1>1 DEF Plus

LEMMA OnOn ==
  ASSUME NEW c \in 0..(WRAP - 1), NEW a \in Nat, NEW b \in Nat, a + b < WRAP
  PROVE  Plus(Plus(c, a), b) = Plus(c, a + b)
<1>1. WRAP \in Nat /\ a < WRAP /\ b < WRAP /\ a + b \in Nat
  BY ConsoleSizes
<1> DEFINE d == Plus(c, a)
           e == Plus(d, b)
           f == Plus(c, a + b)
<1>2. /\ c + a < WRAP => d = c + a
      /\ c + a >= WRAP => d = c + a - WRAP
      /\ d \in 0..(WRAP - 1)
  BY <1>1, OnIs, Zenon
<1> HIDE DEF d
<1>3. /\ d + b < WRAP => e = d + b
      /\ d + b >= WRAP => e = d + b - WRAP
      /\ e \in 0..(WRAP - 1)
  BY <1>1, <1>2, OnIs, Zenon
<1>4. /\ c + (a + b) < WRAP => f = c + (a + b)
      /\ c + (a + b) >= WRAP => f = c + (a + b) - WRAP
      /\ f \in 0..(WRAP - 1)
  BY <1>1, OnIs, Zenon
<1> HIDE DEF e, f
<1>5. e = f
  BY <1>1, <1>2, <1>3, <1>4
<1> QED BY <1>5 DEF d, e, f

LEMMA OnBack ==
  ASSUME NEW c \in 0..(WRAP - 1), NEW a \in Nat, NEW b \in Nat, a < WRAP, b <= a
  PROVE  Plus(Plus(c, a), -b) = Plus(c, a - b)
<1>1. WRAP \in Nat /\ b < WRAP /\ a - b \in Nat /\ a - b < WRAP
  BY ConsoleSizes
<1> DEFINE d == Plus(c, a)
           e == Plus(d, -b)
           f == Plus(c, a - b)
<1>2. /\ c + a < WRAP => d = c + a
      /\ c + a >= WRAP => d = c + a - WRAP
      /\ d \in 0..(WRAP - 1)
  BY OnIs, Zenon
<1> HIDE DEF d
<1>3. /\ d >= b => e = d - b
      /\ d < b => e = d - b + WRAP
      /\ e \in 0..(WRAP - 1)
  BY <1>1, <1>2, BackIs, Zenon
<1>4. /\ c + (a - b) < WRAP => f = c + (a - b)
      /\ c + (a - b) >= WRAP => f = c + (a - b) - WRAP
      /\ f \in 0..(WRAP - 1)
  BY <1>1, OnIs, Zenon
<1> HIDE DEF e, f
<1>5. e = f
  BY <1>1, <1>2, <1>3, <1>4
<1> QED BY <1>5 DEF d, e, f

(* The distance of two indices is the number of steps between them.        *)
LEMMA Behind ==
  ASSUME NEW c \in 0..(WRAP - 1), NEW a \in Nat, a < WRAP
  PROVE  Plus(Plus(c, a), -c) = a
<1>1. WRAP \in Nat /\ c \in Nat /\ c < WRAP
  BY ConsoleSizes
<1> DEFINE d == Plus(c, a)
           e == Plus(d, -c)
<1>2. /\ c + a < WRAP => d = c + a
      /\ c + a >= WRAP => d = c + a - WRAP
      /\ d \in 0..(WRAP - 1)
  BY OnIs, Zenon
<1> HIDE DEF d
<1>3. /\ d >= c => e = d - c
      /\ d < c => e = d - c + WRAP
      /\ e \in 0..(WRAP - 1)
  BY <1>1, <1>2, BackIs, Zenon
<1> HIDE DEF e
<1>4. e = a
  BY <1>1, <1>2, <1>3
<1> QED BY <1>4 DEF d, e

LEMMA Between ==
  ASSUME NEW c \in 0..(WRAP - 1), NEW a \in Nat, NEW b \in Nat, a + b < WRAP
  PROVE  Plus(Plus(c, a + b), -Plus(c, a)) = b
<1>1. a < WRAP /\ b < WRAP
  BY ConsoleSizes
<1>2. Plus(c, a) \in 0..(WRAP - 1)
  BY <1>1, OnIs, Zenon
<1>3. Plus(c, a + b) = Plus(Plus(c, a), b)
  BY OnOn, Zenon
<1> QED BY <1>1, <1>2, <1>3, Behind, Zenon

(* Different steps lead to different indices.                              *)
LEMMA OnInjective ==
  ASSUME NEW c \in 0..(WRAP - 1), NEW a \in Nat, NEW b \in Nat, a < WRAP, b < WRAP,
         Plus(c, a) = Plus(c, b)
  PROVE  a = b
  BY Behind, Zenon

LEMMA PlaceOn ==
  ASSUME NEW c \in 0..(WRAP - 1), NEW k \in Nat, k < WRAP, NEW z \in Nat \ {0}, WRAP % z = 0
  PROVE  Plus(c, k) % z = (c + k) % z
<1> DEFINE x == c + k
           d == Plus(c, k)
<1>1. WRAP \in Nat /\ x \in Nat
  BY ConsoleSizes
<1>2. /\ c + k < WRAP => d = c + k
      /\ c + k >= WRAP => d = c + k - WRAP
      /\ d \in 0..(WRAP - 1)
  BY OnIs, Zenon
<1> HIDE DEF d, x
<1>3. CASE x < WRAP
  BY <1>2, <1>3, Zenon DEF d, x
<1>4. CASE x >= WRAP
  <2>1. (x - WRAP) % z = x % z
    BY <1>1, <1>4, PlaceKept, Zenon
  <2>2. d = x - WRAP
    BY <1>1, <1>2, <1>4 DEF x
  <2> QED BY <2>1, <2>2, Zenon DEF d, x
<1> QED BY <1>1, <1>3, <1>4

(* What a step does to the text handed over, s, and the line, t, it does   *)
(* to the two joined.                                                      *)
LEMMA JoinAppend ==
  ASSUME NEW s \in Seq(Keys), NEW t \in Seq(Keys), NEW v \in Keys
  PROVE  s \o Append(t, v) = Append(s \o t, v)
<1>1. s \o t \in Seq(Keys)
  BY JoinIs
<1>2. Append(t, v) = t \o <<v>> /\ Append(s \o t, v) = (s \o t) \o <<v>>
  BY <1>1, AppendJoin
<1>3. <<v>> \in Seq(Keys)
  OBVIOUS
<1>4. (s \o t) \o <<v>> = s \o (t \o <<v>>)
  BY <1>3, JoinJoin
<1> QED BY <1>2, <1>4

LEMMA JoinAll ==
  ASSUME NEW s \in Seq(Keys), NEW t \in Seq(Keys), NEW v \in Keys
  PROVE  /\ s \o t \o <<v>> = Append(s \o t, v)
         /\ (s \o t \o <<v>>) \o <<>> = Append(s \o t, v)
<1>1. s \o t \in Seq(Keys)
  BY JoinIs
<1>2. (s \o t) \o <<v>> = Append(s \o t, v)
  BY <1>1, AppendJoin
<1>3. Append(s \o t, v) \in Seq(Keys)
  BY <1>1, AppendIs
<1>4. \A x \in Seq(Keys) : x \o <<>> = x
  BY JoinEmpty
<1> QED BY <1>2, <1>3, <1>4

LEMMA JoinTake ==
  ASSUME NEW s \in Seq(Keys), NEW t \in Seq(Keys), NEW k \in Nat, k <= Len(s)
  PROVE  /\ SubSeq(s, k + 1, Len(s)) \o t = SubSeq(s \o t, k + 1, Len(s \o t))
         /\ SubSeq(s, k + 1, Len(s)) \in Seq(Keys) /\ Len(SubSeq(s, k + 1, Len(s))) = Len(s) - k
<1> DEFINE a == SubSeq(s, k + 1, Len(s))
           j == s \o t
           x == a \o t
           y == SubSeq(j, k + 1, Len(j))
<1>1. Len(s) \in Nat /\ Len(t) \in Nat /\ \A i \in 1..Len(s) : s[i] \in Keys
  BY LenIs
<1>2. /\ j \in Seq(Keys) /\ Len(j) = Len(s) + Len(t)
      /\ \A i \in 1..Len(s) + Len(t) : j[i] = IF i <= Len(s) THEN s[i] ELSE t[i - Len(s)]
  BY JoinIs
<1>3. /\ a \in Seq(Keys) /\ Len(a) = Len(s) - k
      /\ \A i \in 1..(Len(s) - k) : a[i] = s[k + i]
  <2>1. k + 1 \in Int /\ Len(s) \in Int /\ \A i \in (k + 1)..Len(s) : s[i] \in Keys
    BY <1>1
  <2>2. /\ a \in Seq(Keys)
        /\ Len(a) = IF k + 1 <= Len(s) THEN Len(s) - (k + 1) + 1 ELSE 0
        /\ \A i \in 1..(Len(s) - (k + 1) + 1) : a[i] = s[(k + 1) + i - 1]
    BY <2>1, PartIs
  <2> HIDE DEF a
  <2> QED BY <1>1, <2>2
<1> HIDE DEF a
<1>4. /\ x \in Seq(Keys) /\ Len(x) = Len(a) + Len(t)
      /\ \A i \in 1..Len(a) + Len(t) : x[i] = IF i <= Len(a) THEN a[i] ELSE t[i - Len(a)]
  BY <1>3, JoinIs, Zenon
<1> HIDE DEF j
<1>5. /\ y \in Seq(Keys) /\ Len(y) = Len(j) - k
      /\ \A i \in 1..(Len(j) - k) : y[i] = j[k + i]
  <2>1. k + 1 \in Int /\ Len(j) \in Int /\ \A i \in (k + 1)..Len(j) : j[i] \in Keys
    <3>1. \A i \in 1..Len(j) : j[i] \in Keys
      BY <1>2, LenIs
    <3> QED BY <1>1, <1>2, <3>1
  <2>2. /\ y \in Seq(Keys)
        /\ Len(y) = IF k + 1 <= Len(j) THEN Len(j) - (k + 1) + 1 ELSE 0
        /\ \A i \in 1..(Len(j) - (k + 1) + 1) : y[i] = j[(k + 1) + i - 1]
    BY <2>1, PartIs
  <2> HIDE DEF y
  <2> QED BY <1>1, <1>2, <2>2
<1> HIDE DEF x, y
<1>6. Len(x) = Len(y)
  BY <1>1, <1>2, <1>3, <1>4, <1>5
<1>7. ASSUME NEW i \in 1..Len(x) PROVE x[i] = y[i]
  <2>1. CASE i <= Len(s) - k
    <3>1. /\ i \in 1..(Len(s) - k) /\ i \in 1..(Len(j) - k) /\ i \in 1..Len(a) + Len(t) /\ i <= Len(a)
          /\ k + i \in 1..Len(s) + Len(t) /\ k + i <= Len(s)
      BY <1>1, <1>2, <1>3, <1>4, <2>1
    <3>2. x[i] = a[i]
      BY <1>4, <3>1
    <3>3. a[i] = s[k + i]
      BY <1>3, <3>1
    <3>4. y[i] = j[k + i]
      BY <1>5, <3>1, Zenon
    <3>5. j[k + i] = s[k + i]
      BY <1>2, <3>1
    <3> QED BY <3>2, <3>3, <3>4, <3>5
  <2>2. CASE i > Len(s) - k
    BY <1>1, <1>2, <1>3, <1>4, <1>5, <2>2
  <2> QED BY <1>1, <1>3, <1>4, <2>1, <2>2
<1>8. x = y
  BY <1>4, <1>5, <1>6, <1>7, SameSeq, Zenon
<1> QED BY <1>3, <1>8, Zenon DEF a, x, y, j

LEMMA JoinDrop ==
  ASSUME NEW s \in Seq(Keys), NEW t \in Seq(Keys), NEW k \in Nat, k <= Len(t)
  PROVE  /\ s \o SubSeq(t, 1, Len(t) - k) = SubSeq(s \o t, 1, Len(s \o t) - k)
         /\ SubSeq(t, 1, Len(t) - k) \in Seq(Keys) /\ Len(SubSeq(t, 1, Len(t) - k)) = Len(t) - k
<1> DEFINE a == SubSeq(t, 1, Len(t) - k)
           j == s \o t
           x == s \o a
           y == SubSeq(j, 1, Len(j) - k)
<1>1. Len(s) \in Nat /\ Len(t) \in Nat /\ \A i \in 1..Len(t) : t[i] \in Keys
  BY LenIs
<1>2. /\ j \in Seq(Keys) /\ Len(j) = Len(s) + Len(t)
      /\ \A i \in 1..Len(s) + Len(t) : j[i] = IF i <= Len(s) THEN s[i] ELSE t[i - Len(s)]
  BY JoinIs
<1>3. /\ a \in Seq(Keys) /\ Len(a) = Len(t) - k
      /\ \A i \in 1..(Len(t) - k) : a[i] = t[i]
  <2>1. 1 \in Int /\ Len(t) - k \in Int /\ \A i \in 1..(Len(t) - k) : t[i] \in Keys
    BY <1>1
  <2>2. /\ a \in Seq(Keys)
        /\ Len(a) = IF 1 <= Len(t) - k THEN (Len(t) - k) - 1 + 1 ELSE 0
        /\ \A i \in 1..((Len(t) - k) - 1 + 1) : a[i] = t[1 + i - 1]
    BY <2>1, PartIs
  <2> HIDE DEF a
  <2> QED BY <1>1, <2>2
<1> HIDE DEF a
<1>4. /\ x \in Seq(Keys) /\ Len(x) = Len(s) + Len(a)
      /\ \A i \in 1..Len(s) + Len(a) : x[i] = IF i <= Len(s) THEN s[i] ELSE a[i - Len(s)]
  BY <1>3, JoinIs, Zenon
<1> HIDE DEF j
<1>5. /\ y \in Seq(Keys) /\ Len(y) = Len(j) - k
      /\ \A i \in 1..(Len(j) - k) : y[i] = j[i]
  <2>1. 1 \in Int /\ Len(j) - k \in Int /\ \A i \in 1..(Len(j) - k) : j[i] \in Keys
    <3>1. \A i \in 1..Len(j) : j[i] \in Keys
      BY <1>2, LenIs
    <3> QED BY <1>1, <1>2, <3>1
  <2>2. /\ y \in Seq(Keys)
        /\ Len(y) = IF 1 <= Len(j) - k THEN (Len(j) - k) - 1 + 1 ELSE 0
        /\ \A i \in 1..((Len(j) - k) - 1 + 1) : y[i] = j[1 + i - 1]
    BY <2>1, PartIs
  <2> HIDE DEF y
  <2> QED BY <1>1, <1>2, <2>2
<1> HIDE DEF x, y
<1>6. Len(x) = Len(y)
  BY <1>1, <1>2, <1>3, <1>4, <1>5
<1>7. ASSUME NEW i \in 1..Len(x) PROVE x[i] = y[i]
  <2>0. /\ i \in 1..(Len(j) - k) /\ i \in 1..Len(s) + Len(t) /\ i \in 1..Len(s) + Len(a)
    BY <1>1, <1>2, <1>3, <1>4
  <2>1. y[i] = j[i]
    BY <1>5, <2>0
  <2>2. CASE i <= Len(s)
    BY <1>2, <1>4, <2>0, <2>1, <2>2, Zenon
  <2>3. CASE i > Len(s)
    <3>1. i - Len(s) \in 1..(Len(t) - k) /\ ~(i <= Len(s))
      BY <1>1, <1>3, <2>0, <2>3
    <3>2. x[i] = a[i - Len(s)]
      BY <1>4, <2>0, <3>1
    <3>3. j[i] = t[i - Len(s)]
      BY <1>2, <2>0, <3>1
    <3> QED BY <1>3, <2>1, <3>1, <3>2, <3>3, Zenon
  <2> QED BY <1>1, <2>0, <2>2, <2>3
<1>8. x = y
  BY <1>4, <1>5, <1>6, <1>7, SameSeq, Zenon
<1> QED BY <1>3, <1>8, Zenon DEF a, x, y, j

(* The inductive invariant of the console, for input and for output: the   *)
(* buffer holds the text, with the indices that lie so many characters     *)
(* behind one another; and those who sleep have a reason.                  *)
Reading == {Out} \cup [at : {"run", "asleep", "killed"}, n : Nat \ {0}, target : Nat \ {0}]
Writing == {Out} \cup [at : {"run", "asleep"}, n : Nat \ {0}]

InputTypes ==
    /\ cons \in [buf : [0..(INPUT_BUF_SIZE - 1) -> Keys \cup {NONE}],
                 r : 0..(WRAP - 1), w : 0..(WRAP - 1), e : 0..(WRAP - 1)]
    /\ ready \in Seq(Keys) /\ line \in Seq(Keys)
    /\ reader \in [Readers -> Reading]

InputText ==
    /\ cons.w = Plus(cons.r, Len(ready))
    /\ cons.e = Plus(cons.r, Len(ready) + Len(line))
    /\ Holds(cons.buf, cons.r, ready \o line, INPUT_BUF_SIZE)
    /\ Len(ready) + Len(line) = INPUT_BUF_SIZE => line = <<>>

InputInv ==
    /\ InputTypes /\ InputText
    /\ \A p \in Readers : reader[p].at = "asleep" => cons.r = cons.w

OutputTypes ==
    /\ tx \in [buf : [0..(UART_TX_BUF_SIZE - 1) -> Writers \cup {NONE}],
               r : 0..(WRAP - 1), w : 0..(WRAP - 1)]
    /\ sent \in Seq(Writers)
    /\ writer \in [Writers -> Writing]

OutputText ==
    /\ tx.w = Plus(tx.r, Len(sent))
    /\ Holds(tx.buf, tx.r, sent, UART_TX_BUF_SIZE)

OutputInv ==
    /\ OutputTypes /\ OutputText
    /\ \A p \in Writers : writer[p].at = "asleep" => Full

ConsoleInv == InputInv /\ OutputInv

LEMMA InputKept == ASSUME InputInv, UNCHANGED input PROVE InputInv'
  BY DEF InputInv, InputTypes, InputText, input

LEMMA OutputKept == ASSUME OutputInv, UNCHANGED output PROVE OutputInv'
  BY DEF OutputInv, OutputTypes, OutputText, Full, output

LEMMA InputFacts ==
  ASSUME InputInv
  PROVE  /\ cons.buf \in [0..(INPUT_BUF_SIZE - 1) -> Keys \cup {NONE}]
         /\ cons.r \in 0..(WRAP - 1) /\ cons.w \in 0..(WRAP - 1) /\ cons.e \in 0..(WRAP - 1)
         /\ Len(ready) \in Nat /\ Len(line) \in Nat /\ Len(ready) + Len(line) <= INPUT_BUF_SIZE
         /\ Len(ready) + Len(line) < WRAP
         /\ ready \o line \in Seq(Keys) /\ Len(ready \o line) = Len(ready) + Len(line)
         /\ Plus(cons.w, -cons.r) = Len(ready)
         /\ Plus(cons.e, -cons.w) = Len(line)
         /\ Plus(cons.e, -cons.r) = Len(ready) + Len(line)
<1>1. /\ cons.buf \in [0..(INPUT_BUF_SIZE - 1) -> Keys \cup {NONE}]
      /\ cons.r \in 0..(WRAP - 1) /\ cons.w \in 0..(WRAP - 1) /\ cons.e \in 0..(WRAP - 1)
      /\ ready \in Seq(Keys) /\ line \in Seq(Keys)
      /\ cons.w = Plus(cons.r, Len(ready)) /\ cons.e = Plus(cons.r, Len(ready) + Len(line))
      /\ Len(ready \o line) <= INPUT_BUF_SIZE
  BY DEF InputInv, InputTypes, InputText, Holds
<1>2. Len(ready) \in Nat /\ Len(line) \in Nat
  BY <1>1, LenIs
<1>3. ready \o line \in Seq(Keys) /\ Len(ready \o line) = Len(ready) + Len(line)
  BY <1>1, JoinIs
<1>4. /\ Len(ready) + Len(line) <= INPUT_BUF_SIZE /\ Len(ready) + Len(line) < WRAP
      /\ Len(ready) + Len(line) \in Nat /\ Len(ready) < WRAP
  <2>1. Len(ready) + Len(line) <= INPUT_BUF_SIZE
    BY <1>1, <1>3, Zenon
  <2>2. INPUT_BUF_SIZE \in Nat /\ WRAP \in Nat /\ INPUT_BUF_SIZE < WRAP
    BY ConsoleSizes
  <2> QED BY <1>2, <2>1, <2>2
<1>5. /\ Plus(cons.w, -cons.r) = Len(ready)
      /\ Plus(cons.e, -cons.r) = Len(ready) + Len(line)
  BY <1>1, <1>2, <1>4, Behind, Zenon
<1>6. Plus(cons.e, -cons.w) = Len(line)
  <2>1. Plus(Plus(cons.r, Len(ready) + Len(line)), -Plus(cons.r, Len(ready))) = Len(line)
    BY <1>1, <1>2, <1>4, Between, Zenon
  <2> QED BY <1>1, <2>1
<1> QED BY <1>1, <1>2, <1>3, <1>4, <1>5, <1>6, Zenon

(* The place of the character that is k back from the end of the line.     *)
LEMMA BackPlace ==
  ASSUME InputInv, NEW k \in Nat, k <= Len(ready) + Len(line)
  PROVE  /\ Plus(cons.e, -k) = Plus(cons.r, (Len(ready) + Len(line)) - k)
         /\ Slot(Plus(cons.e, -k)) = (cons.r + ((Len(ready) + Len(line)) - k)) % INPUT_BUF_SIZE
<1> DEFINE L == Len(ready) + Len(line)
<1>1. /\ cons.r \in 0..(WRAP - 1) /\ L \in Nat /\ L < WRAP
      /\ cons.e = Plus(cons.r, L)
  BY InputFacts DEF InputInv, InputText
<1> HIDE DEF L
<1>2. k <= L
  BY DEF L
<1>3. Plus(cons.e, -k) = Plus(cons.r, L - k)
  BY <1>1, <1>2, OnBack, Zenon
<1>4. L - k \in Nat /\ L - k < WRAP
  BY <1>1, <1>2, ConsoleSizes
<1>5. INPUT_BUF_SIZE \in Nat \ {0} /\ WRAP % INPUT_BUF_SIZE = 0
  BY ConsoleSizes
<1>6. Plus(cons.r, L - k) % INPUT_BUF_SIZE = (cons.r + (L - k)) % INPUT_BUF_SIZE
  BY <1>1, <1>4, <1>5, PlaceOn, Zenon
<1>7. Slot(Plus(cons.e, -k)) = (cons.r + (L - k)) % INPUT_BUF_SIZE
  BY <1>3, <1>6, Zenon DEF Slot
<1> QED BY <1>3, <1>7, Zenon DEF L

(* Erasing k characters of the line leaves what came before.               *)
ConsType == [buf : [0..(INPUT_BUF_SIZE - 1) -> Keys \cup {NONE}],
             r : 0..(WRAP - 1), w : 0..(WRAP - 1), e : 0..(WRAP - 1)]

LEMMA EraseKeeps ==
  ASSUME InputInv, NEW k \in Nat, k <= Len(line), cons' \in ConsType,
         cons'.r = cons.r, cons'.w = cons.w, cons'.e = Plus(cons.e, -k),
         \A j \in 0..(INPUT_BUF_SIZE - 1) :
            (\A i \in 1..k : j # Slot(Plus(cons.e, -i))) => cons'.buf[j] = cons.buf[j],
         line' = SubSeq(line, 1, Len(line) - k), reader' = reader, ready' = ready
  PROVE  InputInv'
<1> DEFINE s == ready \o line
           L == Len(ready) + Len(line)
           r == cons.r
<1>1. /\ r \in 0..(WRAP - 1) /\ Len(ready) \in Nat /\ Len(line) \in Nat /\ L \in Nat
      /\ L <= INPUT_BUF_SIZE /\ s \in Seq(Keys) /\ Len(s) = L
      /\ INPUT_BUF_SIZE \in Nat \ {0} /\ ready \in Seq(Keys) /\ line \in Seq(Keys)
  BY InputFacts, ConsoleSizes DEF InputInv, InputTypes
<1>2. k <= L
  BY <1>1
<1>3. /\ Holds(cons.buf, r, s, INPUT_BUF_SIZE) /\ cons.w = Plus(r, Len(ready))
      /\ L = INPUT_BUF_SIZE => line = <<>>
  BY DEF InputInv, InputText
<1>4. ASSUME NEW j \in 0..(INPUT_BUF_SIZE - 1),
             \A i \in (Len(s) - k)..(Len(s) - 1) : j # (r + i) % INPUT_BUF_SIZE
      PROVE  cons'.buf[j] = cons.buf[j]
  <2>1. ASSUME NEW i \in 1..k PROVE j # Slot(Plus(cons.e, -i))
    <3>1. i \in Nat /\ i <= L /\ L - i \in (L - k)..(L - 1)
      BY <1>1, <1>2
    <3>2. Slot(Plus(cons.e, -i)) = (r + (L - i)) % INPUT_BUF_SIZE
      BY <3>1, BackPlace, Zenon
    <3>3. j # (r + (L - i)) % INPUT_BUF_SIZE
      BY <1>1, <1>4, <3>1, Zenon
    <3> QED BY <3>2, <3>3, Zenon
  <2> QED BY <2>1
<1>5. Plus(cons.e, -k) = Plus(r, L - k)
  BY <1>2, BackPlace, Zenon
<1>6. r \in Nat
  BY <1>1
<1>7. /\ ready \o SubSeq(line, 1, Len(line) - k) = SubSeq(s, 1, Len(s) - k)
      /\ SubSeq(line, 1, Len(line) - k) \in Seq(Keys)
      /\ Len(SubSeq(line, 1, Len(line) - k)) = Len(line) - k
  BY <1>1, JoinDrop, Zenon
<1> HIDE DEF s
<1>8. Holds(cons'.buf, r, SubSeq(s, 1, Len(s) - k), INPUT_BUF_SIZE)
  <2> DEFINE c == cons'.buf
  <2>1. \A j \in 0..(INPUT_BUF_SIZE - 1) :
           (\A i \in (Len(s) - k)..(Len(s) - 1) : j # (r + i) % INPUT_BUF_SIZE) => c[j] = cons.buf[j]
    BY <1>4, Zenon
  <2>2. k <= Len(s)
    BY <1>1, <1>2
  <2> HIDE DEF c, r, L
  <2>3. Holds(c, r, SubSeq(s, 1, Len(s) - k), INPUT_BUF_SIZE)
    BY <1>1, <1>3, <1>6, <2>1, <2>2, HoldsDrop, Zenon
  <2> QED BY <2>3 DEF c
<1>9. Holds(cons'.buf, cons'.r, ready' \o line', INPUT_BUF_SIZE)
  BY <1>7, <1>8, Zenon
<1>10. Len(line') = Len(line) - k /\ line' \in Seq(Keys)
  BY <1>7
<1>11. Len(ready') + Len(line') = L - k
  <2>1. Len(ready) + (Len(line) - k) = L - k
    BY <1>1
  <2> QED BY <1>10, <2>1, Zenon
<1>12. L - k = INPUT_BUF_SIZE => line' = <<>>
  <2> SUFFICES ASSUME L - k = INPUT_BUF_SIZE PROVE line' = <<>>
    OBVIOUS
  <2>1. k = 0 /\ L = INPUT_BUF_SIZE
    BY <1>1, <1>2
  <2>2. line = <<>>
    BY <1>3, <2>1
  <2>3. Len(line') = 0
    BY <1>10, <2>1, <2>2
  <2> QED BY <1>10, <2>3
<1>13. InputText'
  <2>1. cons'.e = Plus(cons'.r, Len(ready') + Len(line'))
    BY <1>5, <1>11
  <2>2. cons'.w = Plus(cons'.r, Len(ready'))
    BY <1>3
  <2>3. Len(ready') + Len(line') = INPUT_BUF_SIZE => line' = <<>>
    BY <1>11, <1>12, Zenon
  <2> QED BY <1>9, <2>1, <2>2, <2>3, Zenon DEF InputText, Plus
<1>14. InputTypes'
  BY <1>10, Zenon DEF InputInv, InputTypes, ConsType, Reading, Out
<1> QED BY <1>13, <1>14, Zenon DEF InputInv

LEMMA KillLineKeeps == ASSUME InputInv, KillLine PROVE InputInv'
<1> DEFINE k == Len(line)
           hit(i) == \E h \in 1..Plus(cons.e, -cons.w) : i = Slot(Plus(cons.e, -h))
<1>1. /\ cons' = [cons EXCEPT !.e = cons.w,
                  !.buf = [i \in DOMAIN cons.buf |-> IF hit(i) THEN NONE ELSE cons.buf[i]]]
      /\ line' = <<>> /\ reader' = reader /\ ready' = ready
  BY DEF KillLine
<1>2. k \in Nat /\ k <= Len(line) /\ Plus(cons.e, -cons.w) = k /\ cons \in ConsType
  BY InputFacts DEF InputInv, InputTypes, ConsType
<1>3. \A i : hit(i) <=> \E h \in 1..k : i = Slot(Plus(cons.e, -h))
  BY <1>2, Zenon
<1> HIDE DEF hit
<1>4. /\ cons' \in ConsType /\ cons'.r = cons.r /\ cons'.w = cons.w /\ cons'.e = cons.w
      /\ \A j \in 0..(INPUT_BUF_SIZE - 1) : ~hit(j) => cons'.buf[j] = cons.buf[j]
  BY <1>1, <1>2, Zenon DEF ConsType
<1>5. cons.w = Plus(cons.e, -k)
  <2>1. k <= Len(ready) + Len(line) /\ (Len(ready) + Len(line)) - k = Len(ready)
    BY InputFacts
  <2>2. Plus(cons.e, -k) = Plus(cons.r, (Len(ready) + Len(line)) - k)
    BY <1>2, <2>1, BackPlace, Zenon
  <2> QED BY <2>1, <2>2 DEF InputInv, InputText
<1>6. \A j \in 0..(INPUT_BUF_SIZE - 1) :
         (\A i \in 1..k : j # Slot(Plus(cons.e, -i))) => cons'.buf[j] = cons.buf[j]
  BY <1>3, <1>4, Zenon
<1>7. line' = SubSeq(line, 1, Len(line) - k)
  <2>1. Len(line) - k = 0
    BY <1>2
  <2>2. SubSeq(line, 1, 0) = <<>>
    BY PartEmpty
  <2> QED BY <1>1, <2>1, <2>2
<1> HIDE DEF k
<1> QED BY <1>1, <1>2, <1>4, <1>5, <1>6, <1>7, EraseKeeps, Zenon

LEMMA BackspaceKeeps == ASSUME InputInv, cons.e # cons.w, Backspace PROVE InputInv'
<1> DEFINE a == Slot(Plus(cons.e, -1))
<1>1. /\ cons' = [cons EXCEPT !.e = Plus(cons.e, -1), !.buf[a] = NONE]
      /\ line' = SubSeq(line, 1, Len(line) - 1) /\ reader' = reader /\ ready' = ready
  BY Zenon DEF Backspace
<1>2. /\ Len(line) \in Nat /\ Len(ready) \in Nat /\ cons \in ConsType
      /\ cons.e = Plus(cons.r, Len(ready) + Len(line)) /\ cons.w = Plus(cons.r, Len(ready))
  BY InputFacts DEF InputInv, InputTypes, InputText, ConsType
<1>3. 1 \in Nat /\ 1 <= Len(line)
  <2>1. CASE Len(line) = 0
    <3>1. Len(ready) + Len(line) = Len(ready)
      BY <1>2, <2>1
    <3> QED BY <1>2, <3>1, Zenon
  <2> QED BY <1>2, <2>1
<1>4. Plus(cons.e, -1) \in 0..(WRAP - 1)
  <2>1. cons.e \in 0..(WRAP - 1) /\ 1 < WRAP
    BY InputFacts, ConsoleSizes
  <2> QED BY <2>1, BackIs, Zenon
<1> HIDE DEF a
<1>5. /\ cons' \in ConsType /\ cons'.r = cons.r /\ cons'.w = cons.w /\ cons'.e = Plus(cons.e, -1)
      /\ \A j \in 0..(INPUT_BUF_SIZE - 1) : j # a => cons'.buf[j] = cons.buf[j]
  BY <1>1, <1>2, <1>4, Zenon DEF ConsType
<1>6. \A j \in 0..(INPUT_BUF_SIZE - 1) :
         (\A i \in 1..1 : j # Slot(Plus(cons.e, -i))) => cons'.buf[j] = cons.buf[j]
  <2>1. 1 \in 1..1
    OBVIOUS
  <2> QED BY <1>5, <2>1, Zenon DEF a
<1> QED BY <1>1, <1>3, <1>5, <1>6, EraseKeeps, Zenon

(* Waking leaves nobody asleep.                                            *)
LEMMA WakeKeeps ==
  ASSUME reader \in [Readers -> Reading], WakeReaders
  PROVE  reader' \in [Readers -> Reading] /\ \A p \in Readers : reader'[p].at # "asleep"
  BY DEF WakeReaders, Reading, Out

LEMMA InsertKeeps ==
  ASSUME InputInv, NEW c \in Keys, Plus(cons.e, -cons.r) < INPUT_BUF_SIZE, Insert(c)
  PROVE  InputInv'
<1> DEFINE s == ready \o line
           L == Len(ready) + Len(line)
           a == Slot(cons.e)
           e1 == Plus(cons.e, 1)
           commit == c \in {"nl", "^D"} \/ Plus(e1, -cons.r) = INPUT_BUF_SIZE
<1>1. /\ cons' = [cons EXCEPT !.buf[a] = c, !.e = e1, !.w = IF commit THEN e1 ELSE cons.w]
      /\ commit => ready' = ready \o line \o <<c>> /\ line' = <<>> /\ WakeReaders
      /\ ~commit => line' = Append(line, c) /\ ready' = ready /\ reader' = reader
  BY Zenon DEF Insert
<1>2. /\ cons \in ConsType /\ cons.r \in 0..(WRAP - 1) /\ cons.r \in Nat
      /\ Len(ready) \in Nat /\ Len(line) \in Nat
      /\ s \in Seq(Keys) /\ Len(s) = L /\ ready \in Seq(Keys) /\ line \in Seq(Keys)
      /\ reader \in [Readers -> Reading]
      /\ cons.w = Plus(cons.r, Len(ready)) /\ cons.e = Plus(cons.r, L)
      /\ Holds(cons.buf, cons.r, s, INPUT_BUF_SIZE)
  BY InputFacts DEF InputInv, InputTypes, InputText, ConsType
<1>3. L \in Nat /\ L < INPUT_BUF_SIZE
  BY <1>2, InputFacts
<1>4. INPUT_BUF_SIZE \in Nat \ {0} /\ WRAP % INPUT_BUF_SIZE = 0 /\ WRAP \in Nat /\ INPUT_BUF_SIZE < WRAP
  BY ConsoleSizes
<1> HIDE DEF L
<1>5. /\ L < WRAP /\ L + 1 < WRAP /\ L + 1 \in Nat /\ L + 1 <= INPUT_BUF_SIZE /\ 1 \in Nat
  BY <1>3, <1>4
<1>6. e1 = Plus(cons.r, L + 1)
  <2>1. Plus(Plus(cons.r, L), 1) = Plus(cons.r, L + 1)
    BY <1>2, <1>3, <1>5, OnOn, Zenon
  <2> QED BY <1>2, <2>1, Zenon
<1>7. Plus(e1, -cons.r) = L + 1
  BY <1>2, <1>5, <1>6, Behind, Zenon
<1>8. e1 \in 0..(WRAP - 1)
  BY <1>2, <1>5, <1>6, OnIs, Zenon
<1>9. a = (cons.r + Len(s)) % INPUT_BUF_SIZE
  <2>1. Plus(cons.r, L) % INPUT_BUF_SIZE = (cons.r + L) % INPUT_BUF_SIZE
    BY <1>2, <1>3, <1>4, <1>5, PlaceOn, Zenon
  <2> QED BY <1>2, <2>1, Zenon DEF Slot
<1> HIDE DEF e1, a, s
<1>10. /\ cons' \in ConsType /\ cons'.r = cons.r /\ cons'.w = (IF commit THEN e1 ELSE cons.w)
       /\ cons'.e = e1 /\ cons'.buf = [cons.buf EXCEPT ![a] = c]
  BY <1>1, <1>2, <1>8, Zenon DEF ConsType
<1>11. Holds(cons'.buf, cons.r, Append(s, c), INPUT_BUF_SIZE)
  <2> DEFINE d == cons'.buf
             T == Keys \cup {NONE}
  <2>1. /\ cons.buf \in [0..(INPUT_BUF_SIZE - 1) -> T] /\ d = [cons.buf EXCEPT ![a] = c]
        /\ Len(s) < INPUT_BUF_SIZE
    BY <1>2, <1>3, <1>10 DEF ConsType
  <2> HIDE DEF d, T, commit
  <2>2. Holds(d, cons.r, Append(s, c), INPUT_BUF_SIZE)
    BY <1>2, <1>4, <1>9, <2>1, HoldsPush, Zenon
  <2> QED BY <2>2 DEF d
<1>12. Append(s, c) \in Seq(Keys) /\ Len(Append(s, c)) = L + 1
  BY <1>2, AppendIs
<1>13. commit <=> c \in {"nl", "^D"} \/ L + 1 = INPUT_BUF_SIZE
  BY <1>7, Zenon
<1> HIDE DEF commit
<1>14. CASE commit
  <2>1. ready' = Append(s, c) /\ ready' \o <<>> = Append(s, c)
    BY <1>1, <1>2, <1>14, JoinAll DEF s
  <2>2. /\ line' = <<>> /\ Len(line') = 0 /\ Len(ready') = L + 1 /\ Len(ready') + Len(line') = L + 1
    BY <1>1, <1>5, <1>12, <1>14, <2>1
  <2>3. cons'.w = Plus(cons'.r, Len(ready'))
    BY <1>6, <1>10, <1>14, <2>2, Zenon
  <2>4. cons'.e = Plus(cons'.r, Len(ready') + Len(line'))
    BY <1>6, <1>10, <2>2
  <2>5. Holds(cons'.buf, cons'.r, ready' \o line', INPUT_BUF_SIZE)
    BY <1>10, <1>11, <2>1, <2>2, Zenon
  <2>6. InputText'
    BY <2>2, <2>3, <2>4, <2>5, Zenon DEF InputText, Plus
  <2>7. reader' \in [Readers -> Reading] /\ \A p \in Readers : reader'[p].at # "asleep"
    BY <1>1, <1>2, <1>14, WakeKeeps, Zenon
  <2>8. ready' \in Seq(Keys) /\ line' \in Seq(Keys)
    BY <1>12, <2>1, <2>2
  <2>9. InputTypes'
    BY <1>10, <2>7, <2>8, Zenon DEF InputTypes, ConsType, Reading, Out
  <2> QED BY <2>6, <2>7, <2>9 DEF InputInv
<1>15. CASE ~commit
  <2>1. line' = Append(line, c) /\ ready' = ready /\ reader' = reader
    BY <1>1, <1>15, Zenon
  <2>2. line' \in Seq(Keys) /\ Len(line') = Len(line) + 1
    BY <1>2, <2>1, AppendIs, Zenon
  <2>3. ready' \o line' = Append(s, c)
    BY <1>2, <2>1, JoinAppend, Zenon DEF s
  <2>4. Len(ready') + Len(line') = L + 1 /\ L + 1 # INPUT_BUF_SIZE
    <3>1. Len(ready) + (Len(line) + 1) = L + 1
      BY <1>2 DEF L
    <3> QED BY <1>13, <1>15, <2>1, <2>2, <3>1, Zenon
  <2>5. cons'.w = Plus(cons'.r, Len(ready')) /\ cons'.w = cons.w
    BY <1>2, <1>10, <1>15, <2>1, Zenon
  <2>6. cons'.e = Plus(cons'.r, Len(ready') + Len(line'))
    BY <1>6, <1>10, <2>4
  <2>7. Holds(cons'.buf, cons'.r, ready' \o line', INPUT_BUF_SIZE)
    BY <1>10, <1>11, <2>3, Zenon
  <2>8. InputText'
    BY <2>4, <2>5, <2>6, <2>7, Zenon DEF InputText, Plus
  <2>9. InputTypes'
    BY <1>2, <1>10, <2>1, <2>2, Zenon DEF InputTypes, ConsType, Reading, Out
  <2>10. \A p \in Readers : reader'[p].at = "asleep" => cons'.r = cons'.w
    BY <1>10, <2>1, <2>5, Zenon DEF InputInv
  <2> QED BY <2>8, <2>9, <2>10 DEF InputInv
<1> QED BY <1>14, <1>15

(* consoleread() takes the first k characters that were handed over.       *)
LEMMA TakeKeeps ==
  ASSUME InputInv, NEW k \in Nat, k <= Len(ready), Take(k), line' = line
  PROVE  /\ InputText' /\ cons' \in ConsType /\ ready' \in Seq(Keys)
         /\ k = Len(ready) => cons'.r = cons'.w
<1> DEFINE s == ready \o line
           n == Len(ready)
           L == Len(ready) + Len(line)
           r == cons.r
           hit(i) == \E j \in 0..(k - 1) : i = Slot(Plus(r, j))
<1>1. /\ cons' = [cons EXCEPT !.r = Plus(r, k),
                  !.buf = [i \in DOMAIN cons.buf |-> IF hit(i) THEN NONE ELSE cons.buf[i]]]
      /\ ready' = SubSeq(ready, k + 1, Len(ready))
  BY Zenon DEF Take
<1>2. /\ cons \in ConsType /\ r \in 0..(WRAP - 1) /\ r \in Nat
      /\ n \in Nat /\ Len(line) \in Nat /\ L \in Nat /\ L < WRAP /\ L <= INPUT_BUF_SIZE
      /\ s \in Seq(Keys) /\ Len(s) = L /\ ready \in Seq(Keys) /\ line \in Seq(Keys)
      /\ cons.w = Plus(r, n) /\ cons.e = Plus(r, L)
      /\ Holds(cons.buf, r, s, INPUT_BUF_SIZE) /\ (L = INPUT_BUF_SIZE => line = <<>>)
  BY InputFacts DEF InputInv, InputTypes, InputText, ConsType
<1>3. INPUT_BUF_SIZE \in Nat \ {0} /\ WRAP % INPUT_BUF_SIZE = 0 /\ WRAP \in Nat
  BY ConsoleSizes
<1>4. /\ k < WRAP /\ k <= L /\ n - k \in Nat /\ k + (n - k) = n /\ k + (n - k) < WRAP
      /\ L - k \in Nat /\ k + (L - k) = L /\ k + (L - k) < WRAP /\ (n - k) + Len(line) = L - k
  BY <1>2, <1>3
<1>5. /\ SubSeq(ready, k + 1, Len(ready)) \o line = SubSeq(s, k + 1, Len(s))
      /\ SubSeq(ready, k + 1, Len(ready)) \in Seq(Keys)
      /\ Len(SubSeq(ready, k + 1, Len(ready))) = n - k
  BY <1>2, JoinTake, Zenon
<1> HIDE DEF s, L, n, r
<1>6. /\ r + k < WRAP => Plus(r, k) = r + k
      /\ r + k >= WRAP => Plus(r, k) = r + k - WRAP
      /\ Plus(r, k) \in 0..(WRAP - 1)
  BY <1>2, <1>4, OnIs, Zenon
<1>7. ASSUME NEW i, hit(i) PROVE \E j \in 0..(k - 1) : i = (r + j) % INPUT_BUF_SIZE
  <2>1. PICK j \in 0..(k - 1) : i = Slot(Plus(r, j))
    BY <1>7
  <2>2. j \in Nat /\ j < WRAP
    BY <1>3, <1>4
  <2>3. Plus(r, j) % INPUT_BUF_SIZE = (r + j) % INPUT_BUF_SIZE
    BY <1>2, <1>3, <2>2, PlaceOn, Zenon
  <2> QED BY <2>1, <2>3, Zenon DEF Slot
<1> HIDE DEF hit
<1>8. /\ cons' \in ConsType /\ cons'.r = Plus(r, k) /\ cons'.w = cons.w /\ cons'.e = cons.e
      /\ \A j \in 0..(INPUT_BUF_SIZE - 1) : ~hit(j) => cons'.buf[j] = cons.buf[j]
  BY <1>1, <1>2, <1>6, Zenon DEF ConsType
<1>9. Holds(cons'.buf, cons'.r, SubSeq(s, k + 1, Len(s)), INPUT_BUF_SIZE)
  <2> DEFINE c == cons'.buf
             b == cons.buf
             q == cons'.r
  <2>1. Cleared(c, b, r, k, INPUT_BUF_SIZE)
    BY <1>7, <1>8, Zenon DEF Cleared
  <2>2. q \in Nat /\ Moved(q, r, k) /\ k <= Len(s)
    BY <1>2, <1>3, <1>4, <1>6, <1>8 DEF Moved
  <2>3. Holds(b, r, s, INPUT_BUF_SIZE)
    BY <1>2, Zenon
  <2> HIDE DEF b, c, q
  <2>4. Holds(c, q, SubSeq(s, k + 1, Len(s)), INPUT_BUF_SIZE)
    BY <1>2, <1>3, <2>1, <2>2, <2>3, HoldsTake, Zenon
  <2> QED BY <2>4 DEF c, q
<1>10. ready' \in Seq(Keys) /\ Len(ready') = n - k /\ Len(ready') + Len(line') = L - k
  BY <1>1, <1>4, <1>5, Zenon
<1>11. Holds(cons'.buf, cons'.r, ready' \o line', INPUT_BUF_SIZE)
  BY <1>1, <1>5, <1>9, Zenon
<1>12. Plus(Plus(r, k), n - k) = Plus(r, k + (n - k))
  BY <1>2, <1>4, OnOn, Zenon
<1>13. Plus(Plus(r, k), L - k) = Plus(r, k + (L - k))
  BY <1>2, <1>4, OnOn, Zenon
<1>14. cons'.w = Plus(cons'.r, Len(ready')) /\ cons'.e = Plus(cons'.r, Len(ready') + Len(line'))
  BY <1>2, <1>4, <1>8, <1>10, <1>12, <1>13, Zenon
<1>15. L - k = INPUT_BUF_SIZE => line' = <<>>
  BY <1>2, <1>3
<1>16. InputText'
  BY <1>10, <1>11, <1>14, <1>15, Zenon DEF InputText, Plus
<1>17. k = Len(ready) => cons'.r = cons'.w
  BY <1>2, <1>8 DEF n
<1> QED BY <1>8, <1>10, <1>16, <1>17

LEMMA EmptyInput == ASSUME InputInv PROVE cons.r = cons.w <=> Len(ready) = 0
<1>1. /\ cons.r \in 0..(WRAP - 1) /\ Len(ready) \in Nat /\ Len(ready) < WRAP /\ WRAP \in Nat
      /\ cons.w = Plus(cons.r, Len(ready))
  BY InputFacts, ConsoleSizes DEF InputInv, InputText
<1>2. 0 \in Nat /\ 0 < WRAP /\ cons.r + 0 < WRAP /\ cons.r + 0 = cons.r
  BY <1>1
<1>3. Plus(cons.r, 0) = cons.r
  <2>1. Plus(cons.r, 0) = cons.r + 0
    BY <1>1, <1>2, OnIs, Zenon
  <2> QED BY <1>2, <2>1, Zenon
<1>4. cons.r = cons.w => Len(ready) = 0
  BY <1>1, <1>3, <1>2, OnInjective, Zenon
<1> QED BY <1>1, <1>3, <1>4, Zenon

(* A reader that has taken something goes on as v: only one that has taken *)
(* everything sleeps, and nobody slept before.                             *)
LEMMA ReadTook ==
  ASSUME InputInv, NEW p \in Readers, NEW k \in Nat, k <= Len(ready), Len(ready) # 0,
         Take(k), line' = line,
         NEW v \in Reading, v.at = "asleep" => k = Len(ready),
         reader' = [reader EXCEPT ![p] = v]
  PROVE  InputInv'
<1>1. /\ InputText' /\ cons' \in ConsType /\ ready' \in Seq(Keys)
      /\ k = Len(ready) => cons'.r = cons'.w
  BY TakeKeeps, Zenon
<1>2. \A q \in Readers : reader[q].at # "asleep"
  BY EmptyInput DEF InputInv
<1>3. reader \in [Readers -> Reading] /\ line \in Seq(Keys)
  BY DEF InputInv, InputTypes
<1>4. reader' \in [Readers -> Reading]
  BY <1>3, Zenon
<1>5. InputTypes'
  BY <1>1, <1>3, <1>4, Zenon DEF InputTypes, ConsType, Reading, Out
<1>6. ASSUME NEW q \in Readers, reader'[q].at = "asleep" PROVE cons'.r = cons'.w
  <2>1. q = p
    BY <1>2, <1>3, <1>6
  <2>2. reader'[q] = v
    BY <1>3, <2>1
  <2> QED BY <1>1, <1>6, <2>2
<1> QED BY <1>1, <1>5, <1>6 DEF InputInv

LEMMA ReadSomeKeeps == ASSUME InputInv, NEW p \in Readers, ReadSome(p) PROVE InputInv'
<1> DEFINE n == reader[p].n
           avail == Plus(cons.w, -cons.r)
           eof(i) == cons.buf[Slot(Plus(cons.r, i))] = "^D"
           v(i) == IF reader[p].at = "killed" THEN Out
                   ELSE [reader[p] EXCEPT !.at = "asleep", !.n = n - i]
<1>1. /\ reader[p].at \in {"run", "killed"} /\ avail > 0 /\ line' = line
      /\ \E i \in 0..avail :
            \/ i >= n /\ Take(n) /\ reader' = [reader EXCEPT ![p] = Out]
            \/ /\ i < n /\ i < avail
               /\ Take(IF eof(i) /\ n - i < reader[p].target THEN i ELSE i + 1)
               /\ reader' = [reader EXCEPT ![p] = Out]
            \/ i < n /\ i = avail /\ Take(avail) /\ reader' = [reader EXCEPT ![p] = v(i)]
            \/ \E bad \in 0..(i - 1) : Take(bad + 1) /\ reader' = [reader EXCEPT ![p] = Out]
  BY Zenon DEF ReadSome
<1> HIDE DEF eof, v
<1>2. PICK i \in 0..avail :
            \/ i >= n /\ Take(n) /\ reader' = [reader EXCEPT ![p] = Out]
            \/ /\ i < n /\ i < avail
               /\ Take(IF eof(i) /\ n - i < reader[p].target THEN i ELSE i + 1)
               /\ reader' = [reader EXCEPT ![p] = Out]
            \/ i < n /\ i = avail /\ Take(avail) /\ reader' = [reader EXCEPT ![p] = v(i)]
            \/ \E bad \in 0..(i - 1) : Take(bad + 1) /\ reader' = [reader EXCEPT ![p] = Out]
  BY <1>1, Zenon
<1>3. avail = Len(ready) /\ Len(ready) \in Nat /\ Len(ready) # 0
  BY <1>1, InputFacts
<1>4. /\ reader[p] \in [at : {"run", "asleep", "killed"}, n : Nat \ {0}, target : Nat \ {0}]
      /\ n \in Nat \ {0}
  <2>1. reader[p] \in Reading
    BY DEF InputInv, InputTypes
  <2> QED BY <1>1, <2>1 DEF Reading, Out
<1> HIDE DEF avail
<1>5. i \in Nat /\ i <= Len(ready)
  BY <1>3
<1>6. Out \in Reading /\ Out.at # "asleep"
  BY DEF Reading, Out
<1>7. ASSUME NEW k \in Nat, k <= Len(ready), Take(k), reader' = [reader EXCEPT ![p] = Out]
      PROVE  InputInv'
  <2> DEFINE u == Out
  <2>1. u \in Reading /\ (u.at = "asleep" => k = Len(ready))
    BY <1>6
  <2> HIDE DEF u
  <2>2. reader' = [reader EXCEPT ![p] = u]
    BY <1>7 DEF u
  <2> QED BY <1>1, <1>3, <1>7, <2>1, <2>2, ReadTook, Zenon
<1>8. CASE i >= n /\ Take(n) /\ reader' = [reader EXCEPT ![p] = Out]
  <2>1. n \in Nat /\ n <= Len(ready)
    BY <1>3, <1>4, <1>5, <1>8
  <2> QED BY <1>7, <1>8, <2>1, Zenon
<1>9. CASE /\ i < n /\ i < avail
           /\ Take(IF eof(i) /\ n - i < reader[p].target THEN i ELSE i + 1)
           /\ reader' = [reader EXCEPT ![p] = Out]
  <2> DEFINE k == IF eof(i) /\ n - i < reader[p].target THEN i ELSE i + 1
  <2>1. k \in Nat /\ k <= Len(ready)
    BY <1>3, <1>5, <1>9
  <2> QED BY <1>7, <1>9, <2>1, Zenon
<1>10. CASE i < n /\ i = avail /\ Take(avail) /\ reader' = [reader EXCEPT ![p] = v(i)]
  <2>1. v(i) \in Reading
    <3>1. n - i \in Nat \ {0}
      BY <1>4, <1>5, <1>10
    <3> HIDE DEF n
    <3> QED BY <1>4, <3>1, Zenon DEF Reading, v
  <2>2. Take(Len(ready)) /\ Len(ready) <= Len(ready)
    BY <1>3, <1>10
  <2>3. v(i).at = "asleep" => Len(ready) = Len(ready)
    OBVIOUS
  <2> QED BY <1>1, <1>3, <1>10, <2>1, <2>2, <2>3, ReadTook, Zenon
<1>11. CASE \E bad \in 0..(i - 1) : Take(bad + 1) /\ reader' = [reader EXCEPT ![p] = Out]
  <2>1. PICK bad \in 0..(i - 1) : Take(bad + 1) /\ reader' = [reader EXCEPT ![p] = Out]
    BY <1>11
  <2>2. bad + 1 \in Nat /\ bad + 1 <= Len(ready)
    BY <1>5
  <2> QED BY <1>7, <2>1, <2>2, Zenon
<1> QED BY <1>2, <1>8, <1>9, <1>10, <1>11, Zenon

(* A step that changes only what reader p is doing.                        *)
LEMMA ReaderMoves ==
  ASSUME InputInv, NEW p \in Readers, NEW v \in Reading, v.at = "asleep" => cons.r = cons.w,
         reader' = [reader EXCEPT ![p] = v], UNCHANGED <<cons, ready, line>>
  PROVE  InputInv'
<1>1. reader \in [Readers -> Reading]
  BY DEF InputInv, InputTypes
<1>2. reader' \in [Readers -> Reading]
  BY <1>1, Zenon
<1>3. InputTypes' /\ InputText'
  BY <1>2, Zenon DEF InputInv, InputTypes, InputText, Reading, Out
<1>4. \A q \in Readers : reader'[q].at = "asleep" => cons'.r = cons'.w
  BY <1>1 DEF InputInv
<1> QED BY <1>3, <1>4, Zenon DEF InputInv

LEMMA ReaderStep ==
  ASSUME InputInv, NEW p \in Readers,
         kill(p) \/ Read(p) \/ \E n \in Sizes : consoleread(p, n)
  PROVE  InputInv'
<1>1. reader[p] \in Reading
  BY DEF InputInv, InputTypes
<1>2. CASE kill(p)
  <2> DEFINE v == [reader[p] EXCEPT !.at = "killed"]
  <2>1. v \in Reading /\ v.at # "asleep"
    BY <1>1, <1>2 DEF kill, Reading, Out
  <2>2. reader' = [reader EXCEPT ![p] = v] /\ UNCHANGED <<cons, ready, line>>
    BY <1>2 DEF kill
  <2> HIDE DEF v
  <2> QED BY <2>1, <2>2, ReaderMoves, Zenon
<1>3. CASE ReadSome(p)
  BY <1>3, ReadSomeKeeps
<1>4. CASE ReadSleeps(p)
  <2> DEFINE v == IF reader[p].at = "killed" THEN Out ELSE [reader[p] EXCEPT !.at = "asleep"]
  <2>1. v \in Reading
    BY <1>1, <1>4 DEF ReadSleeps, Reading, Out
  <2>2. reader' = [reader EXCEPT ![p] = v] /\ UNCHANGED <<cons, ready, line>> /\ cons.r = cons.w
    BY <1>4 DEF ReadSleeps
  <2> HIDE DEF v
  <2> QED BY <2>1, <2>2, ReaderMoves, Zenon
<1>5. CASE \E n \in Sizes : consoleread(p, n)
  <2>1. PICK n \in Sizes : consoleread(p, n)
    BY <1>5
  <2> DEFINE v == [at |-> "run", n |-> n, target |-> n]
  <2>2. n \in Nat \ {0}
    BY ConsoleSizes, Zenon
  <2>3. v \in Reading /\ v.at # "asleep"
    BY <2>2, Zenon DEF Reading
  <2>4. reader' = [reader EXCEPT ![p] = v] /\ UNCHANGED <<cons, ready, line>>
    BY <2>1, Zenon DEF consoleread
  <2> HIDE DEF v
  <2> QED BY <2>3, <2>4, ReaderMoves, Zenon
<1> QED BY <1>2, <1>3, <1>4, <1>5, Zenon DEF Read

LEMMA TypedStep == ASSUME InputInv, NEW c \in Keys, consoleintr(c) PROVE InputInv'
<1>1. CASE c = "^U"
  <2>1. KillLine
    BY <1>1, Zenon DEF consoleintr
  <2> QED BY <2>1, KillLineKeeps
<1>2. CASE c = "^H" /\ cons.e # cons.w
  <2>1. Backspace
    BY <1>2 DEF consoleintr
  <2> QED BY <1>2, <2>1, BackspaceKeeps
<1>3. CASE c \notin {"^U", "^H"} /\ Plus(cons.e, -cons.r) < INPUT_BUF_SIZE
  <2>1. Insert(c)
    BY <1>3 DEF consoleintr
  <2> QED BY <1>3, <2>1, InsertKeeps
<1>4. CASE /\ c # "^U" /\ ~(c = "^H" /\ cons.e # cons.w)
           /\ ~(c \notin {"^U", "^H"} /\ Plus(cons.e, -cons.r) < INPUT_BUF_SIZE)
  <2>1. UNCHANGED input
    BY <1>4 DEF consoleintr
  <2> QED BY <2>1, InputKept
<1> QED BY <1>1, <1>2, <1>3, <1>4, Zenon

(* The transmit ring t holds the output s.                                 *)
TxType == [buf : [0..(UART_TX_BUF_SIZE - 1) -> Writers \cup {NONE}], r : 0..(WRAP - 1), w : 0..(WRAP - 1)]

Carries(t, s) ==
    /\ t \in TxType /\ s \in Seq(Writers)
    /\ t.w = Plus(t.r, Len(s)) /\ Holds(t.buf, t.r, s, UART_TX_BUF_SIZE)

LEMMA CarriesFacts ==
  ASSUME NEW t, NEW s, Carries(t, s)
  PROVE  /\ t.r \in 0..(WRAP - 1) /\ t.w \in 0..(WRAP - 1)
         /\ t.buf \in [0..(UART_TX_BUF_SIZE - 1) -> Writers \cup {NONE}]
         /\ Len(s) \in Nat /\ Len(s) <= UART_TX_BUF_SIZE /\ Len(s) < WRAP
         /\ t.w = t.r <=> Len(s) = 0
         /\ t.w = Plus(t.r, UART_TX_BUF_SIZE) <=> Len(s) = UART_TX_BUF_SIZE
<1> DEFINE r == t.r
<1>1. /\ r \in 0..(WRAP - 1) /\ t.w \in 0..(WRAP - 1)
      /\ t.buf \in [0..(UART_TX_BUF_SIZE - 1) -> Writers \cup {NONE}]
      /\ t.w = Plus(r, Len(s)) /\ s \in Seq(Writers) /\ Len(s) <= UART_TX_BUF_SIZE
  BY Zenon DEF Carries, TxType, Holds
<1>2. Len(s) \in Nat
  BY <1>1, LenIs
<1>3. UART_TX_BUF_SIZE \in Nat /\ WRAP \in Nat /\ UART_TX_BUF_SIZE < WRAP
  BY ConsoleSizes
<1>4. Len(s) < WRAP /\ 0 \in Nat /\ 0 < WRAP /\ r + 0 < WRAP /\ r + 0 = r
  BY <1>1, <1>2, <1>3
<1> HIDE DEF r
<1>5. Plus(r, 0) = r
  <2>1. Plus(r, 0) = r + 0
    BY <1>1, <1>4, OnIs, Zenon
  <2> QED BY <1>4, <2>1, Zenon
<1>6. t.w = r => Len(s) = 0
  BY <1>1, <1>2, <1>4, <1>5, OnInjective, Zenon
<1>7. t.w = Plus(r, UART_TX_BUF_SIZE) => Len(s) = UART_TX_BUF_SIZE
  BY <1>1, <1>2, <1>3, <1>4, OnInjective, Zenon
<1> QED BY <1>1, <1>2, <1>4, <1>5, <1>6, <1>7, Zenon DEF r

(* uartputc() puts its character behind the others.                        *)
LEMMA PutCarries ==
  ASSUME NEW t, NEW s, Carries(t, s), NEW p \in Writers, Len(s) < UART_TX_BUF_SIZE,
         NEW u, u = [t EXCEPT !.buf[TxSlot(t.w)] = p, !.w = Plus(t.w, 1)]
  PROVE  Carries(u, Append(s, p))
<1> DEFINE r == t.r
           b == t.buf
           a == TxSlot(t.w)
           w1 == Plus(t.w, 1)
           T == Writers \cup {NONE}
           c == u.buf
<1>1. /\ r \in 0..(WRAP - 1) /\ b \in [0..(UART_TX_BUF_SIZE - 1) -> T]
      /\ Len(s) \in Nat /\ Len(s) < WRAP /\ t.w = Plus(r, Len(s)) /\ s \in Seq(Writers)
      /\ Holds(b, r, s, UART_TX_BUF_SIZE) /\ t \in TxType
  BY CarriesFacts DEF Carries
<1>2. /\ UART_TX_BUF_SIZE \in Nat \ {0} /\ WRAP % UART_TX_BUF_SIZE = 0 /\ WRAP \in Nat
      /\ UART_TX_BUF_SIZE < WRAP
  BY ConsoleSizes
<1>3. r \in Nat /\ Len(s) + 1 < WRAP /\ 1 \in Nat /\ Len(s) + 1 \in Nat
  BY <1>1, <1>2
<1> HIDE DEF r, b, T
<1>4. a = (r + Len(s)) % UART_TX_BUF_SIZE
  <2>1. Plus(r, Len(s)) % UART_TX_BUF_SIZE = (r + Len(s)) % UART_TX_BUF_SIZE
    BY <1>1, <1>2, PlaceOn, Zenon
  <2> QED BY <1>1, <2>1, Zenon DEF TxSlot
<1>5. w1 = Plus(r, Len(s) + 1)
  <2>1. Plus(Plus(r, Len(s)), 1) = Plus(r, Len(s) + 1)
    BY <1>1, <1>3, OnOn, Zenon
  <2> QED BY <1>1, <2>1, Zenon
<1>6. w1 \in 0..(WRAP - 1)
  BY <1>1, <1>3, <1>5, OnIs, Zenon
<1> HIDE DEF a, w1
<1>7. u \in TxType /\ u.r = r /\ u.w = w1 /\ c = [b EXCEPT ![a] = p]
  BY <1>1, <1>6, Zenon DEF TxType, r, b, a, w1
<1> HIDE DEF c
<1>8. Holds(c, r, Append(s, p), UART_TX_BUF_SIZE)
  <2>1. /\ UART_TX_BUF_SIZE \in Nat \ {0} /\ b \in [0..(UART_TX_BUF_SIZE - 1) -> T] /\ r \in Nat
        /\ s \in Seq(Writers) /\ Holds(b, r, s, UART_TX_BUF_SIZE) /\ c = [b EXCEPT ![a] = p]
    BY <1>1, <1>2, <1>3, <1>7
  <2> QED BY <1>4, <2>1, HoldsPush, Zenon
<1>9. Append(s, p) \in Seq(Writers) /\ Len(Append(s, p)) = Len(s) + 1
  BY <1>1, AppendIs
<1> QED BY <1>5, <1>7, <1>8, <1>9 DEF Carries, c

(* uartstart() sends the first character.                                  *)
LEMMA SendCarries ==
  ASSUME NEW t, NEW s, Carries(t, s), Len(s) # 0,
         NEW u, u = [t EXCEPT !.r = Plus(t.r, 1), !.buf[TxSlot(t.r)] = NONE]
  PROVE  Carries(u, Tail(s))
<1> DEFINE r == t.r
           b == t.buf
           a == TxSlot(t.r)
           q == Plus(r, 1)
           c == u.buf
           n == Len(s) - 1
<1>1. /\ r \in 0..(WRAP - 1) /\ Len(s) \in Nat /\ Len(s) < WRAP /\ t.w = Plus(r, Len(s))
      /\ s \in Seq(Writers) /\ Holds(b, r, s, UART_TX_BUF_SIZE) /\ t \in TxType
  BY CarriesFacts DEF Carries
<1>2. UART_TX_BUF_SIZE \in Nat \ {0} /\ WRAP % UART_TX_BUF_SIZE = 0 /\ WRAP \in Nat
  BY ConsoleSizes
<1>3. /\ r \in Nat /\ 1 \in Nat /\ 1 < WRAP /\ 1 <= Len(s) /\ n \in Nat /\ 1 + n = Len(s)
      /\ 1 + n < WRAP
  BY <1>1, <1>2
<1>4. s # <<>>
  BY <1>1
<1>5. Tail(s) = SubSeq(s, 1 + 1, Len(s)) /\ Tail(s) \in Seq(Writers) /\ Len(Tail(s)) = n
  <2>1. Tail(s) = SubSeq(s, 2, Len(s)) /\ 2 = 1 + 1
    BY <1>1, <1>4, TailPart
  <2>2. Tail(s) \in Seq(Writers) /\ Len(Tail(s)) = n
    BY <1>1, <1>4, TailIs
  <2> QED BY <2>1, <2>2
<1>6. a = (r + 0) % UART_TX_BUF_SIZE
  <2>1. r + 0 = r
    BY <1>1
  <2> QED BY <2>1 DEF TxSlot
<1> HIDE DEF r, n
<1>7. q \in 0..(WRAP - 1) /\ q \in Nat /\ Moved(q, r, 1)
  <2>1. /\ r + 1 < WRAP => q = r + 1
        /\ r + 1 >= WRAP => q = r + 1 - WRAP
        /\ q \in 0..(WRAP - 1)
    BY <1>1, <1>3, OnIs, Zenon
  <2> HIDE DEF q
  <2> QED BY <1>2, <1>3, <2>1 DEF Moved
<1>8. Plus(q, n) = Plus(r, 1 + n)
  BY <1>1, <1>3, OnOn, Zenon
<1> HIDE DEF a, q
<1>9. /\ u \in TxType /\ u.r = q /\ u.w = t.w
      /\ \A j \in 0..(UART_TX_BUF_SIZE - 1) : j # a => c[j] = b[j]
  BY <1>1, <1>7, Zenon DEF TxType, q, r, a
<1>10. Cleared(c, b, r, 1, UART_TX_BUF_SIZE)
  <2>1. 0 \in 0..(1 - 1)
    OBVIOUS
  <2> QED BY <1>6, <1>9, <2>1, Zenon DEF Cleared
<1> HIDE DEF b, c
<1>11. Holds(c, q, SubSeq(s, 1 + 1, Len(s)), UART_TX_BUF_SIZE)
  BY <1>1, <1>2, <1>3, <1>7, <1>10, HoldsTake, Zenon
<1>12. u.w = Plus(u.r, Len(Tail(s)))
  BY <1>1, <1>3, <1>5, <1>8, <1>9, Zenon
<1> QED BY <1>5, <1>9, <1>11, <1>12, Zenon DEF Carries, c

Waits(ws, t) == \A p \in Writers : ws[p].at = "asleep" => t.w = Plus(t.r, UART_TX_BUF_SIZE)

LEMMA OutputIs ==
  OutputInv <=> Carries(tx, sent) /\ writer \in [Writers -> Writing] /\ Waits(writer, tx)
  BY Zenon DEF OutputInv, OutputTypes, OutputText, Carries, TxType, Waits, Full

LEMMA OutputIsNext ==
  ASSUME Carries(tx', sent'), writer' \in [Writers -> Writing], Waits(writer', tx')
  PROVE  OutputInv'
  BY Zenon DEF OutputInv, OutputTypes, OutputText, Carries, TxType, Waits, Full, Plus, Holds,
         Writing, Out

(* uartstart(): either nothing moves, or room is made and all are woken.   *)
LEMMA StartKeeps ==
  ASSUME NEW t, NEW s, NEW ws, Carries(t, s), ws \in [Writers -> Writing], Waits(ws, t),
         uartstart(t, s, ws)
  PROVE  OutputInv'
<1>1. CASE t.w = t.r \/ thr
  <2>1. tx' = t /\ sent' = s /\ writer' = ws
    BY <1>1 DEF uartstart
  <2> QED BY <2>1, OutputIsNext
<1>2. CASE ~(t.w = t.r \/ thr)
  <2> DEFINE u == [t EXCEPT !.r = Plus(t.r, 1), !.buf[TxSlot(t.r)] = NONE]
  <2>1. /\ tx' = u /\ sent' = Tail(s)
        /\ writer' = [p \in Writers |-> IF ws[p].at = "asleep" THEN [ws[p] EXCEPT !.at = "run"] ELSE ws[p]]
    BY <1>2, Zenon DEF uartstart
  <2>2. Len(s) # 0
    BY <1>2, CarriesFacts
  <2>3. Carries(u, Tail(s))
    BY <2>2, SendCarries, Zenon
  <2>4. writer' \in [Writers -> Writing] /\ \A p \in Writers : writer'[p].at # "asleep"
    BY <2>1 DEF Writing, Out
  <2>5. Waits(writer', tx')
    BY <2>4 DEF Waits
  <2>6. Carries(tx', sent')
    BY <2>1, <2>3
  <2> QED BY <2>4, <2>5, <2>6, OutputIsNext
<1> QED BY <1>1, <1>2

LEMMA WriterMoves ==
  ASSUME OutputInv, NEW p \in Writers, NEW v \in Writing, v.at = "asleep" => Full,
         writer' = [writer EXCEPT ![p] = v], tx' = tx, sent' = sent
  PROVE  OutputInv'
<1>1. Carries(tx, sent) /\ writer \in [Writers -> Writing] /\ Waits(writer, tx)
  BY OutputIs
<1>2. writer' \in [Writers -> Writing]
  BY <1>1, Zenon
<1>3. Waits(writer', tx')
  BY <1>1 DEF Waits, Full
<1>4. Carries(tx', sent')
  BY <1>1
<1> QED BY <1>2, <1>3, <1>4, OutputIsNext, Zenon

LEMMA PutStepKeeps == ASSUME OutputInv, NEW p \in Writers, uartputc(p) PROVE OutputInv'
<1> DEFINE t == [tx EXCEPT !.buf[TxSlot(tx.w)] = p, !.w = Plus(tx.w, 1)]
           s == Append(sent, p)
           v == IF writer[p].n = 1 THEN Out ELSE [writer[p] EXCEPT !.n = writer[p].n - 1]
           ws == [writer EXCEPT ![p] = v]
<1>1. writer[p].at = "run" /\ ~Full /\ uartstart(t, s, ws)
  BY DEF uartputc
<1>2. Carries(tx, sent) /\ writer \in [Writers -> Writing] /\ Waits(writer, tx)
  BY OutputIs
<1>3. Len(sent) \in Nat /\ Len(sent) < UART_TX_BUF_SIZE
  <2>1. /\ Len(sent) \in Nat /\ Len(sent) <= UART_TX_BUF_SIZE /\ Len(sent) # UART_TX_BUF_SIZE
    BY <1>1, <1>2, CarriesFacts DEF Full
  <2>2. UART_TX_BUF_SIZE \in Nat
    BY ConsoleSizes
  <2> QED BY <2>1, <2>2
<1>4. Carries(t, s)
  BY <1>2, <1>3, PutCarries, Zenon
<1>5. v \in Writing /\ v.at # "asleep"
  <2>1. writer[p] \in [at : {"run", "asleep"}, n : Nat \ {0}]
    BY <1>1, <1>2 DEF Writing, Out
  <2> QED BY <1>1, <2>1 DEF Writing, Out
<1>6. \A q \in Writers : writer[q].at # "asleep"
  BY <1>1, <1>2 DEF Waits, Full
<1> HIDE DEF v
<1>7. ws \in [Writers -> Writing]
  BY <1>2, <1>5, Zenon
<1>8. \A q \in Writers : ws[q].at # "asleep"
  BY <1>2, <1>5, <1>6, Zenon
<1> HIDE DEF t, s, ws
<1>9. Waits(ws, t)
  BY <1>8, Zenon DEF Waits
<1> QED BY <1>1, <1>4, <1>7, <1>9, StartKeeps, Zenon

LEMMA WriterStep ==
  ASSUME OutputInv, NEW p \in Writers,
         WriteBad(p) \/ Write(p) \/ \E n \in Sizes : consolewrite(p, n)
  PROVE  OutputInv'
<1>1. writer[p] \in Writing
  BY DEF OutputInv, OutputTypes
<1>2. CASE WriteBad(p)
  <2> DEFINE v == Out
  <2>1. v \in Writing /\ v.at # "asleep"
    BY Zenon DEF Writing, Out
  <2>2. writer' = [writer EXCEPT ![p] = v] /\ tx' = tx /\ sent' = sent
    BY <1>2 DEF WriteBad
  <2> HIDE DEF v
  <2> QED BY <2>1, <2>2, WriterMoves, Zenon
<1>3. CASE uartputc(p)
  BY <1>3, PutStepKeeps
<1>4. CASE PutcSleeps(p)
  <2> DEFINE v == [writer[p] EXCEPT !.at = "asleep"]
  <2>1. v \in Writing
    BY <1>1, <1>4 DEF PutcSleeps, Writing, Out
  <2>2. writer' = [writer EXCEPT ![p] = v] /\ tx' = tx /\ sent' = sent /\ Full
    BY <1>4 DEF PutcSleeps
  <2> HIDE DEF v
  <2> QED BY <2>1, <2>2, WriterMoves, Zenon
<1>5. CASE \E n \in Sizes : consolewrite(p, n)
  <2>1. PICK n \in Sizes : consolewrite(p, n)
    BY <1>5
  <2> DEFINE v == [at |-> "run", n |-> n]
  <2>2. n \in Nat \ {0}
    BY ConsoleSizes
  <2>3. v \in Writing /\ v.at # "asleep"
    BY <2>2, Zenon DEF Writing
  <2>4. writer' = [writer EXCEPT ![p] = v] /\ tx' = tx /\ sent' = sent
    BY <2>1 DEF consolewrite
  <2> HIDE DEF v
  <2> QED BY <2>3, <2>4, WriterMoves, Zenon
<1> QED BY <1>2, <1>3, <1>4, <1>5 DEF Write

-----------------------------------------------------------------------------
LEMMA ConsoleInit == Init => ConsoleInv
<1> SUFFICES ASSUME Init PROVE ConsoleInv
  OBVIOUS
<1>1. /\ INPUT_BUF_SIZE \in Nat \ {0} /\ UART_TX_BUF_SIZE \in Nat \ {0}
      /\ WRAP \in Nat /\ 0 < WRAP /\ 0 \in 0..(WRAP - 1)
  BY ConsoleSizes
<1>2. /\ cons.r = 0 /\ cons.w = 0 /\ cons.e = 0 /\ cons \in ConsType
      /\ tx.r = 0 /\ tx.w = 0 /\ tx \in TxType
      /\ ready = <<>> /\ line = <<>> /\ sent = <<>>
  BY <1>1, Zenon DEF Init, ConsType, TxType
<1>3. /\ reader \in [Readers -> Reading] /\ \A p \in Readers : reader[p].at # "asleep"
      /\ writer \in [Writers -> Writing] /\ \A p \in Writers : writer[p].at # "asleep"
  BY DEF Init, Reading, Writing, Out
<1>4. Plus(0, 0) = 0
  BY <1>1 DEF Plus
<1>5. ready \o line = <<>> /\ Len(<<>>) = 0 /\ 0 + 0 = 0
  BY <1>2
<1>6. Holds(cons.buf, cons.r, ready \o line, INPUT_BUF_SIZE) /\ Holds(tx.buf, tx.r, sent, UART_TX_BUF_SIZE)
  BY <1>1, <1>2, <1>5 DEF Holds
<1>7. InputInv
  BY <1>2, <1>3, <1>4, <1>5, <1>6 DEF InputInv, InputTypes, InputText, ConsType
<1>8. OutputInv
  BY <1>2, <1>3, <1>4, <1>5, <1>6 DEF OutputInv, OutputTypes, OutputText, TxType
<1> QED BY <1>7, <1>8 DEF ConsoleInv

LEMMA ConsoleNext == ConsoleInv /\ [Next]_vars => ConsoleInv'
<1> SUFFICES ASSUME InputInv, OutputInv, [Next]_vars PROVE InputInv' /\ OutputInv'
  BY DEF ConsoleInv
<1>1. ASSUME NEW c \in Keys, consoleintr(c) PROVE InputInv' /\ OutputInv'
  <2>1. UNCHANGED output
    BY <1>1 DEF consoleintr
  <2> QED BY <1>1, <2>1, TypedStep, OutputKept
<1>2. ASSUME NEW p \in Readers, kill(p) \/ Read(p) \/ \E n \in Sizes : consoleread(p, n)
      PROVE  InputInv' /\ OutputInv'
  <2>1. UNCHANGED output
    BY <1>2, Zenon DEF kill, Read, ReadSome, ReadSleeps, consoleread
  <2> QED BY <1>2, <2>1, ReaderStep, OutputKept
<1>3. ASSUME NEW p \in Writers, WriteBad(p) \/ Write(p) \/ \E n \in Sizes : consolewrite(p, n)
      PROVE  InputInv' /\ OutputInv'
  <2>1. UNCHANGED input
    BY <1>3 DEF WriteBad, Write, uartputc, PutcSleeps, consolewrite
  <2> QED BY <1>3, <2>1, WriterStep, InputKept
<1>4. CASE uartintr \/ Sent
  <2>1. UNCHANGED input /\ UNCHANGED output
    BY <1>4 DEF uartintr, Sent
  <2> QED BY <2>1, InputKept, OutputKept
<1>5. CASE uartintr_Ends
  <2>1. UNCHANGED input /\ uartstart(tx, sent, writer)
    BY <1>5 DEF uartintr_Ends
  <2>2. Carries(tx, sent) /\ writer \in [Writers -> Writing] /\ Waits(writer, tx)
    BY OutputIs
  <2>3. OutputInv'
    BY <2>1, <2>2, StartKeeps, Zenon
  <2> QED BY <2>1, <2>3, InputKept
<1>6. CASE UNCHANGED vars
  <2>1. UNCHANGED input /\ UNCHANGED output
    BY <1>6 DEF vars
  <2> QED BY <2>1, InputKept, OutputKept
<1> QED BY <1>1, <1>2, <1>3, <1>4, <1>5, <1>6, Zenon DEF Next, Driver

(* consoleintr(), consoleread() and uartputc(), uartstart() keep the       *)
(* buffers and the sleepers as ConsoleInv says.                            *)
THEOREM ConsoleInvariance == Spec => []ConsoleInv
  BY ConsoleInit, ConsoleNext, PTL DEF Spec

LEMMA FilledIs ==
  ASSUME NEW S, NEW b, NEW r \in 0..(WRAP - 1), NEW s \in Seq(S), NEW z \in Nat \ {0}, z < WRAP,
         WRAP % z = 0, Holds(b, r, s, z)
  PROVE  Filled(b, r, Len(s), z) = s
<1>1. Len(s) \in Nat /\ WRAP \in Nat /\ Len(s) <= z
  BY LenIs, ConsoleSizes DEF Holds
<1>2. ASSUME NEW i \in 1..Len(s) PROVE b[Plus(r, i - 1) % z] = s[i]
  <2>1. i - 1 \in Nat /\ i - 1 < WRAP /\ i - 1 < Len(s) /\ (i - 1) + 1 = i
    BY <1>1
  <2>2. Plus(r, i - 1) % z = (r + (i - 1)) % z
    BY <2>1, PlaceOn, Zenon
  <2>3. b[(r + (i - 1)) % z] = s[(i - 1) + 1]
    BY <2>1, Zenon DEF Holds
  <2> QED BY <2>1, <2>2, <2>3, Zenon
<1>3. Filled(b, r, Len(s), z) = [i \in 1..Len(s) |-> s[i]]
  BY <1>2, Zenon DEF Filled
<1>4. s = [i \in 1..Len(s) |-> s[i]]
  BY LenIs
<1> QED BY <1>3, <1>4, Zenon

LEMMA ConsoleInvImplies == ConsoleInv => TextInOrder /\ SleepersHaveReason
<1> SUFFICES ASSUME InputInv, OutputInv PROVE TextInOrder /\ SleepersHaveReason
  BY DEF ConsoleInv
<1>1. /\ INPUT_BUF_SIZE \in Nat \ {0} /\ INPUT_BUF_SIZE < WRAP /\ WRAP % INPUT_BUF_SIZE = 0
      /\ UART_TX_BUF_SIZE \in Nat \ {0} /\ UART_TX_BUF_SIZE < WRAP /\ WRAP % UART_TX_BUF_SIZE = 0
  BY ConsoleSizes, Zenon
<1>2. /\ Plus(cons.w, -cons.r) = Len(ready) /\ Plus(cons.e, -cons.w) = Len(line)
      /\ Len(ready) + Len(line) <= INPUT_BUF_SIZE
      /\ Len(ready) + Len(line) = INPUT_BUF_SIZE => line = <<>>
  BY InputFacts DEF InputInv, InputText
<1>3. Filled(cons.buf, cons.r, Len(ready) + Len(line), INPUT_BUF_SIZE) = ready \o line
  <2> DEFINE s == ready \o line
  <2>1. /\ s \in Seq(Keys) /\ Len(s) = Len(ready) + Len(line) /\ cons.r \in 0..(WRAP - 1)
        /\ Holds(cons.buf, cons.r, s, INPUT_BUF_SIZE)
    BY InputFacts DEF InputInv, InputText
  <2> HIDE DEF s
  <2>2. Filled(cons.buf, cons.r, Len(s), INPUT_BUF_SIZE) = s
    BY <1>1, <2>1, FilledIs, Zenon
  <2> QED BY <2>1, <2>2, Zenon DEF s
<1>4. Carries(tx, sent) /\ Waits(writer, tx)
  BY OutputIs, Zenon
<1>5. /\ tx.r \in 0..(WRAP - 1) /\ Len(sent) \in Nat /\ Len(sent) < WRAP
      /\ Len(sent) <= UART_TX_BUF_SIZE /\ tx.w = Plus(tx.r, Len(sent)) /\ sent \in Seq(Writers)
      /\ Holds(tx.buf, tx.r, sent, UART_TX_BUF_SIZE)
  BY <1>4, CarriesFacts DEF Carries
<1>6. Plus(tx.w, -tx.r) = Len(sent)
  BY <1>5, Behind, Zenon
<1>7. Filled(tx.buf, tx.r, Len(sent), UART_TX_BUF_SIZE) = sent
  BY <1>1, <1>5, FilledIs, Zenon
<1>8. TextInOrder
  BY <1>2, <1>3, <1>5, <1>6, <1>7, Zenon DEF TextInOrder
<1>9. SleepersHaveReason
  BY <1>4 DEF SleepersHaveReason, InputInv, Waits, Full
<1> QED BY <1>8, <1>9

(* consoleintr() never erases what readers may have, readers take what was *)
(* typed in order, and uartputc() never overtakes uartstart(), for any     *)
(* buffers whose sizes divide the range of the indices.                    *)
THEOREM TextInOrderHolds == Spec => []TextInOrder
  BY ConsoleInvariance, ConsoleInvImplies, PTL

(* consoleread() sleeps only while there is nothing to read and uartputc() *)
(* only while the ring is full: no wakeup is lost.                         *)
THEOREM SleepersHaveReasonHolds == Spec => []SleepersHaveReason
  BY ConsoleInvariance, ConsoleInvImplies, PTL

-----------------------------------------------------------------------------
(* Regular files.  The three invariants are inductive together: a turn of  *)
(* filewrite() needs that the offset is in the file (else writei()         *)
(* refuses) and that nobody else has touched the file since the lock was   *)
(* taken.                                                                  *)
FileInv == F!TypeOK /\ F!BlocksAccounted /\ F!WriteInOnePiece

Files == [open : BOOLEAN, off : 0..MAXFILE, writable : F!Modes,
          readable : BOOLEAN, append : BOOLEAN]

LEMMA FileConstants ==
  /\ NONE \notin Procs
  /\ Blocks \subseteq Nat /\ MAXFILE \in Nat /\ DiskBlocks \in Nat
  /\ MAXOPBLOCKS \in Nat /\ MAXOPBLOCKS >= 6
  BY FileWriteAssumption DEF F!FileWriteAssumption

LEMMA MaxPositive == F!max \in Nat /\ F!max > 0
  BY FileConstants DEF F!max

(* A function on 1..m is a sequence of length m.                           *)
LEMMA SeqOfFunction ==
  ASSUME NEW S, NEW m \in Nat, NEW f \in [1..m -> S]
  PROVE  f \in Seq(S) /\ Len(f) = m
  OBVIOUS

(* What one writei() that is not refused does to the numbers.              *)
LEMMA TurnNumbers ==
  ASSUME FileInv, NEW p \in Procs, pc[p] = "write", done[p] < asked[p], ~F!Refused(p)
  PROVE  /\ F!Written(p) \in Nat
         /\ F!Written(p) <= asked[p] - done[p] /\ F!Written(p) <= good[p] - done[p]
         /\ fd[p].off \in Nat /\ fd[p].off <= F!size
         /\ fd[p].off + F!Written(p) <= MAXFILE
         /\ F!Owned(p) \in Nat
         /\ F!Owned(p) >= F!size + spare /\ F!Owned(p) <= F!size + spare + free
         /\ F!Owned(p) >= fd[p].off + F!Written(p)
         /\ F!Owned(p) <= F!size + spare \/ F!Owned(p) <= fd[p].off + F!Written(p) + 1
<1>1. /\ F!size \in Nat /\ spare \in Nat /\ free \in Nat /\ MAXFILE \in Nat
      /\ asked[p] \in Nat /\ done[p] \in Nat /\ good[p] \in Nat
      /\ done[p] <= good[p] /\ good[p] <= asked[p]
  BY FileConstants DEF FileInv, F!TypeOK, F!size
<1>2. fd[p].off \in 0..MAXFILE
  BY Zenon DEF FileInv, F!TypeOK
<1>3. fd[p].off <= F!size /\ fd[p].off + F!n1(p) <= MAXFILE
  BY <1>1, <1>2, MaxPositive DEF F!Refused, F!n1, F!Least
<1>4. F!n1(p) \in Nat /\ F!n1(p) <= asked[p] - done[p]
  BY <1>1, MaxPositive DEF F!n1, F!Least
<1>5. F!Space(p) \in Nat /\ fd[p].off + F!Space(p) = F!size + spare + free
  BY <1>1, <1>2, <1>3 DEF F!Space
<1>6. /\ F!Written(p) \in Nat /\ F!Written(p) <= F!n1(p)
      /\ F!Written(p) <= good[p] - done[p] /\ F!Written(p) <= F!Space(p)
  BY <1>1, <1>4, <1>5 DEF F!Written, F!Least
<1> DEFINE touched == fd[p].off + F!Written(p)
                        + (IF F!Written(p) < F!Least(F!n1(p), F!Space(p)) THEN 1 ELSE 0)
<1>7. /\ touched \in Nat /\ touched <= F!size + spare + free
      /\ touched >= fd[p].off + F!Written(p) /\ touched <= fd[p].off + F!Written(p) + 1
  BY <1>1, <1>2, <1>4, <1>5, <1>6 DEF F!Least
<1>8. F!Owned(p) = IF touched > F!size + spare THEN touched ELSE F!size + spare
  BY DEF F!Owned
<1> HIDE DEF touched
<1> QED BY <1>1, <1>2, <1>3, <1>4, <1>6, <1>7, <1>8

LEMMA FileInit == F!Init => FileInv
<1> SUFFICES ASSUME F!Init PROVE FileInv
  OBVIOUS
<1>1. F!Closed \in Files
  BY FileConstants DEF F!Closed, Files, F!Modes, F!O_RDONLY
<1>2. file \in Seq(Procs) /\ F!size = 0
  BY DEF F!Init, F!size
<1>3. F!TypeOK
  BY <1>1, <1>2, FileConstants DEF F!Init, F!TypeOK, Files
<1>4. F!BlocksAccounted /\ F!WriteInOnePiece
  BY <1>2, FileConstants DEF F!Init, F!BlocksAccounted, F!WriteInOnePiece
<1> QED BY <1>3, <1>4, Zenon DEF FileInv

(* One turn of the loop of filewrite().                                    *)
LEMMA TurnStep ==
  ASSUME FileInv, NEW p \in Procs, F!WriteTurn(p)
  PROVE  FileInv'
<1> DEFINE end == fd[p].off + F!Written(p)
           newsize == IF end > F!size THEN end ELSE F!size
<1>1. pc[p] = "write" /\ done[p] < asked[p] /\ ~F!Refused(p)
  BY DEF F!WriteTurn
<1>2. /\ F!Written(p) \in Nat
      /\ F!Written(p) <= asked[p] - done[p] /\ F!Written(p) <= good[p] - done[p]
      /\ fd[p].off \in Nat /\ fd[p].off <= F!size
      /\ end <= MAXFILE
      /\ F!Owned(p) \in Nat
      /\ F!Owned(p) >= F!size + spare /\ F!Owned(p) <= F!size + spare + free
      /\ F!Owned(p) >= end
      /\ F!Owned(p) <= F!size + spare \/ F!Owned(p) <= end + 1
  BY <1>1, TurnNumbers, Zenon
<1>3. /\ F!size \in Nat /\ F!size <= MAXFILE /\ spare \in Nat /\ spare <= 1 /\ free \in Nat
      /\ MAXFILE \in Nat /\ F!size + spare + free = DiskBlocks
  BY FileConstants DEF FileInv, F!TypeOK, F!BlocksAccounted, F!size
<1>a. file \in [1..F!size -> Procs]
  BY DEF FileInv, F!TypeOK, F!size
<1>4. /\ end \in Nat /\ newsize \in Nat /\ newsize >= F!size /\ newsize <= MAXFILE
      /\ newsize >= end /\ (newsize = F!size \/ newsize = end)
  BY <1>2, <1>3
<1>5. /\ file' = [k \in 1..newsize |-> IF k \in (fd[p].off + 1)..end THEN p ELSE file[k]]
      /\ spare' = F!Owned(p) - newsize
      /\ free' = free - (F!Owned(p) - (F!size + spare))
      /\ fd' = [fd EXCEPT ![p].off = @ + F!Written(p)]
      /\ done' = [done EXCEPT ![p] = @ + F!Written(p)]
      /\ UNCHANGED <<lock, pc, asked, good>>
  BY DEF F!WriteTurn, F!writei
<1> HIDE DEF newsize
<1>6. file' \in [1..newsize -> Procs]
  <2>1. ASSUME NEW k \in 1..newsize, k \notin (fd[p].off + 1)..end PROVE file[k] \in Procs
    <3> HIDE DEF end
    <3>1. k \in 1..F!size
      <4>1. k \in Nat /\ k >= 1 /\ k <= newsize /\ (k <= fd[p].off \/ k > end)
        BY <1>2, <1>4, <2>1
      <4> QED BY <1>2, <1>3, <1>4, <4>1
    <3> QED BY <1>a, <3>1, Zenon
  <2> QED BY <1>5, <2>1
<1>7. file' \in Seq(Procs) /\ F!size' = newsize
  BY <1>4, <1>6, SeqOfFunction, Zenon DEF F!size
<1>8. spare' \in Nat /\ spare' <= 1 /\ free' \in Nat /\ F!size' + spare' + free' = DiskBlocks
  <2> HIDE DEF end
  <2>1. F!Owned(p) - newsize \in 0..1
    BY <1>2, <1>3, <1>4
  <2>2. free - (F!Owned(p) - (F!size + spare)) \in Nat
    BY <1>2, <1>3
  <2>3. newsize + (F!Owned(p) - newsize) + (free - (F!Owned(p) - (F!size + spare))) = DiskBlocks
    BY <1>2, <1>3, <1>4
  <2>4. spare' = F!Owned(p) - newsize /\ free' = free - (F!Owned(p) - (F!size + spare))
    BY <1>5
  <2> QED BY <1>7, <2>1, <2>2, <2>3, <2>4
<1>9. fd' \in [Procs -> Files] /\ fd'[p].off = end /\ \A q \in Procs \ {p} : fd'[q] = fd[q]
  <2>1. fd \in [Procs -> Files] /\ fd[p] \in Files
    BY DEF FileInv, F!TypeOK, Files
  <2>2. fd' = [fd EXCEPT ![p] = [fd[p] EXCEPT !.off = end]]
    BY <1>5
  <2>3. [fd[p] EXCEPT !.off = end] \in Files
    BY <1>2, <1>4, <2>1 DEF Files
  <2> QED BY <2>1, <2>2, <2>3, Zenon DEF Files
<1>10. /\ done' \in [Procs -> Nat] /\ done'[p] = done[p] + F!Written(p)
       /\ \A q \in Procs : done'[q] <= good[q] /\ good[q] <= asked[q]
  BY <1>2, <1>5 DEF FileInv, F!TypeOK
<1>11. F!TypeOK'
  BY <1>4, <1>5, <1>7, <1>8, <1>9, <1>10, Zenon DEF FileInv, F!TypeOK, Files
<1>12. F!BlocksAccounted'
  BY <1>8, Zenon DEF F!BlocksAccounted
<1>13. F!WriteInOnePiece'
  <2>1. \A q \in Procs : pc'[q] = "write" => q = p
    BY <1>1, <1>5, Zenon DEF FileInv, F!TypeOK
  <2>2. done[p] \in Nat /\ done[p] <= fd[p].off
        /\ \A k \in (fd[p].off - done[p] + 1)..(fd[p].off) : file[k] = p
    BY <1>1, Zenon DEF FileInv, F!TypeOK, F!WriteInOnePiece
  <2>3. done'[p] <= fd'[p].off /\ fd'[p].off <= F!size'
    <3>1. fd'[p].off = end /\ F!size' = newsize /\ done'[p] = done[p] + F!Written(p)
      BY <1>7, <1>9, <1>10, Zenon
    <3>2. done[p] + F!Written(p) <= end
      BY <1>2, <2>2
    <3> QED BY <1>4, <3>1, <3>2, Zenon
  <2>4. ASSUME NEW k \in (fd'[p].off - done'[p] + 1)..(fd'[p].off) PROVE file'[k] = p
    <3>1. k \in 1..newsize /\ k >= fd[p].off - done[p] + 1 /\ k <= end /\ k \in Int
      BY <1>2, <1>4, <1>9, <1>10, <2>2, <2>4
    <3>2. CASE k <= fd[p].off
      BY <1>2, <1>5, <2>2, <3>1, <3>2
    <3>3. CASE k > fd[p].off
      BY <1>2, <1>5, <3>1, <3>3
    <3> QED BY <1>2, <3>1, <3>2, <3>3
  <2> QED BY <2>1, <2>3, <2>4 DEF F!WriteInOnePiece
<1> QED BY <1>11, <1>12, <1>13 DEF FileInv

(* sys_open(), sys_close() and fileread() find nobody in filewrite(), or   *)
(* touch neither the file nor the descriptor of a process that is there.   *)
LEMMA OtherStep ==
  ASSUME FileInv, NEW p \in Procs,
         \/ \E mode \in F!Modes, append, trunc \in BOOLEAN : F!sys_open(p, mode, append, trunc)
         \/ F!sys_close(p)
         \/ \E len \in Blocks, ok \in BOOLEAN : F!fileread(p, len, ok)
  PROVE  FileInv'
<1>1. /\ F!size \in Nat /\ F!size <= MAXFILE /\ MAXFILE \in Nat /\ spare \in Nat /\ free \in Nat
      /\ file \in Seq(Procs) /\ fd \in [Procs -> Files] /\ fd[p] \in Files
      /\ F!size + spare + free = DiskBlocks /\ spare <= 1
  BY FileConstants DEF FileInv, F!TypeOK, F!BlocksAccounted, Files, F!size
<1>2. pc[p] = "user" /\ UNCHANGED <<lock, pc, asked, done, good>>
  BY DEF F!sys_open, F!sys_close, F!fileread
<1>3. ASSUME NEW r \in Files, fd' = [fd EXCEPT ![p] = r], UNCHANGED <<file, spare, free>>
      PROVE  FileInv'
  <2>1. F!size' = F!size
    BY <1>3, Zenon DEF F!size
  <2>2. F!TypeOK'
    BY <1>1, <1>2, <1>3, <2>1, Zenon DEF FileInv, F!TypeOK, Files
  <2>3. F!BlocksAccounted'
    BY <1>1, <1>3, <2>1, Zenon DEF F!BlocksAccounted
  <2>4. \A q \in Procs : pc'[q] = "write" => pc[q] = "write" /\ fd'[q] = fd[q] /\ done'[q] = done[q]
    BY <1>1, <1>2, <1>3, Zenon
  <2>5. F!WriteInOnePiece'
    BY <1>3, <2>1, <2>4, Zenon DEF FileInv, F!WriteInOnePiece
  <2> QED BY <2>2, <2>3, <2>5 DEF FileInv
<1>4. CASE F!sys_close(p)
  <2>1. F!Closed \in Files
    BY FileConstants DEF F!Closed, Files, F!Modes, F!O_RDONLY
  <2> QED BY <1>3, <1>4, <2>1, Zenon DEF F!sys_close
<1>5. ASSUME NEW len \in Blocks, NEW ok \in BOOLEAN, F!fileread(p, len, ok) PROVE FileInv'
  <2> DEFINE off == fd[p].off
             new == IF F!readi(off, len, ok) > 0 THEN off + F!readi(off, len, ok) ELSE off
  <2>1. len \in Nat /\ off \in 0..MAXFILE
    BY <1>1, FileConstants, Zenon DEF Files
  <2>2. new \in 0..MAXFILE
    BY <1>1, <2>1 DEF F!readi, F!Least
  <2>3. fd' = [fd EXCEPT ![p] = [fd[p] EXCEPT !.off = new]]
    BY <1>5 DEF F!fileread
  <2>4. [fd[p] EXCEPT !.off = new] \in Files
    <3> HIDE DEF new
    <3> QED BY <1>1, <2>2, Zenon DEF Files
  <2> HIDE DEF new
  <2> QED BY <1>3, <1>5, <2>3, <2>4, Zenon DEF F!fileread
<1>6. ASSUME NEW mode \in F!Modes, NEW append \in BOOLEAN, NEW trunc \in BOOLEAN,
             F!sys_open(p, mode, append, trunc)
      PROVE  FileInv'
  <2> DEFINE r == [open |-> TRUE, off |-> IF append THEN F!size ELSE 0, writable |-> mode,
                   readable |-> mode # F!O_WRONLY, append |-> append]
  <2>1. r \in Files /\ fd' = [fd EXCEPT ![p] = r]
    <3>1. (IF append THEN F!size ELSE 0) \in 0..MAXFILE
      BY <1>1
    <3>2. (mode # F!O_WRONLY) \in BOOLEAN
      OBVIOUS
    <3> QED BY <1>6, <3>1, <3>2, Zenon DEF F!sys_open, Files
  <2>2. CASE ~trunc
    BY <1>3, <1>6, <2>1, <2>2, Zenon DEF F!sys_open
  <2>3. CASE trunc
    <3> HIDE DEF r
    <3>1. file' = <<>> /\ spare' = 0 /\ free' = free + F!size + spare
      BY <1>6, <2>3, Zenon DEF F!sys_open, F!itrunc
    <3>2. file' \in Seq(Procs) /\ F!size' = 0
      BY <3>1 DEF F!size
    <3>3. \A q \in Procs : pc[q] # "write"
      BY <1>6, FileConstants, Zenon DEF F!sys_open, FileInv, F!TypeOK
    <3>4. F!TypeOK'
      BY <1>1, <1>2, <2>1, <3>1, <3>2 DEF FileInv, F!TypeOK, Files
    <3>5. F!BlocksAccounted'
      BY <1>1, <3>1, <3>2 DEF F!BlocksAccounted
    <3>6. F!WriteInOnePiece'
      BY <1>2, <3>3, Zenon DEF F!WriteInOnePiece
    <3> QED BY <3>4, <3>5, <3>6 DEF FileInv
  <2> QED BY <2>2, <2>3
<1> QED BY <1>4, <1>5, <1>6, Zenon

(* filewrite() takes the lock and the loop gives it up.                    *)
LEMMA FileLockStep ==
  ASSUME FileInv, NEW p \in Procs,
         \/ \E len \in Blocks : \E readable \in 0..len : F!filewrite(p, len, readable)
         \/ F!WriteReturns(p)
  PROVE  FileInv'
<1>1. /\ F!size \in Nat /\ F!size <= MAXFILE /\ MAXFILE \in Nat /\ spare \in Nat /\ free \in Nat
      /\ fd \in [Procs -> Files] /\ fd[p] \in Files
  BY FileConstants DEF FileInv, F!TypeOK, Files, F!size
<1>2. F!size' = F!size /\ UNCHANGED <<file, spare, free>>
  BY DEF F!filewrite, F!WriteReturns, F!size
<1>3. F!BlocksAccounted'
  BY <1>2 DEF FileInv, F!BlocksAccounted
<1>4. ASSUME NEW len \in Blocks, NEW readable \in 0..len, F!filewrite(p, len, readable)
      PROVE  F!TypeOK' /\ F!WriteInOnePiece'
  <2> DEFINE new == IF F!Bit(fd[p].writable, F!O_APPEND) THEN F!size ELSE fd[p].off
  <2>1. new \in 0..MAXFILE
    BY <1>1 DEF Files
  <2> HIDE DEF new
  <2>2. fd' = [fd EXCEPT ![p] = [fd[p] EXCEPT !.off = new]]
    BY <1>4 DEF F!filewrite, new
  <2>3. [fd[p] EXCEPT !.off = new] \in Files
    BY <1>1, <2>1 DEF Files
  <2>4. fd' \in [Procs -> Files] /\ fd'[p].off \in Nat
    BY <1>1, <2>1, <2>2, <2>3 DEF Files
  <2>5. len \in Nat /\ readable \in Nat /\ readable <= len
    BY FileConstants
  <2>6. /\ pc' = [pc EXCEPT ![p] = "write"] /\ lock' = p /\ lock = NONE
        /\ asked' = [asked EXCEPT ![p] = len] /\ done' = [done EXCEPT ![p] = 0]
        /\ good' = [good EXCEPT ![p] = readable]
    BY <1>4, Zenon DEF F!filewrite
  <2>7. \A q \in Procs : pc[q] # "write"
    BY <2>6, FileConstants, Zenon DEF FileInv, F!TypeOK
  <2>8. F!TypeOK'
    <3>1. /\ pc' \in [Procs -> {"user", "write"}]
          /\ \A q \in Procs : pc'[q] = "write" <=> lock' = q
      BY <2>6, <2>7 DEF FileInv, F!TypeOK
    <3>2. asked' \in [Procs -> Nat] /\ done' \in [Procs -> Nat] /\ good' \in [Procs -> Nat]
      BY <2>5, <2>6 DEF FileInv, F!TypeOK
    <3>3. \A q \in Procs : done'[q] <= good'[q] /\ good'[q] <= asked'[q]
      BY <2>5, <2>6 DEF FileInv, F!TypeOK
    <3>4. file' \in Seq(Procs) /\ F!size' <= MAXFILE /\ spare' \in Nat /\ free' \in Nat
      BY <1>2, Zenon DEF FileInv, F!TypeOK
    <3> QED BY <2>4, <3>1, <3>2, <3>3, <3>4, Zenon DEF F!TypeOK, Files
  <2>9. \A q \in Procs : pc'[q] = "write" => q = p /\ done'[q] = 0
    BY <2>6, <2>7 DEF FileInv, F!TypeOK
  <2>10. F!WriteInOnePiece'
    <3> SUFFICES ASSUME NEW q \in Procs, pc'[q] = "write"
                 PROVE  /\ done'[q] <= fd'[q].off /\ (done'[q] > 0 => fd'[q].off <= F!size')
                        /\ \A k \in (fd'[q].off - done'[q] + 1)..(fd'[q].off) : file'[k] = q
      BY Zenon DEF F!WriteInOnePiece
    <3>1. q = p /\ done'[q] = 0 /\ fd'[q].off \in Nat
      BY <2>4, <2>9, Zenon
    <3>2. done'[q] <= fd'[q].off /\ ~(done'[q] > 0)
      BY <3>1
    <3>3. \A k \in Int : ~(k \in (fd'[q].off - 0 + 1)..(fd'[q].off))
      BY <3>1
    <3> QED BY <3>1, <3>2, <3>3
  <2> QED BY <2>8, <2>10, Zenon
<1>5. CASE F!WriteReturns(p)
  <2>1. /\ pc[p] = "write" /\ pc' = [pc EXCEPT ![p] = "user"] /\ lock' = NONE /\ fd' = fd
        /\ asked' = [asked EXCEPT ![p] = 0] /\ done' = [done EXCEPT ![p] = 0]
        /\ good' = [good EXCEPT ![p] = 0]
    BY <1>5, Zenon DEF F!WriteReturns
  <2>2. \A q \in Procs : pc'[q] # "write"
    BY <2>1, Zenon DEF FileInv, F!TypeOK
  <2>3. F!TypeOK'
    BY <1>1, <1>2, <2>1, <2>2, FileConstants DEF FileInv, F!TypeOK
  <2>4. F!WriteInOnePiece'
    BY <2>2 DEF F!WriteInOnePiece
  <2> QED BY <1>3, <2>3, <2>4, Zenon DEF FileInv
<1> QED BY <1>3, <1>4, <1>5, Zenon DEF FileInv

LEMMA FileNext == FileInv /\ [F!Next]_F!vars => FileInv'
<1> SUFFICES ASSUME FileInv, [F!Next]_F!vars PROVE FileInv'
  OBVIOUS
<1>1. CASE UNCHANGED F!vars
  BY <1>1, Zenon DEF F!vars, FileInv, F!TypeOK, F!BlocksAccounted, F!WriteInOnePiece, F!size
<1>2. CASE F!Next
  BY <1>2, TurnStep, OtherStep, FileLockStep DEF F!Next
<1> QED BY <1>1, <1>2

(* The blocks of the disk, the lock of the inode and the offset of a write *)
(* under way are as FileInv says.                                          *)
THEOREM FileInvariance == F!Spec => []FileInv
  BY FileInit, FileNext, PTL DEF F!Spec

(* No block is lost or handed out twice by bmap(), balloc() and itrunc(),  *)
(* whatever writes fail half way.                                          *)
THEOREM BlocksAccountedHolds == F!Spec => [](F!TypeOK /\ BlocksAccounted)
<1>1. FileInv => F!TypeOK /\ BlocksAccounted
  BY DEF FileInv, BlocksAccounted
<1> QED BY <1>1, FileInvariance, PTL

(* What a filewrite() under way has written is in the file in one piece.   *)
THEOREM WriteInOnePieceHolds == F!Spec => []WriteInOnePiece
<1>1. FileInv => WriteInOnePiece
  BY DEF FileInv, WriteInOnePiece
<1> QED BY <1>1, FileInvariance, PTL
=============================================================================
