--------------------------- MODULE Buffers_proofs ----------------------------
(***************************************************************************)
(* Proofs about Buffers.tla, for every number of values of a byte, and     *)
(* what these and the proofs about messages and files need of induction,   *)
(* division and sequences.                                                 *)
(***************************************************************************)
EXTENDS Buffers, SequenceTheorems, WellFoundedInduction, TLAPS

-----------------------------------------------------------------------------
(***************************************************************************)
(* Induction over an interval, and what it needs of recursive functions.   *)
(***************************************************************************)

(* What holds of 0 and goes on from each number to the next holds up to n. *)
LEMMA UpTo ==
  ASSUME NEW n \in Nat, NEW T, 0 \in T, \A i \in 1 .. n : i - 1 \in T => i \in T
  PROVE  \A i \in 0 .. n : i \in T
<1> DEFINE Bad == {i \in 0 .. n : i \notin T}
<1> SUFFICES ASSUME Bad # {} PROVE FALSE
  OBVIOUS
<1>1. Bad \subseteq Nat
  OBVIOUS
<1>2. PICK m \in Bad : \A i \in Bad : ~(<<i, m>> \in OpToRel(<, Nat))
  BY <1>1, WFMin, NatLessThanWellFounded
<1>3. m \in 1 .. n
  OBVIOUS
<1>4. \A i \in Bad : ~(i < m)
  BY <1>1, <1>2 DEF OpToRel
<1>5. m - 1 \notin Bad
  BY <1>3, <1>4
<1> QED
  BY <1>3, <1>5

(* A function that is defined from 0 upwards by x and a step exists.       *)
Iterates(f, n, x, step) == f[0] = x /\ \A i \in 1 .. n : f[i] = step[i][f[i - 1]]

LEMMA RecursionExists ==
  ASSUME NEW n \in Nat, NEW S, NEW x \in S, NEW step \in [1 .. n -> [S -> S]]
  PROVE  \E f \in [0 .. n -> S] : Iterates(f, n, x, step)
<1> DEFINE Table(m, f) == f[0] = x /\ \A i \in 1 .. m : f[i] = step[i][f[i - 1]]
           Has(m) == \E f \in [0 .. m -> S] : Table(m, f)
<1>1. Has(0)
  <2>1. Table(0, [i \in 0 .. 0 |-> x])
    OBVIOUS
  <2>2. [i \in 0 .. 0 |-> x] \in [0 .. 0 -> S]
    OBVIOUS
  <2> HIDE DEF Table
  <2> QED
    BY <2>1, <2>2
<1>2. ASSUME NEW m \in 1 .. n, Has(m - 1)
      PROVE  Has(m)
  <2>1. PICK f \in [0 .. m - 1 -> S] : Table(m - 1, f)
    BY <1>2
  <2> DEFINE g == [i \in 0 .. m |-> IF i = m THEN step[m][f[m - 1]] ELSE f[i]]
  <2>2. step[m][f[m - 1]] \in S
    <3>1. f[m - 1] \in S
      BY <2>1
    <3> QED
      BY <3>1
  <2>3. g \in [0 .. m -> S]
    BY <2>1, <2>2
  <2>4. Table(m, g)
    <3>1. g[0] = x
      BY <2>1
    <3>2. ASSUME NEW i \in 1 .. m
          PROVE  g[i] = step[i][g[i - 1]]
      <4>1. g[i - 1] = f[i - 1]
        OBVIOUS
      <4>2. CASE i = m
        BY <4>1, <4>2
      <4>3. CASE i # m
        BY <4>1, <4>3, <2>1
      <4> QED
        BY <4>2, <4>3
    <3> QED
      BY <3>1, <3>2
  <2> HIDE DEF Table, g
  <2> QED
    BY <2>3, <2>4
<1> HIDE DEF Has
<1> DEFINE T == {m \in 0 .. n : Has(m)}
<1>3. 0 \in T /\ \A m \in 1 .. n : m - 1 \in T => m \in T
  BY <1>1, <1>2
<1> HIDE DEF T
<1>4. \A m \in 0 .. n : m \in T
  BY <1>3, UpTo
<1> QED
  BY <1>4 DEF T, Has, Iterates

-----------------------------------------------------------------------------
(***************************************************************************)
(* Division.                                                               *)
(***************************************************************************)
LEMMA Divided ==
  ASSUME NEW x \in Int, NEW m \in Nat \ {0}
  PROVE  /\ x \div m \in Int /\ x % m \in 0 .. m - 1
         /\ x = m * (x \div m) + (x % m)
         /\ x \in Nat => x \div m \in Nat
  OBVIOUS

LEMMA TimesMonotone ==
  ASSUME NEW m \in Nat, NEW x \in Nat, NEW y \in Nat, x <= y
  PROVE  m * x <= m * y
<1>1. m * y = m * x + m * (y - x)
  OBVIOUS
<1>2. m * (y - x) \in Nat
  OBVIOUS
<1>3. m * x \in Nat
  OBVIOUS
<1> QED
  BY <1>1, <1>2, <1>3

LEMMA SmallMultiple ==
  ASSUME NEW m \in Nat \ {0}, NEW d \in Int, - m < m * d, m * d < m
  PROVE  d = 0
<1>1. CASE d >= 1
  <2>1. m * d >= m
    BY <1>1
  <2> QED
    BY <2>1
<1>2. CASE d <= -1
  <2>1. m * d <= - m
    BY <1>2
  <2> QED
    BY <2>1
<1> QED
  BY <1>1, <1>2

LEMMA QuotientAndRest ==
  ASSUME NEW m \in Nat \ {0}, NEW q \in Int, NEW r \in 0 .. m - 1
  PROVE  (m * q + r) \div m = q /\ (m * q + r) % m = r
<1> DEFINE x == m * q + r
           p == x \div m
           s == x % m
<1>1. x \in Int
  OBVIOUS
<1>2. p \in Int /\ s \in 0 .. m - 1 /\ x = m * p + s
  BY <1>1, Divided
<1> HIDE DEF p, s
<1>3. m * (q - p) = m * q - m * p
  BY <1>2
<1>4. q - p \in Int /\ - m < m * (q - p) /\ m * (q - p) < m
  BY <1>2, <1>3
<1>5. q - p = 0
  BY <1>4, SmallMultiple
<1>6. q = p
  BY <1>2, <1>5
<1> QED
  BY <1>2, <1>6 DEF p, s

(* Numbers are equal modulo m exactly if their difference is a multiple.   *)
LEMMA Congruent ==
  ASSUME NEW m \in Nat \ {0}, NEW x \in Int, NEW y \in Int
  PROVE  x % m = y % m <=> \E d \in Int : x - y = m * d
<1>1. x = m * (x \div m) + (x % m) /\ x \div m \in Int /\ x % m \in 0 .. m - 1
  BY Divided
<1>2. y = m * (y \div m) + (y % m) /\ y \div m \in Int /\ y % m \in 0 .. m - 1
  BY Divided
<1> DEFINE p == x \div m
           q == y \div m
<1>3. m * (p - q) = m * p - m * q
  BY <1>1, <1>2
<1>4. ASSUME x % m = y % m
      PROVE  \E d \in Int : x - y = m * d
  <2>1. x - y = m * (p - q) /\ p - q \in Int
    BY <1>1, <1>2, <1>3, <1>4
  <2> QED
    BY <2>1
<1>5. ASSUME NEW d \in Int, x - y = m * d
      PROVE  x % m = y % m
  <2>1. m * (q + d) = m * q + m * d
    BY <1>2
  <2>2. x = m * (q + d) + (y % m) /\ q + d \in Int
    BY <1>2, <1>5, <2>1
  <2> QED
    BY <1>2, <2>2, QuotientAndRest
<1> QED
  BY <1>4, <1>5

LEMMA SmallRest ==
  ASSUME NEW m \in Nat \ {0}, NEW r \in 0 .. m - 1
  PROVE  r % m = r
<1> DEFINE q == r \div m
           t == r % m
<1>1. r \in Int
  OBVIOUS
<1>2. q \in Int /\ t \in 0 .. m - 1 /\ r = m * q + t
  BY <1>1, Divided
<1> HIDE DEF q, t
<1>3. - m < m * q /\ m * q < m
  BY <1>2
<1>4. q = 0
  BY <1>2, <1>3, SmallMultiple
<1>5. r = t
  BY <1>2, <1>4
<1> QED
  BY <1>5 DEF t

LEMMA RestOfRest ==
  ASSUME NEW m \in Nat \ {0}, NEW x \in Int
  PROVE  (x % m) % m = x % m
<1>1. x % m \in 0 .. m - 1
  BY Divided
<1> QED
  BY <1>1, SmallRest

LEMMA QuotientLess ==
  ASSUME NEW m \in Nat \ {0}, NEW k \in Nat, NEW x \in Nat, x < m * k
  PROVE  x \div m \in Nat /\ x \div m < k
<1> DEFINE q == x \div m
<1>1. q \in Nat /\ x = m * q + (x % m) /\ x % m \in 0 .. m - 1
  <2>1. x \in Int
    OBVIOUS
  <2> QED
    BY <2>1, Divided
<1> HIDE DEF q
<1>2. m * q < m * k
  BY <1>1
<1>3. ASSUME q >= k PROVE FALSE
  <2>1. m * q >= m * k
    BY <1>1, <1>3
  <2> QED
    BY <1>1, <1>2, <2>1
<1> QED
  BY <1>1, <1>3 DEF q

(* What is added to a number of m values can be subtracted again.          *)
LEMMA AddThenSubtract ==
  ASSUME NEW m \in Nat \ {0}, NEW x \in 0 .. m - 1, NEW y \in Int
  PROVE  (((x + y) % m) - y) % m = x
<1> DEFINE q == (x + y) \div m
           r == (x + y) % m
<1>1. q \in Int /\ r \in 0 .. m - 1 /\ x + y = m * q + r
  BY Divided
<1> HIDE DEF q, r
<1>2. m * (- q) = - (m * q)
  BY <1>1
<1>3. r - y = m * (- q) + x /\ - q \in Int
  BY <1>1, <1>2
<1>4. (r - y) % m = x
  BY <1>3, QuotientAndRest
<1> QED
  BY <1>4 DEF r

-----------------------------------------------------------------------------
(***************************************************************************)
(* buffer_util.hh: integers and their bytes.                               *)
(***************************************************************************)
LEMMA Bases ==
  /\ ByteBase \in Nat \ {0} /\ ByteBase > 1
  /\ Half \in Nat \ {0} /\ Half >= ByteBase /\ Half = ByteBase * ByteBase
  /\ Word \in Nat \ {0} /\ Word >= Half /\ Word = ByteBase * (ByteBase * Half)
<1>1. ByteBase \in Nat /\ ByteBase > 1
  BY ByteBaseAssumption
<1>2. Half \in Nat /\ Half = ByteBase * ByteBase
  BY <1>1 DEF Half
<1>3. ByteBase * ByteBase >= ByteBase * 1
  BY <1>1
<1>4. Half >= ByteBase
  BY <1>1, <1>2, <1>3
<1>5. Word \in Nat /\ Word = Half * Half
  BY <1>2 DEF Word
<1>6. Half * Half >= Half * 1
  BY <1>1, <1>2, <1>4
<1>7. Half * Half = ByteBase * (ByteBase * Half)
  BY <1>1, <1>2
<1> QED
  BY <1>1, <1>2, <1>4, <1>5, <1>6, <1>7

LEMMA StoredIs ==
  ASSUME NEW x \in Nat, NEW n \in Nat
  PROVE  \E f \in [0 .. n -> Nat] :
           /\ f[0] = x /\ \A i \in 1 .. n : f[i] = f[i - 1] \div ByteBase
           /\ Stored(x, n) = [i \in 1 .. n |-> f[i - 1] % ByteBase]
<1> DEFINE step == [i \in 1 .. n |-> [y \in Nat |-> y \div ByteBase]]
           rest[i \in 0 .. n] == IF i = 0 THEN x ELSE rest[i - 1] \div ByteBase
<1>1. ByteBase \in Nat \ {0}
  BY Bases
<1>2. \A y \in Nat : y \div ByteBase \in Nat
  BY <1>1, Divided
<1>3. step \in [1 .. n -> [Nat -> Nat]]
  BY <1>2
<1>4. PICK f \in [0 .. n -> Nat] : Iterates(f, n, x, step)
  <2> HIDE DEF step
  <2> DEFINE S == Nat
  <2>1. x \in S /\ step \in [1 .. n -> [S -> S]]
    BY <1>3
  <2> HIDE DEF S
  <2>2. \E f \in [0 .. n -> S] : Iterates(f, n, x, step)
    BY <2>1, RecursionExists
  <2> QED
    BY <2>2 DEF S
<1>5. ASSUME NEW i \in 1 .. n
      PROVE  f[i] = f[i - 1] \div ByteBase
  <2>1. f[i - 1] \in Nat /\ f[i] = step[i][f[i - 1]]
    BY <1>4 DEF Iterates
  <2> QED
    BY <2>1
<1>6. f = [i \in 0 .. n |-> IF i = 0 THEN x ELSE f[i - 1] \div ByteBase]
  BY <1>4, <1>5 DEF Iterates
<1>7. rest = [i \in 0 .. n |-> IF i = 0 THEN x ELSE rest[i - 1] \div ByteBase]
  BY <1>6
<1> HIDE DEF rest
<1>8. rest[0] = x /\ \A i \in 1 .. n : rest[i] = rest[i - 1] \div ByteBase
  BY <1>7
<1>9. \A i \in 0 .. n : rest[i] \in Nat
  <2> DEFINE T == {i \in 0 .. n : rest[i] \in Nat}
  <2>1. 0 \in T
    BY <1>8
  <2>2. ASSUME NEW i \in 1 .. n, i - 1 \in T
        PROVE  i \in T
    <3>1. rest[i - 1] \in Nat
      BY <2>2
    <3>2. rest[i] \in Nat
      BY <1>2, <1>8, <3>1
    <3> QED
      BY <3>2
  <2> HIDE DEF T
  <2>3. \A i \in 0 .. n : i \in T
    BY <2>1, <2>2, UpTo
  <2> QED
    BY <2>3 DEF T
<1>10. rest \in [0 .. n -> Nat]
  BY <1>7, <1>9
<1>11. Stored(x, n) = [i \in 1 .. n |-> rest[i - 1] % ByteBase]
  BY DEF Stored, rest
<1> QED
  BY <1>8, <1>10, <1>11

LEMMA StoredBytes ==
  ASSUME NEW x \in Nat, NEW n \in Nat
  PROVE  /\ Stored(x, n) \in Seq(Octet) /\ Len(Stored(x, n)) = n
         /\ Stored(x, n) \in [1 .. n -> Octet]
<1>1. PICK f \in [0 .. n -> Nat] : Stored(x, n) = [i \in 1 .. n |-> f[i - 1] % ByteBase]
  BY ZenonT(40), StoredIs
<1>2. \A i \in 1 .. n : f[i - 1] % ByteBase \in Octet
  BY Bases DEF Octet
<1>3. Stored(x, n) \in [1 .. n -> Octet]
  BY <1>1, <1>2
<1> QED
  BY <1>3

LEMMA LoadedIs ==
  ASSUME NEW b \in Seq(Octet)
  PROVE  \E f \in [0 .. Len(b) -> Nat] :
           /\ f[0] = 0
           /\ \A i \in 1 .. Len(b) : f[i] = b[Len(b) + 1 - i] + ByteBase * f[i - 1]
           /\ Loaded(b) = f[Len(b)]
<1> DEFINE n == Len(b)
           step == [i \in 1 .. n |-> [y \in Nat |-> b[n + 1 - i] + ByteBase * y]]
           last[i \in 0 .. n] == IF i = 0 THEN 0 ELSE b[n + 1 - i] + ByteBase * last[i - 1]
<1>1. ByteBase \in Nat \ {0} /\ n \in Nat
  BY Bases
<1>2. ASSUME NEW i \in 1 .. n, NEW y \in Nat
      PROVE  b[n + 1 - i] + ByteBase * y \in Nat
  <2>1. n + 1 - i \in 1 .. Len(b)
    BY <1>1
  <2>2. b[n + 1 - i] \in Octet
    BY <2>1
  <2>3. b[n + 1 - i] \in Nat
    BY <1>1, <2>2 DEF Octet
  <2>4. ByteBase * y \in Nat
    BY <1>1
  <2> HIDE DEF n
  <2> QED
    BY <2>3, <2>4
<1>3. step \in [1 .. n -> [Nat -> Nat]]
  BY <1>2
<1>4. PICK f \in [0 .. n -> Nat] : Iterates(f, n, 0, step)
  <2> HIDE DEF step, n
  <2> DEFINE S == Nat
  <2>1. 0 \in S /\ step \in [1 .. n -> [S -> S]]
    BY <1>3
  <2> HIDE DEF S
  <2>2. \E f \in [0 .. n -> S] : Iterates(f, n, 0, step)
    BY <1>1, <2>1, RecursionExists
  <2> QED
    BY <2>2 DEF S
<1>5. ASSUME NEW i \in 1 .. n
      PROVE  f[i] = b[n + 1 - i] + ByteBase * f[i - 1]
  <2>1. f[i - 1] \in Nat /\ f[i] = step[i][f[i - 1]]
    <3> HIDE DEF step, n
    <3>1. i - 1 \in 0 .. n
      BY <1>1
    <3> QED
      BY <1>4, <3>1 DEF Iterates
  <2> QED
    BY <2>1
<1>6. f = [i \in 0 .. n |-> IF i = 0 THEN 0 ELSE b[n + 1 - i] + ByteBase * f[i - 1]]
  BY <1>4, <1>5 DEF Iterates
<1>7. last = [i \in 0 .. n |-> IF i = 0 THEN 0 ELSE b[n + 1 - i] + ByteBase * last[i - 1]]
  BY <1>6
<1>8. Loaded(b) = last[n]
  BY DEF Loaded
<1> HIDE DEF last
<1>9. last[0] = 0 /\ \A i \in 1 .. n : last[i] = b[n + 1 - i] + ByteBase * last[i - 1]
  BY SMTT(40), <1>7
<1>10. \A i \in 0 .. n : last[i] \in Nat
  <2> DEFINE T == {i \in 0 .. n : last[i] \in Nat}
  <2>1. 0 \in T
    BY <1>1, <1>9
  <2>2. ASSUME NEW i \in 1 .. n, i - 1 \in T
        PROVE  i \in T
    <3>1. last[i - 1] \in Nat
      BY <2>2
    <3>2. last[i] \in Nat
      BY <1>2, <1>9, <3>1
    <3> QED
      BY <1>1, <3>2
  <2> HIDE DEF T, n
  <2>3. \A i \in 0 .. n : i \in T
    BY <1>1, <2>1, <2>2, UpTo
  <2> QED
    BY <2>3 DEF T
<1>11. last \in [0 .. n -> Nat]
  BY <1>7, <1>10
<1> QED
  BY <1>8, <1>9, <1>11

(* An integer that n bytes have room for is read as it was written.        *)
LEMMA LoadedStored ==
  ASSUME NEW n \in Nat, NEW x \in Nat, NEW f \in [0 .. n -> Nat],
         f[0] = x, f[n] = 0, \A i \in 1 .. n : f[i] = f[i - 1] \div ByteBase,
         Stored(x, n) = [i \in 1 .. n |-> f[i - 1] % ByteBase]
  PROVE  Loaded(Stored(x, n)) = x
<1> DEFINE b == Stored(x, n)
<1>1. b \in Seq(Octet) /\ Len(b) = n
  BY StoredBytes
<1>2. \A i \in 1 .. n : b[i] = f[i - 1] % ByteBase
  OBVIOUS
<1> HIDE DEF b
<1>3. PICK g \in [0 .. n -> Nat] :
        /\ g[0] = 0
        /\ \A i \in 1 .. n : g[i] = b[n + 1 - i] + ByteBase * g[i - 1]
        /\ Loaded(b) = g[n]
  BY <1>1, LoadedIs
<1> DEFINE T == {i \in 0 .. n : g[i] = f[n - i]}
<1>4. 0 \in T
  BY <1>3
<1>5. ASSUME NEW i \in 1 .. n, i - 1 \in T
      PROVE  i \in T
  <2>1. g[i - 1] = f[n + 1 - i]
    BY <1>5
  <2>2. n + 1 - i \in 1 .. n
    OBVIOUS
  <2>3. b[n + 1 - i] = f[n - i] % ByteBase /\ f[n + 1 - i] = f[n - i] \div ByteBase
    BY <1>2, <2>2
  <2>4. f[n - i] \in Nat
    OBVIOUS
  <2>5. f[n - i] = ByteBase * (f[n - i] \div ByteBase) + (f[n - i] % ByteBase)
    <3> DEFINE y == f[n - i]
    <3>1. y \in Int
      BY <2>4
    <3> HIDE DEF y
    <3>2. y = ByteBase * (y \div ByteBase) + (y % ByteBase)
      BY <3>1, Bases, Divided
    <3> QED
      BY <3>2 DEF y
  <2>6. g[i] = f[n - i]
    BY SMTT(40), <1>3, <2>1, <2>3, <2>4, <2>5, Bases
  <2> QED
    BY <2>6
<1> HIDE DEF T
<1>6. \A i \in 0 .. n : i \in T
  BY <1>4, <1>5, UpTo
<1>7. g[n] = f[0]
  BY <1>6 DEF T
<1> QED
  BY <1>3, <1>7 DEF b

(* buffer_util.hh: an integer that its 1, 2 or 4 bytes have room for is    *)
(* read as it was written.                                                 *)
THEOREM IntegerRoundTrip ==
  ASSUME NEW n \in {1, 2, 4}, NEW x \in Nat, x < Values(n)
  PROVE  Loaded(Stored(x, n)) = x
<1>0. n \in Nat
  OBVIOUS
<1>1. PICK f \in [0 .. n -> Nat] :
        /\ f[0] = x /\ \A i \in 1 .. n : f[i] = f[i - 1] \div ByteBase
        /\ Stored(x, n) = [i \in 1 .. n |-> f[i - 1] % ByteBase]
  BY <1>0, StoredIs
<1>2. ASSUME NEW i \in 1 .. n, NEW k \in Nat, f[i - 1] < ByteBase * k
      PROVE  f[i] < k
  <2>1. f[i - 1] \in Nat
    BY <1>0
  <2>2. f[i - 1] \div ByteBase < k
    BY <1>2, <2>1, Bases, QuotientLess
  <2> QED
    BY <1>1, <2>2
<1>3. f[n] < 1
  <2>1. CASE n = 1
    <3>1. f[0] < ByteBase * 1
      BY <1>1, <2>1, Bases DEF Values
    <3> QED
      BY <1>2, <2>1, <3>1
  <2>2. CASE n = 2
    <3>1. f[0] < ByteBase * ByteBase
      BY <1>1, <2>2, Bases DEF Values
    <3>2. f[1] < ByteBase
      BY <1>2, <2>2, <3>1, Bases
    <3>3. f[1] < ByteBase * 1
      BY <3>2, Bases
    <3> QED
      BY <1>2, <2>2, <3>3
  <2>3. CASE n = 4
    <3>1. f[0] < ByteBase * (ByteBase * Half)
      BY <1>1, <2>3, Bases DEF Values
    <3>2. ByteBase * Half \in Nat
      BY Bases
    <3>3. f[1] < ByteBase * Half
      BY <1>2, <2>3, <3>1, <3>2
    <3>4. f[2] < ByteBase * ByteBase
      BY <1>2, <2>3, <3>3, Bases
    <3>5. f[3] < ByteBase * 1
      <4>1. f[3] < ByteBase
        BY <1>2, <2>3, <3>4, Bases
      <4> QED
        BY <4>1, Bases
    <3> QED
      BY <1>2, <2>3, <3>5
  <2> QED
    BY <2>1, <2>2, <2>3
<1>4. f[n] = 0
  BY <1>3
<1> QED
  BY SMTT(40), <1>1, <1>4, LoadedStored

(* buffer_util.hh: any number of bytes read as an integer are written as   *)
(* the same bytes.                                                         *)
THEOREM StoredLoaded ==
  ASSUME NEW b \in Seq(Octet)
  PROVE  Loaded(b) \in Nat /\ Stored(Loaded(b), Len(b)) = b
<1> DEFINE n == Len(b)
<1>1. n \in Nat
  OBVIOUS
<1>2. PICK g \in [0 .. n -> Nat] :
        /\ g[0] = 0
        /\ \A i \in 1 .. n : g[i] = b[n + 1 - i] + ByteBase * g[i - 1]
        /\ Loaded(b) = g[n]
  BY LoadedIs
<1>3. \A i \in 1 .. n : b[i] \in 0 .. ByteBase - 1
  BY DEF Octet
<1>4. b = [i \in 1 .. n |-> b[i]]
  OBVIOUS
<1> HIDE DEF n
<1>5. Loaded(b) \in Nat
  BY <1>1, <1>2
<1>6. PICK f \in [0 .. n -> Nat] :
        /\ f[0] = Loaded(b) /\ \A i \in 1 .. n : f[i] = f[i - 1] \div ByteBase
        /\ Stored(Loaded(b), n) = [i \in 1 .. n |-> f[i - 1] % ByteBase]
  BY <1>1, <1>5, StoredIs
<1>7. ASSUME NEW i \in 1 .. n
      PROVE  g[n + 1 - i] \div ByteBase = g[n - i] /\ g[n + 1 - i] % ByteBase = b[i]
  <2>1. n + 1 - i \in 1 .. n
    BY <1>1
  <2>2. g[n + 1 - i] = b[i] + ByteBase * g[n - i]
    BY <1>1, <1>2, <2>1
  <2>3. g[n - i] \in Nat
    BY <1>1
  <2>4. g[n + 1 - i] = ByteBase * g[n - i] + b[i]
    BY <1>3, <2>2, <2>3, Bases
  <2>5. /\ (ByteBase * g[n - i] + b[i]) \div ByteBase = g[n - i]
        /\ (ByteBase * g[n - i] + b[i]) % ByteBase = b[i]
    <3>1. g[n - i] \in Int /\ b[i] \in 0 .. ByteBase - 1
      BY <1>3, <2>3
    <3> QED
      BY <3>1, Bases, QuotientAndRest
  <2> QED
    BY <2>4, <2>5
<1> DEFINE T == {i \in 0 .. n : f[i] = g[n - i]}
<1>8. 0 \in T
  BY <1>1, <1>2, <1>6
<1>9. ASSUME NEW i \in 1 .. n, i - 1 \in T
      PROVE  i \in T
  <2>1. f[i - 1] = g[n + 1 - i]
    BY <1>1, <1>9
  <2> QED
    BY <1>1, <1>6, <1>7, <2>1
<1> HIDE DEF T
<1>10. \A i \in 0 .. n : i \in T
  BY <1>1, <1>8, <1>9, UpTo
<1>11. ASSUME NEW i \in 1 .. n
       PROVE  f[i - 1] % ByteBase = b[i]
  <2>1. f[i - 1] = g[n - (i - 1)]
    BY <1>1, <1>10 DEF T
  <2>2. n - (i - 1) = n + 1 - i
    BY <1>1
  <2> QED
    BY <1>7, <2>1, <2>2
<1>12. Stored(Loaded(b), n) = b
  BY <1>4, <1>6, <1>11
<1> QED
  BY <1>5, <1>12 DEF n

LEMMA LoadedBelow ==
  ASSUME NEW b \in Seq(Octet), Len(b) \in {1, 2, 4}
  PROVE  Loaded(b) \in 0 .. Values(Len(b)) - 1
<1> DEFINE n == Len(b)
<1>1. PICK g \in [0 .. n -> Nat] :
        /\ g[0] = 0
        /\ \A i \in 1 .. n : g[i] = b[n + 1 - i] + ByteBase * g[i - 1]
        /\ Loaded(b) = g[n]
  BY LoadedIs
<1>2. \A i \in 1 .. n : b[n + 1 - i] \in 0 .. ByteBase - 1
  <2>1. \A i \in 1 .. n : n + 1 - i \in 1 .. n
    OBVIOUS
  <2>2. \A i \in 1 .. n : b[i] \in Octet
    OBVIOUS
  <2> QED
    BY <2>1, <2>2 DEF Octet
<1> HIDE DEF n
<1>3. ASSUME n \in {1, 2, 4}, NEW i \in 1 .. n, NEW k \in Nat \ {0}, g[i - 1] < k
      PROVE  g[i] < ByteBase * k
  <2>1. g[i - 1] \in Nat /\ ByteBase \in Nat /\ b[n + 1 - i] \in Nat
    BY <1>2, <1>3, Bases
  <2>2. ByteBase * (g[i - 1] + 1) = ByteBase * g[i - 1] + ByteBase
    BY <2>1
  <2>3. ByteBase * (g[i - 1] + 1) <= ByteBase * k
    <3>1. g[i - 1] + 1 \in Nat /\ g[i - 1] + 1 <= k
      BY SMTT(40), <1>3, <2>1
    <3> QED
      BY <2>1, <3>1, TimesMonotone
  <2>4. g[i] = b[n + 1 - i] + ByteBase * g[i - 1] /\ b[n + 1 - i] < ByteBase
    BY <1>1, <1>2, <2>1
  <2> DEFINE low == ByteBase * g[i - 1]
             high == ByteBase * k
  <2>5. low \in Nat /\ high \in Nat
    BY <2>1
  <2>6. low + ByteBase <= high
    BY <2>2, <2>3
  <2>7. g[i] = b[n + 1 - i] + low
    BY <2>4
  <2> HIDE DEF low
  <2>8. g[i] < high
    <3> HIDE DEF high
    <3> QED
      BY <2>1, <2>4, <2>5, <2>6, <2>7
  <2> QED
    BY <2>8
<1>4. n \in {1, 2, 4}
  BY DEF n
<1>5. g[1] < ByteBase
  <2>1. g[1] < ByteBase * 1
    BY <1>1, <1>3, <1>4
  <2> QED
    BY <2>1, Bases
<1>6. n > 1 => g[2] < Half
  BY <1>3, <1>4, <1>5, Bases
<1>7. n > 2 => g[4] < Word
  <2> SUFFICES ASSUME n = 4 PROVE g[4] < Word
    BY <1>4
  <2>1. g[3] < ByteBase * Half
    BY <1>3, <1>4, <1>6, Bases
  <2>2. ByteBase * Half \in Nat \ {0}
    BY Bases
  <2> QED
    BY <1>3, <1>4, <2>1, <2>2, Bases
<1>8. Loaded(b) \in Nat
  BY <1>1, <1>4
<1>9. Loaded(b) < Values(n)
  BY <1>1, <1>4, <1>5, <1>6, <1>7 DEF Values
<1>10. Values(n) \in Nat
  BY <1>4, Bases DEF Values
<1> QED
  BY <1>8, <1>9, <1>10 DEF n

-----------------------------------------------------------------------------
(***************************************************************************)
(* Parts of sequences.                                                     *)
(***************************************************************************)
LEMMA PartOf ==
  ASSUME NEW S, NEW data \in Seq(S), NEW i \in Nat \ {0}, NEW j \in Nat,
         i <= j + 1, j <= Len(data)
  PROVE  /\ SubSeq(data, i, j) \in Seq(S)
         /\ Len(SubSeq(data, i, j)) = j - i + 1
         /\ \A c \in 1 .. j - i + 1 : SubSeq(data, i, j)[c] = data[i + c - 1]
<1>1. \A c \in i .. j : data[c] \in S
  OBVIOUS
<1>2. i \in Int /\ j \in Int
  OBVIOUS
<1> QED
  BY <1>1, <1>2, SubSeqProperties

LEMMA Joined ==
  ASSUME NEW S, NEW a \in Seq(S), NEW b \in Seq(S)
  PROVE  /\ a \o b \in Seq(S) /\ Len(a \o b) = Len(a) + Len(b)
         /\ \A i \in 1 .. Len(a) : (a \o b)[i] = a[i]
         /\ \A i \in 1 .. Len(b) : (a \o b)[Len(a) + i] = b[i]
<1> DEFINE c == a \o b
           m == Len(a)
           n == Len(b)
<1>1. m \in Nat /\ n \in Nat
  OBVIOUS
<1>2. /\ c \in Seq(S) /\ Len(c) = m + n
      /\ \A i \in 1 .. m + n : c[i] = IF i <= m THEN a[i] ELSE b[i - m]
  BY ConcatProperties
<1> HIDE DEF c, m, n
<1>3. \A i \in 1 .. m : c[i] = a[i]
  BY <1>1, <1>2
<1>4. \A i \in 1 .. n : c[m + i] = b[i]
  <2> SUFFICES ASSUME NEW i \in 1 .. n PROVE c[m + i] = b[i]
    OBVIOUS
  <2>1. m + i \in 1 .. m + n /\ ~(m + i <= m) /\ (m + i) - m = i
    BY <1>1
  <2> QED
    BY <1>2, <2>1
<1> QED
  BY <1>2, <1>3, <1>4 DEF c, m, n

LEMMA JoinedParts ==
  ASSUME NEW S, NEW a \in Seq(S), NEW b \in Seq(S),
         NEW m \in Nat, NEW n \in Nat, NEW l \in Nat, NEW h \in Nat,
         m = Len(a), n = Len(b), l = m + 1, h = m + n
  PROVE  SubSeq(a \o b, 1, m) = a /\ SubSeq(a \o b, l, h) = b
<1> DEFINE c == a \o b
           t == SubSeq(c, 1, m)
           u == SubSeq(c, l, h)
<1>1. m \in Nat /\ n \in Nat /\ l = m + 1 /\ h = m + n
  OBVIOUS
<1>2. /\ c \in Seq(S) /\ Len(c) = m + n
      /\ \A i \in 1 .. m : c[i] = a[i]
      /\ \A i \in 1 .. n : c[m + i] = b[i]
  BY Joined
<1> HIDE DEF c
<1>3. t = a
  <2>1. t \in Seq(S) /\ Len(t) = m - 1 + 1 /\ \A i \in 1 .. m - 1 + 1 : t[i] = c[1 + i - 1]
    <3>1. 1 \in Nat \ {0} /\ 1 <= m + 1 /\ m <= Len(c)
      BY <1>1, <1>2
    <3> QED
      BY <1>1, <1>2, <3>1, PartOf
  <2> HIDE DEF t
  <2>2. m - 1 + 1 = m /\ \A i \in 1 .. m : 1 + i - 1 = i
    BY <1>1
  <2>3. Len(t) = m /\ \A i \in 1 .. m : t[i] = c[i]
    BY <2>1, <2>2
  <2>4. Len(t) = Len(a) /\ \A i \in 1 .. Len(t) : t[i] = a[i]
    BY <1>2, <2>3
  <2> QED
    BY <2>1, <2>4, SeqEqual
<1>4. u = b
  <2>1. l \in Nat \ {0} /\ h \in Nat /\ l <= h + 1 /\ h <= Len(c)
    BY <1>1, <1>2
  <2>2. h - l + 1 = n /\ \A i \in 1 .. n : l + i - 1 = m + i
    BY <1>1
  <2>3. u \in Seq(S) /\ Len(u) = h - l + 1 /\ \A i \in 1 .. h - l + 1 : u[i] = c[l + i - 1]
    BY <1>2, <2>1, PartOf
  <2> HIDE DEF u
  <2>4. Len(u) = Len(b) /\ \A i \in 1 .. Len(u) : u[i] = b[i]
    BY <1>1, <1>2, <2>2, <2>3
  <2> QED
    BY <2>3, <2>4, SeqEqual
<1> QED
  BY <1>3, <1>4 DEF c

LEMMA SequencesOfLength ==
  ASSUME NEW S, NEW n \in Nat
  PROVE  /\ \A b \in [1 .. n -> S] : b \in Seq(S) /\ Len(b) = n
         /\ \A b \in Seq(S) : Len(b) = n => b \in [1 .. n -> S]
<1>1. ASSUME NEW b \in [1 .. n -> S]
      PROVE  b \in Seq(S) /\ Len(b) = n
  OBVIOUS
<1>2. ASSUME NEW b \in Seq(S), Len(b) = n
      PROVE  b \in [1 .. n -> S]
  <2>1. b \in [1 .. Len(b) -> S]
    BY LenProperties
  <2> QED
    BY <1>2, <2>1
<1> QED
  BY <1>1, <1>2

(* From i to j, s has n elements; and the one of them that is number c.     *)
Span(s, i, j, n) == i \in Nat \ {0} /\ j \in Nat /\ j = i + n - 1 /\ j <= Len(s)

Part(s, i, j) == SubSeq(s, i, j)

At(s, i, c) == s[i + c - 1]

Same(s, i, t, k, n) == \A c \in 1 .. n : At(s, i, c) = At(t, k, c)

Holds(s, i, t) == \A c \in 1 .. Len(t) : At(s, i, c) = t[c]

LEMMA PartIs ==
  ASSUME NEW S, NEW s \in Seq(S), NEW n \in Nat, NEW i, NEW j, Span(s, i, j, n)
  PROVE  /\ Part(s, i, j) \in Seq(S) /\ Len(Part(s, i, j)) = n
         /\ \A c \in 1 .. n : Part(s, i, j)[c] = At(s, i, c)
<1> DEFINE u == Part(s, i, j)
<1>1. i \in Nat \ {0} /\ j \in Nat /\ i <= j + 1 /\ j <= Len(s) /\ j - i + 1 = n
  BY DEF Span
<1>2. u \in Seq(S) /\ Len(u) = j - i + 1 /\ \A c \in 1 .. j - i + 1 : u[c] = s[i + c - 1]
  BY <1>1, PartOf DEF Part
<1> HIDE DEF u
<1>3. Len(u) = n /\ \A c \in 1 .. n : u[c] = At(s, i, c)
  BY <1>1, <1>2 DEF At
<1> QED
  BY <1>2, <1>3 DEF u

LEMMA SamePart ==
  ASSUME NEW S, NEW s \in Seq(S), NEW t \in Seq(S), NEW n \in Nat,
         NEW i, NEW j, NEW k, NEW l,
         Span(s, i, j, n), Span(t, k, l, n), Same(s, i, t, k, n)
  PROVE  Part(s, i, j) = Part(t, k, l)
<1> DEFINE u == Part(s, i, j)
           v == Part(t, k, l)
<1>1. u \in Seq(S) /\ Len(u) = n /\ \A c \in 1 .. n : u[c] = At(s, i, c)
  BY PartIs
<1>2. v \in Seq(S) /\ Len(v) = n /\ \A c \in 1 .. n : v[c] = At(t, k, c)
  BY PartIs
<1> HIDE DEF u, v
<1>3. \A c \in 1 .. n : u[c] = v[c]
  BY <1>1, <1>2 DEF Same
<1>4. u = v
  BY <1>1, <1>2, <1>3, SeqEqual
<1> QED
  BY <1>4 DEF u, v

(* A part that has the elements of t is t.                                 *)
LEMMA PartEquals ==
  ASSUME NEW S, NEW s \in Seq(S), NEW t \in Seq(S), NEW i, NEW j,
         Span(s, i, j, Len(t)), Holds(s, i, t)
  PROVE  Part(s, i, j) = t
<1> DEFINE u == Part(s, i, j)
<1>1. Len(t) \in Nat
  OBVIOUS
<1>2. u \in Seq(S) /\ Len(u) = Len(t) /\ \A c \in 1 .. Len(t) : u[c] = At(s, i, c)
  BY <1>1, PartIs
<1> HIDE DEF u
<1>3. \A c \in 1 .. Len(u) : u[c] = t[c]
  BY <1>2 DEF Holds
<1>4. u = t
  BY <1>2, <1>3, SeqEqual
<1> QED
  BY <1>4 DEF u

=============================================================================
