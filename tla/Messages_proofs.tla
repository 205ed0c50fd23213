--------------------------- MODULE Messages_proofs ---------------------------
(***************************************************************************)
(* Proofs about Messages.tla, for every number of values of a byte, every  *)
(* size of the buffers, all fields and all keys: the integers and strings  *)
(* of packet.hh, the checksum, XTEA, and packet_wrap and packet_unwrap.    *)
(***************************************************************************)
EXTENDS Messages, Buffers_proofs

-----------------------------------------------------------------------------
(***************************************************************************)
(* The checksum.                                                           *)
(***************************************************************************)
Sums == [a : Nat, b : Nat]

LEMMA ChecksumConstants ==
  /\ ADLER32_BASE \in Nat \ {0} /\ ADLER32_BASE > 1
  /\ ADLER32_BASE >= ByteBase /\ ADLER32_BASE <= Half
  /\ ADLER32_NMAX \in Nat \ {0}
BY Bases, CryptoAssumption

LEMMA SumsAdded ==
  ASSUME NEW s \in Sums, NEW byte \in Octet
  PROVE  /\ AddByte(s, byte) \in Sums /\ Reduced(s) \in Sums
         /\ [a |-> s.a + byte, b |-> s.b + s.a + byte] \in Sums
<1>1. s.a \in Nat /\ s.b \in Nat /\ byte \in Nat
  BY Bases DEF Sums, Octet
<1>2. \A x \in Nat : x % Word \in Nat /\ x % ADLER32_BASE \in Nat
  BY Bases, ChecksumConstants
<1>3. (s.a + byte) % Word \in Nat
  BY <1>1, <1>2
<1>4. s.b + ((s.a + byte) % Word) \in Nat
  BY <1>1, <1>3
<1>5. (s.b + ((s.a + byte) % Word)) % Word \in Nat
  BY <1>2, <1>4
<1> QED
  BY <1>1, <1>2, <1>3, <1>5 DEF AddByte, Reduced, Sums

LEMMA AccumulateIs ==
  ASSUME NEW s \in Sums, NEW data \in Seq(Octet)
  PROVE  \E f \in [0 .. Len(data) -> Sums] :
           /\ f[0] = s
           /\ \A i \in 1 .. Len(data) :
                f[i] = IF i % ADLER32_NMAX = 0 \/ i = Len(data)
                       THEN Reduced(AddByte(f[i - 1], data[i]))
                       ELSE AddByte(f[i - 1], data[i])
           /\ Accumulate(s, data) = f[Len(data)]
<1> DEFINE n == Len(data)
           Last(i) == i % ADLER32_NMAX = 0 \/ i = n
           Added(i, t) == IF Last(i) THEN Reduced(AddByte(t, data[i])) ELSE AddByte(t, data[i])
           step == [i \in 1 .. n |-> [t \in Sums |-> Added(i, t)]]
           sums[i \in 0 .. n] ==
             IF i = 0 THEN s
             ELSE IF i % ADLER32_NMAX = 0 \/ i = n
             THEN Reduced(AddByte(sums[i - 1], data[i]))
             ELSE AddByte(sums[i - 1], data[i])
<1>1. n \in Nat
  OBVIOUS
<1>2. ASSUME NEW i \in 1 .. n, NEW t \in Sums
      PROVE  Added(i, t) \in Sums
  <2>1. data[i] \in Octet
    OBVIOUS
  <2>2. AddByte(t, data[i]) \in Sums
    BY <2>1, SumsAdded
  <2>3. Reduced(AddByte(t, data[i])) \in Sums
    BY <2>1, <2>2, SumsAdded
  <2> QED
    BY <2>2, <2>3
<1>3. step \in [1 .. n -> [Sums -> Sums]]
  <2> HIDE DEF Added
  <2> QED
    BY <1>2
<1>4. PICK f \in [0 .. n -> Sums] : Iterates(f, n, s, step)
  <2> HIDE DEF step, n
  <2> QED
    BY <1>1, <1>3, RecursionExists
<1>5. ASSUME NEW i \in 1 .. n
      PROVE  f[i] = Added(i, f[i - 1])
  <2>1. f[i - 1] \in Sums /\ f[i] = step[i][f[i - 1]]
    <3> HIDE DEF step, n
    <3>1. i - 1 \in 0 .. n
      BY <1>1
    <3> QED
      BY <1>4, <3>1 DEF Iterates
  <2> HIDE DEF Added
  <2> QED
    BY <2>1
<1>6. f = [i \in 0 .. n |-> IF i = 0 THEN s ELSE Added(i, f[i - 1])]
  <2> HIDE DEF Added
  <2> QED
    BY <1>4, <1>5 DEF Iterates
<1>7. sums = [i \in 0 .. n |-> IF i = 0 THEN s ELSE Added(i, sums[i - 1])]
  BY <1>6
<1>8. Accumulate(s, data) = sums[n]
  BY DEF Accumulate
<1> HIDE DEF sums
<1>9. sums[0] = s /\ \A i \in 1 .. n : sums[i] = Added(i, sums[i - 1])
  <2> HIDE DEF Added
  <2> QED
    BY <1>1, <1>7
<1>10. \A i \in 0 .. n : sums[i] \in Sums
  <2> DEFINE T == {i \in 0 .. n : sums[i] \in Sums}
  <2>1. 0 \in T
    BY <1>1, <1>9
  <2>2. ASSUME NEW i \in 1 .. n, i - 1 \in T
        PROVE  i \in T
    <3> HIDE DEF Added
    <3>1. sums[i - 1] \in Sums
      BY <2>2
    <3>2. sums[i] \in Sums
      BY <1>2, <1>9, <3>1
    <3> QED
      BY <1>1, <3>2
  <2> HIDE DEF T, n
  <2>3. \A i \in 0 .. n : i \in T
    BY <1>1, <2>1, <2>2, UpTo
  <2> QED
    BY <2>3 DEF T
<1>11. sums \in [0 .. n -> Sums]
  <2> HIDE DEF Added
  <2> QED
    BY <1>7, <1>10
<1> QED
  BY <1>8, <1>9, <1>11

LEMMA SumsOfIs ==
  ASSUME NEW data \in Seq(Octet)
  PROVE  \E f \in [0 .. Len(data) -> Sums] :
           /\ f[0] = [a |-> 1, b |-> 0]
           /\ \A i \in 1 .. Len(data) :
                f[i] = [a |-> f[i - 1].a + data[i], b |-> f[i - 1].b + f[i - 1].a + data[i]]
           /\ SumsOf(data) = f[Len(data)]
<1> DEFINE n == Len(data)
           s == [a |-> 1, b |-> 0]
           Added(i, t) == [a |-> t.a + data[i], b |-> t.b + t.a + data[i]]
           step == [i \in 1 .. n |-> [t \in Sums |-> Added(i, t)]]
           sums[i \in 0 .. n] ==
             IF i = 0 THEN [a |-> 1, b |-> 0]
             ELSE LET last == sums[i - 1]
                  IN  [a |-> last.a + data[i], b |-> last.b + last.a + data[i]]
<1>1. n \in Nat
  OBVIOUS
<1>2. ASSUME NEW i \in 1 .. n, NEW t \in Sums
      PROVE  Added(i, t) \in Sums
  BY SumsAdded
<1>3. step \in [1 .. n -> [Sums -> Sums]]
  <2> HIDE DEF Added
  <2> QED
    BY <1>2
<1>4. PICK f \in [0 .. n -> Sums] : Iterates(f, n, s, step)
  <2>1. s \in Sums
    BY DEF Sums
  <2> HIDE DEF step, n, s
  <2> QED
    BY <1>1, <1>3, <2>1, RecursionExists
<1>5. ASSUME NEW i \in 1 .. n
      PROVE  f[i] = Added(i, f[i - 1])
  <2>1. f[i - 1] \in Sums /\ f[i] = step[i][f[i - 1]]
    <3> HIDE DEF step, n
    <3>1. i - 1 \in 0 .. n
      BY <1>1
    <3> QED
      BY <1>4, <3>1 DEF Iterates
  <2> HIDE DEF Added
  <2> QED
    BY <2>1
<1>6. f = [i \in 0 .. n |-> IF i = 0 THEN s ELSE Added(i, f[i - 1])]
  <2> HIDE DEF Added
  <2> QED
    BY <1>4, <1>5 DEF Iterates
<1>7. sums = [i \in 0 .. n |-> IF i = 0 THEN s ELSE Added(i, sums[i - 1])]
  BY <1>6
<1>8. SumsOf(data) = sums[n]
  BY DEF SumsOf
<1> HIDE DEF sums
<1>9. sums[0] = s /\ \A i \in 1 .. n : sums[i] = Added(i, sums[i - 1])
  <2> HIDE DEF Added
  <2> QED
    BY SMTT(40), <1>1, <1>7
<1>10. \A i \in 0 .. n : sums[i] \in Sums
  <2> DEFINE T == {i \in 0 .. n : sums[i] \in Sums}
  <2>1. 0 \in T
    BY <1>1, <1>9 DEF Sums
  <2>2. ASSUME NEW i \in 1 .. n, i - 1 \in T
        PROVE  i \in T
    <3> HIDE DEF Added
    <3>1. sums[i - 1] \in Sums
      BY <2>2
    <3>2. sums[i] \in Sums
      BY <1>2, <1>9, <3>1
    <3> QED
      BY <1>1, <3>2
  <2> HIDE DEF T, n
  <2>3. \A i \in 0 .. n : i \in T
    BY <1>1, <2>1, <2>2, UpTo
  <2> QED
    BY <2>3 DEF T
<1>11. sums \in [0 .. n -> Sums]
  <2> HIDE DEF Added
  <2> QED
    BY <1>7, <1>10
<1> QED
  BY <1>8, <1>9, <1>11

(* What a and b are at most, k bytes after they were last reduced.         *)
Bounded(s, k) ==
  /\ s.a <= (ADLER32_BASE - 1) + (ByteBase - 1) * k
  /\ 2 * s.b <= 2 * ((k + 1) * (ADLER32_BASE - 1)) + (ByteBase - 1) * (k * (k + 1))

LEMMA ReducedBounded ==
  ASSUME NEW s \in Sums, NEW k \in Nat
  PROVE  Bounded(Reduced(s), k)
<1> DEFINE base == ADLER32_BASE - 1
           byte == ByteBase - 1
           c == Reduced(s)
<1>1. base \in Nat /\ byte \in Nat
  BY Bases, ChecksumConstants
<1>2. c.a \in 0 .. base /\ c.b \in 0 .. base
  BY ChecksumConstants DEF Reduced, Sums
<1> HIDE DEF base, byte, c
<1>3. byte * k \in Nat /\ k * (k + 1) \in Nat
  BY <1>1
<1>4. byte * (k * (k + 1)) \in Nat
  BY <1>1, <1>3
<1>5. (k + 1) * base = k * base + base /\ k * base \in Nat
  BY <1>1
<1>6. c.a <= base + byte * k
  BY <1>1, <1>2, <1>3
<1>7. 2 * c.b <= 2 * ((k + 1) * base) + byte * (k * (k + 1))
  <2> DEFINE x == k * base
             y == byte * (k * (k + 1))
             z == (k + 1) * base
  <2>1. x \in Nat /\ y \in Nat /\ z = x + base
    BY <1>4, <1>5
  <2> HIDE DEF x, y, z
  <2>2. 2 * c.b <= 2 * z + y
    BY <1>1, <1>2, <2>1
  <2> QED
    BY <2>2 DEF y, z
<1> QED
  BY <1>6, <1>7 DEF Bounded, base, byte, c

(* One more byte does not wrap a word.                                     *)
LEMMA AddedBounded ==
  ASSUME NEW s \in Sums, NEW byte \in Octet, NEW k \in 1 .. ADLER32_NMAX,
         Bounded(s, k - 1)
  PROVE  /\ AddByte(s, byte) = [a |-> s.a + byte, b |-> s.b + s.a + byte]
         /\ Bounded(AddByte(s, byte), k)
<1> DEFINE N == ADLER32_NMAX
           base == ADLER32_BASE - 1
           top == ByteBase - 1
           A == s.a + byte
           B == s.b + A
<1>1. base \in Nat /\ top \in Nat /\ byte \in Nat /\ byte <= top
  BY Bases, ChecksumConstants DEF Octet
<1>2. k \in Nat /\ N \in Nat /\ k <= N /\ k - 1 \in Nat
  BY ChecksumConstants
<1>3. s.a \in Nat /\ s.b \in Nat
  BY DEF Sums
<1>4. A \in Nat /\ B \in Nat /\ A <= B
  BY <1>1, <1>3
<1>5. /\ s.a <= base + top * (k - 1)
      /\ 2 * s.b <= 2 * (k * base) + top * ((k - 1) * k)
  BY <1>2 DEF Bounded
<1>6. top * (N * (N + 1)) + 2 * ((N + 1) * base) < 2 * Word
  BY CryptoAssumption
<1> HIDE DEF N, base, top
<1>7. A <= base + top * k
  <2>1. top * k = top * (k - 1) + top /\ top * (k - 1) \in Nat
    BY <1>1, <1>2
  <2> DEFINE x == top * (k - 1)
             y == top * k
  <2>2. x \in Nat /\ y = x + top /\ s.a <= base + x
    BY <1>5, <2>1
  <2> HIDE DEF x, y
  <2>3. A <= base + y
    BY <1>1, <1>3, <2>2
  <2> QED
    BY <2>3 DEF y
<1>8. 2 * B <= 2 * ((k + 1) * base) + top * (k * (k + 1))
  <2> DEFINE u == k * base
             v == top * ((k - 1) * k)
             w == top * k
             x == (k + 1) * base
             y == top * (k * (k + 1))
  <2>1. (k + 1) * base = k * base + base /\ k * base \in Nat
    BY <1>1, <1>2
  <2>2. k * (k + 1) = (k - 1) * k + 2 * k /\ (k - 1) * k \in Nat
    BY <1>2
  <2>3. top * (k * (k + 1)) = top * ((k - 1) * k) + 2 * (top * k)
    <3> DEFINE z == (k - 1) * k
    <3>1. z \in Nat /\ k * (k + 1) = z + 2 * k
      BY <2>2
    <3> HIDE DEF z
    <3>2. top * (z + 2 * k) = top * z + 2 * (top * k)
      BY <1>1, <1>2, <3>1
    <3> QED
      BY <3>1, <3>2 DEF z
  <2>4. w \in Nat /\ v \in Nat
    BY <1>1, <1>2, <2>2
  <2>5. u \in Nat /\ x = u + base /\ y = v + 2 * w /\ A <= base + w /\ 2 * s.b <= 2 * u + v
    BY <1>5, <1>7, <2>1, <2>3
  <2> HIDE DEF u, v, w, x, y, A
  <2>6. 2 * B <= 2 * x + y
    BY <1>1, <1>3, <1>4, <2>4, <2>5
  <2> QED
    BY <2>6 DEF x, y
<1>9. B < Word
  <2> DEFINE x == (k + 1) * base
             y == top * (k * (k + 1))
             xx == (N + 1) * base
             yy == top * (N * (N + 1))
  <2>1. x \in Nat /\ xx \in Nat /\ x <= xx
    <3>1. base * (k + 1) <= base * (N + 1)
      BY <1>1, <1>2, TimesMonotone
    <3> QED
      BY <1>1, <1>2, <3>1
  <2>2. k * (k + 1) \in Nat /\ N * (N + 1) \in Nat /\ k * (k + 1) <= N * (N + 1)
    <3>1. (k + 1) * k <= (k + 1) * N
      BY <1>2, TimesMonotone
    <3>2. N * (k + 1) <= N * (N + 1)
      BY <1>2, TimesMonotone
    <3> DEFINE x1 == k * (k + 1)
               x2 == N * (k + 1)
               x3 == N * (N + 1)
    <3>3. x1 \in Nat /\ x2 \in Nat /\ x3 \in Nat /\ x1 = (k + 1) * k /\ x2 = (k + 1) * N
      BY <1>2
    <3> QED
      BY <3>1, <3>2, <3>3
  <2>3. y \in Nat /\ yy \in Nat /\ y <= yy
    <3> DEFINE x1 == k * (k + 1)
               x3 == N * (N + 1)
    <3>1. x1 \in Nat /\ x3 \in Nat /\ x1 <= x3
      BY <2>2
    <3> HIDE DEF x1, x3
    <3>2. top * x1 <= top * x3 /\ top * x1 \in Nat /\ top * x3 \in Nat
      BY <1>1, <3>1, TimesMonotone
    <3> QED
      BY <3>2 DEF x1, x3
  <2>4. yy + 2 * xx < 2 * Word /\ 2 * B <= 2 * x + y
    BY <1>6, <1>8
  <2> HIDE DEF x, y, xx, yy, B
  <2> QED
    BY <1>4, <2>1, <2>3, <2>4, Bases
<1>10. A % Word = A /\ B % Word = B
  BY <1>4, <1>9, Bases
<1>11. AddByte(s, byte) = [a |-> A, b |-> B]
  BY <1>10 DEF AddByte
<1>12. B = s.b + s.a + byte
  BY <1>1, <1>3
<1>13. Bounded([a |-> A, b |-> B], k)
  <2> HIDE DEF A, B
  <2> QED
    BY <1>7, <1>8 DEF Bounded, base, top
<1> QED
  BY <1>11, <1>12, <1>13

(* The same sums modulo BASE.                                              *)
Agree(s, t) == Reduced(s) = Reduced(t)

LEMMA AgreeAdded ==
  ASSUME NEW s \in Sums, NEW t \in Sums, NEW byte \in Octet, Agree(s, t)
  PROVE  Agree([a |-> s.a + byte, b |-> s.b + s.a + byte],
               [a |-> t.a + byte, b |-> t.b + t.a + byte])
<1> DEFINE m == ADLER32_BASE
<1>1. m \in Nat \ {0} /\ byte \in Int
  BY ChecksumConstants, Bases DEF Octet
<1>2. s.a \in Int /\ s.b \in Int /\ t.a \in Int /\ t.b \in Int
  BY DEF Sums
<1>3. s.a % m = t.a % m /\ s.b % m = t.b % m
  BY DEF Agree, Reduced
<1> HIDE DEF m
<1>4. PICK d \in Int : s.a - t.a = m * d
  BY <1>1, <1>2, <1>3, Congruent
<1>5. PICK e \in Int : s.b - t.b = m * e
  BY <1>1, <1>2, <1>3, Congruent
<1> DEFINE A == s.a + byte
           B == s.b + s.a + byte
           AA == t.a + byte
           BB == t.b + t.a + byte
           c == d + e
<1>6. A \in Int /\ B \in Int /\ AA \in Int /\ BB \in Int /\ c \in Int
  BY <1>1, <1>2
<1>7. A - AA = m * d
  BY <1>1, <1>2, <1>4
<1>8. B - BB = m * c
  <2>1. m * (d + e) = m * d + m * e
    BY <1>1
  <2>2. B - BB = (s.a - t.a) + (s.b - t.b)
    BY <1>1, <1>2
  <2> HIDE DEF B, BB
  <2> QED
    BY <1>4, <1>5, <2>1, <2>2
<1> HIDE DEF A, B, AA, BB, c
<1>9. A % m = AA % m /\ B % m = BB % m
  BY <1>1, <1>6, <1>7, <1>8, Congruent
<1> QED
  BY <1>9 DEF Agree, Reduced, A, B, AA, BB, m

LEMMA AgreeReduced ==
  ASSUME NEW s \in Sums
  PROVE  Reduced(Reduced(s)) = Reduced(s)
<1>1. s.a \in Int /\ s.b \in Int
  BY DEF Sums
<1>2. (s.a % ADLER32_BASE) % ADLER32_BASE = s.a % ADLER32_BASE
  BY <1>1, ChecksumConstants, RestOfRest
<1>3. (s.b % ADLER32_BASE) % ADLER32_BASE = s.b % ADLER32_BASE
  BY <1>1, ChecksumConstants, RestOfRest
<1> QED
  BY <1>2, <1>3 DEF Reduced

(* adler32: the words are the sums, reduced, however long the data.        *)
LEMMA AccumulatedSums ==
  ASSUME NEW data \in Seq(Octet)
  PROVE  Accumulate([a |-> 1, b |-> 0], data) = Reduced(SumsOf(data))
<1> DEFINE n == Len(data)
           s == [a |-> 1, b |-> 0]
           N == ADLER32_NMAX
<1>1. n \in Nat /\ N \in Nat \ {0} /\ s \in Sums
  BY ChecksumConstants DEF Sums
<1>2. \A i \in 1 .. n : data[i] \in Octet
  OBVIOUS
<1>3. PICK f \in [0 .. n -> Sums] :
        /\ f[0] = s
        /\ \A i \in 1 .. n :
             f[i] = IF i % N = 0 \/ i = n
                    THEN Reduced(AddByte(f[i - 1], data[i]))
                    ELSE AddByte(f[i - 1], data[i])
        /\ Accumulate(s, data) = f[n]
  BY <1>1, AccumulateIs
<1>4. PICK g \in [0 .. n -> Sums] :
        /\ g[0] = s
        /\ \A i \in 1 .. n :
             g[i] = [a |-> g[i - 1].a + data[i], b |-> g[i - 1].b + g[i - 1].a + data[i]]
        /\ SumsOf(data) = g[n]
  BY SumsOfIs
<1>5. Reduced(s) = s
  <2>1. 1 \in 0 .. ADLER32_BASE - 1 /\ 0 \in 0 .. ADLER32_BASE - 1
    BY ChecksumConstants
  <2>2. 1 % ADLER32_BASE = 1 /\ 0 % ADLER32_BASE = 0
    BY <2>1, ChecksumConstants
  <2> QED
    BY <2>2 DEF Reduced
<1> HIDE DEF n, s
<1> DEFINE T == {i \in 0 .. n : Bounded(f[i], i % N) /\ Agree(f[i], g[i])}
<1>6. 0 \in T
  <2>1. 0 % N = 0
    BY <1>1
  <2>2. Bounded(Reduced(s), 0)
    BY <1>1, ReducedBounded
  <2> QED
    BY <1>1, <1>3, <1>4, <1>5, <2>1, <2>2 DEF Agree
<1>7. ASSUME NEW i \in 1 .. n, i - 1 \in T
      PROVE  i \in T
  <2> DEFINE k == ((i - 1) % N) + 1
             h == AddByte(f[i - 1], data[i])
  <2>1. f[i - 1] \in Sums /\ g[i - 1] \in Sums /\ data[i] \in Octet
    BY <1>1, <1>2
  <2>2. k \in 1 .. N /\ Bounded(f[i - 1], k - 1) /\ Agree(f[i - 1], g[i - 1])
    <3>1. i - 1 \in Int
      BY <1>1
    <3>2. (i - 1) % N \in 0 .. N - 1
      BY <1>1, <3>1, Divided
    <3>3. k - 1 = (i - 1) % N
      BY <3>2
    <3> QED
      BY <1>1, <1>7, <3>2, <3>3
  <2>3. k = i % N \/ (k = N /\ i % N = 0)
    <3> DEFINE q == (i - 1) \div N
               r == (i - 1) % N
    <3>1. i - 1 \in Int
      BY <1>1
    <3>2. q \in Int /\ r \in 0 .. N - 1 /\ i - 1 = N * q + r
      BY <1>1, <3>1, Divided
    <3> HIDE DEF q, r, N
    <3>3. CASE r < N - 1
      <4>1. r + 1 \in 0 .. N - 1 /\ i = N * q + (r + 1)
        BY <1>1, <3>2, <3>3
      <4>2. i % N = r + 1
        BY <1>1, <3>2, <4>1, QuotientAndRest
      <4> QED
        BY <4>2 DEF r
    <3>4. CASE r = N - 1
      <4>1. N * (q + 1) = N * q + N
        BY <1>1, <3>2
      <4>2. i = N * (q + 1) + 0 /\ q + 1 \in Int /\ 0 \in 0 .. N - 1
        BY <1>1, <3>2, <3>4, <4>1
      <4>3. i % N = 0
        BY <1>1, <4>2, QuotientAndRest
      <4>4. k = N
        BY <1>1, <3>4 DEF r
      <4> QED
        BY <4>3, <4>4
    <3> QED
      BY <1>1, <3>2, <3>3, <3>4
  <2> HIDE DEF k, N
  <2>4. /\ h = [a |-> f[i - 1].a + data[i], b |-> f[i - 1].b + f[i - 1].a + data[i]]
        /\ Bounded(h, k)
    BY <2>1, <2>2, AddedBounded DEF N
  <2>5. h \in Sums
    BY <2>1, SumsAdded
  <2>6. Agree(h, g[i])
    BY <1>4, <2>1, <2>2, <2>4, AgreeAdded
  <2> HIDE DEF h
  <2>7. CASE i % N = 0 \/ i = n
    <3>1. f[i] = Reduced(h)
      BY <1>3, <2>7 DEF h
    <3>2. i % N \in Nat
      BY <1>1
    <3>3. Bounded(f[i], i % N)
      BY <2>5, <3>1, <3>2, ReducedBounded
    <3>4. Agree(f[i], g[i])
      BY <2>5, <2>6, <3>1, AgreeReduced DEF Agree
    <3> QED
      BY <1>1, <3>3, <3>4
  <2>8. CASE ~(i % N = 0 \/ i = n)
    <3>1. f[i] = h
      BY <1>3, <2>8 DEF h
    <3> QED
      BY <1>1, <2>3, <2>4, <2>6, <2>8, <3>1
  <2> QED
    BY <2>7, <2>8
<1> HIDE DEF T
<1>8. \A i \in 0 .. n : i \in T
  BY <1>1, <1>6, <1>7, UpTo
<1>9. Agree(f[n], g[n])
  BY <1>1, <1>8 DEF T
<1>10. CASE n = 0
  BY <1>3, <1>4, <1>5, <1>10 DEF s
<1>11. CASE n # 0
  <2>1. n \in 1 .. n
    BY <1>1, <1>11
  <2>2. f[n] = Reduced(AddByte(f[n - 1], data[n]))
    BY <1>3, <2>1
  <2>3. f[n - 1] \in Sums /\ data[n] \in Octet
    BY <1>1, <1>2, <2>1
  <2>4. AddByte(f[n - 1], data[n]) \in Sums
    BY <2>3, SumsAdded
  <2>5. Reduced(f[n]) = f[n]
    BY <2>2, <2>4, AgreeReduced
  <2> QED
    BY <1>3, <1>4, <1>9, <2>5 DEF Agree, s
<1> QED
  BY <1>10, <1>11

LEMMA ChecksumRight ==
  ASSUME NEW data \in Seq(Octet)
  PROVE  Adler32(data) = ChecksumOf(data)
<1> DEFINE t == SumsOf(data)
<1>1. Adler32(data) = Reduced(t).a + Half * Reduced(t).b
  BY AccumulatedSums DEF Adler32
<1>2. ChecksumOf(data) = (t.a % ADLER32_BASE) + Half * (t.b % ADLER32_BASE)
  BY DEF ChecksumOf
<1> HIDE DEF t
<1>3. Reduced(t).a = t.a % ADLER32_BASE /\ Reduced(t).b = t.b % ADLER32_BASE
  BY DEF Reduced
<1> QED
  BY <1>1, <1>2, <1>3

LEMMA ChecksumFits ==
  ASSUME NEW data \in Seq(Octet)
  PROVE  /\ SumsOf(data) \in Sums
         /\ Adler32(data) \in 0 .. Word - 1
         /\ Adler32(data) % Half = SumsOf(data).a % ADLER32_BASE
<1>1. SumsOf(data) \in Sums
  <2>1. Len(data) \in 0 .. Len(data)
    OBVIOUS
  <2> QED
    BY <2>1, SumsOfIs
<1> DEFINE a == SumsOf(data).a % ADLER32_BASE
           b == SumsOf(data).b % ADLER32_BASE
<1>2. a \in 0 .. ADLER32_BASE - 1 /\ b \in 0 .. ADLER32_BASE - 1
  BY <1>1, ChecksumConstants DEF Sums
<1>3. a \in 0 .. Half - 1 /\ b \in 0 .. Half - 1
  BY <1>2, Bases, ChecksumConstants
<1>4. Adler32(data) = a + Half * b
  BY ChecksumRight DEF ChecksumOf
<1> HIDE DEF a, b
<1>5. Adler32(data) = Half * b + a /\ Half * b \in Nat
  BY <1>3, <1>4, Bases
<1>6. Adler32(data) % Half = a
  <2>1. Adler32(data) \in Int /\ a \in Int /\ b \in Int /\ Adler32(data) - a = Half * b
    BY <1>3, <1>5, Bases
  <2>2. Adler32(data) % Half = a % Half
    BY ZenonT(40), <2>1, Bases, Congruent
  <2> QED
    BY <1>3, <2>2, Bases, SmallRest
<1>7. Half * (b + 1) <= Half * Half
  BY <1>3, Bases, TimesMonotone
<1>8. Half * (b + 1) = Half * b + Half /\ Half * Half = Word
  BY <1>3, Bases DEF Word
<1>9. Half * b + a < Word
  <2> DEFINE x == Half * b
  <2>1. x \in Nat /\ x + Half <= Word
    BY <1>5, <1>7, <1>8
  <2> HIDE DEF x
  <2>2. x + a < Word
    BY <1>3, <2>1, Bases
  <2> QED
    BY <2>2 DEF x
<1>10. Adler32(data) \in 0 .. Word - 1
  BY <1>3, <1>5, <1>9, Bases
<1> QED
  BY <1>1, <1>6, <1>10 DEF a

(* adler32: data with a single byte changed have another checksum, however *)
(* long they are.                                                          *)
THEOREM ChecksumTells ==
  ASSUME NEW data \in Seq(Octet), NEW i \in 1 .. Len(data), NEW byte \in Octet,
         byte # data[i]
  PROVE  Adler32([data EXCEPT ![i] = byte]) # Adler32(data)
<1> DEFINE n == Len(data)
           other == [data EXCEPT ![i] = byte]
           d == byte - data[i]
<1>1. other \in Seq(Octet) /\ Len(other) = n
  OBVIOUS
<1>2. \A j \in 1 .. n : data[j] \in Octet /\ other[j] = IF j = i THEN byte ELSE data[j]
  OBVIOUS
<1>3. PICK f \in [0 .. n -> Sums] :
        /\ f[0] = [a |-> 1, b |-> 0]
        /\ \A j \in 1 .. n :
             f[j] = [a |-> f[j - 1].a + data[j], b |-> f[j - 1].b + f[j - 1].a + data[j]]
        /\ SumsOf(data) = f[n]
  BY SumsOfIs
<1>4. PICK g \in [0 .. n -> Sums] :
        /\ g[0] = [a |-> 1, b |-> 0]
        /\ \A j \in 1 .. n :
             g[j] = [a |-> g[j - 1].a + other[j], b |-> g[j - 1].b + g[j - 1].a + other[j]]
        /\ SumsOf(other) = g[n]
  <2> HIDE DEF other, n
  <2> QED
    BY <1>1, SumsOfIs
<1>5. n \in Nat /\ i \in 1 .. n
  OBVIOUS
<1>6. byte \in Int /\ data[i] \in Int /\ d \in Int /\ d # 0 /\ - ByteBase < d /\ d < ByteBase
  BY SMTT(40), <1>2, Bases DEF Octet
<1> HIDE DEF n, other, d
<1> DEFINE T == {j \in 0 .. n : g[j].a = f[j].a + (IF j < i THEN 0 ELSE d)}
<1>7. 0 \in T
  BY <1>3, <1>4, <1>5
<1>8. ASSUME NEW j \in 1 .. n, j - 1 \in T
      PROVE  j \in T
  <2>1. g[j - 1].a = f[j - 1].a + (IF j - 1 < i THEN 0 ELSE d)
    BY <1>8
  <2>2. g[j].a = g[j - 1].a + other[j] /\ f[j].a = f[j - 1].a + data[j]
    <3>1. g[j] = [a |-> g[j - 1].a + other[j], b |-> g[j - 1].b + g[j - 1].a + other[j]]
      BY <1>4
    <3>2. f[j] = [a |-> f[j - 1].a + data[j], b |-> f[j - 1].b + f[j - 1].a + data[j]]
      BY <1>3
    <3> QED
      BY <3>1, <3>2
  <2>3. f[j - 1].a \in Int /\ data[j] \in Int
    <3>1. f[j - 1] \in Sums /\ data[j] \in Octet
      BY <1>2, <1>5
    <3> QED
      BY <3>1, Bases DEF Sums, Octet
  <2>4. g[j].a = f[j].a + (IF j < i THEN 0 ELSE d)
    BY SMTT(40), <1>2, <1>5, <1>6, <2>1, <2>2, <2>3 DEF d
  <2> QED
    BY <2>4
<1> HIDE DEF T
<1>9. \A j \in 0 .. n : j \in T
  BY <1>5, <1>7, <1>8, UpTo
<1>10. g[n].a = f[n].a + d
  BY <1>5, <1>9 DEF T
<1>11. g[n].a \in Int /\ f[n].a \in Int
  BY SMTT(40), <1>5 DEF Sums
<1>12. g[n].a % ADLER32_BASE # f[n].a % ADLER32_BASE
  <2> SUFFICES ASSUME g[n].a % ADLER32_BASE = f[n].a % ADLER32_BASE PROVE FALSE
    OBVIOUS
  <2>1. PICK e \in Int : g[n].a - f[n].a = ADLER32_BASE * e
    BY <1>11, ChecksumConstants, Congruent
  <2>2. d = ADLER32_BASE * e
    BY <1>6, <1>10, <1>11, <2>1
  <2>3. - ADLER32_BASE < ADLER32_BASE * e /\ ADLER32_BASE * e < ADLER32_BASE
    BY <1>6, <2>2, Bases, ChecksumConstants
  <2>4. e = 0
    BY <2>3, ChecksumConstants, SmallMultiple
  <2> QED
    BY <1>6, <2>2, <2>4, ChecksumConstants
<1> QED
  BY <1>1, <1>3, <1>4, <1>12, ChecksumFits DEF other

-----------------------------------------------------------------------------
(***************************************************************************)
(* XTEA.                                                                   *)
(***************************************************************************)
Words == 0 .. Word - 1

(* The recursion of Xor goes down to smaller words.                        *)
LEMMA Halved ==
  ASSUME NEW n \in Nat, NEW p \in (0 .. n) \X (0 .. n), p # <<0, 0>>
  PROVE  /\ n >= 1
         /\ <<p[1] \div 2, p[2] \div 2>> \in (0 .. n - 1) \X (0 .. n - 1)
<1>1. p[1] \in 0 .. n /\ p[2] \in 0 .. n /\ p = <<p[1], p[2]>>
  OBVIOUS
<1>2. p[1] # 0 \/ p[2] # 0
  BY <1>1
<1>3. n >= 1
  BY <1>1, <1>2
<1>4. p[1] \div 2 \in 0 .. n - 1 /\ p[2] \div 2 \in 0 .. n - 1
  BY <1>1, <1>3
<1> QED
  BY <1>3, <1>4

LEMMA XorIsInteger ==
  ASSUME NEW x \in Words, NEW y \in Words
  PROVE  Xor(x, y) \in Nat
<1> DEFINE Square(n) == (0 .. n) \X (0 .. n)
           Half2(p) == <<p[1] \div 2, p[2] \div 2>>
           Bit(p) == (p[1] + p[2]) % 2
           Body(f, p) == IF p = <<0, 0>> THEN 0 ELSE Bit(p) + 2 * f[Half2(p)]
           Table(n, f) == \A p \in Square(n) : f[p] = Body(f, p)
           Has(n) == \E f \in [Square(n) -> Nat] : Table(n, f)
           xor[p \in (0 .. Word - 1) \X (0 .. Word - 1)] ==
             IF p = <<0, 0>> THEN 0
             ELSE ((p[1] + p[2]) % 2) + 2 * xor[<<p[1] \div 2, p[2] \div 2>>]
           N == Word - 1
<1>1. N \in Nat
  BY Bases
<1>2. \A n \in Nat : \A p \in Square(n) : Bit(p) \in Nat
  <2> SUFFICES ASSUME NEW n \in Nat, NEW p \in Square(n) PROVE Bit(p) \in Nat
    OBVIOUS
  <2>1. p[1] + p[2] \in Nat
    OBVIOUS
  <2> QED
    BY <2>1
<1>3. \A n \in Nat : \A p \in Square(n) : p # <<0, 0>> => n >= 1 /\ Half2(p) \in Square(n - 1)
  BY Halved
<1>4. Has(0)
  <2> DEFINE f == [p \in Square(0) |-> 0]
  <2>1. \A p \in Square(0) : p = <<0, 0>>
    OBVIOUS
  <2>2. f \in [Square(0) -> Nat]
    OBVIOUS
  <2>3. \A p \in Square(0) : f[p] = 0
    OBVIOUS
  <2> HIDE DEF f, Half2, Bit
  <2>4. Table(0, f)
    BY <2>1, <2>3
  <2> HIDE DEF Table
  <2> QED
    BY <2>2, <2>4
<1>5. ASSUME NEW n \in 1 .. N, Has(n - 1)
      PROVE  Has(n)
  <2>1. PICK f \in [Square(n - 1) -> Nat] : Table(n - 1, f)
    BY <1>5
  <2> DEFINE g == [p \in Square(n) |->
                    IF p \in Square(n - 1) THEN f[p] ELSE Bit(p) + 2 * f[Half2(p)]]
  <2>2. n \in Nat /\ n - 1 \in Nat
    BY <1>1
  <2>3. Square(n - 1) \subseteq Square(n) /\ <<0, 0>> \in Square(n - 1)
    BY <2>2
  <2> HIDE DEF Half2, Bit, Square
  <2>4. ASSUME NEW p \in Square(n), p # <<0, 0>>
        PROVE  Half2(p) \in Square(n - 1) /\ f[Half2(p)] \in Nat
    BY <1>3, <2>1, <2>2, <2>4
  <2>5. g \in [Square(n) -> Nat]
    <3> SUFFICES ASSUME NEW p \in Square(n) PROVE g[p] \in Nat
      OBVIOUS
    <3>1. CASE p \in Square(n - 1)
      BY <2>1, <3>1
    <3>2. CASE p \notin Square(n - 1)
      <4>1. p # <<0, 0>>
        BY <2>3, <3>2
      <4>2. Bit(p) \in Nat /\ f[Half2(p)] \in Nat
        BY <1>2, <2>2, <2>4, <4>1
      <4> QED
        BY <3>2, <4>2
    <3> QED
      BY <3>1, <3>2
  <2>6. ASSUME NEW p \in Square(n)
        PROVE  g[p] = Body(g, p)
    <3>1. p # <<0, 0>> => g[Half2(p)] = f[Half2(p)]
      BY <2>3, <2>4
    <3>2. CASE p \in Square(n - 1)
      <4>1. g[p] = Body(f, p)
        BY <2>1, <2>3, <3>2
      <4> QED
        BY <3>1, <4>1
    <3>3. CASE p \notin Square(n - 1)
      <4>1. p # <<0, 0>>
        BY <2>3, <3>3
      <4>2. g[p] = Bit(p) + 2 * f[Half2(p)]
        BY <3>3
      <4> QED
        BY <3>1, <4>1, <4>2
    <3> QED
      BY <3>2, <3>3
  <2>7. Table(n, g)
    <3> HIDE DEF g, Body
    <3> QED
      BY <2>6
  <2> HIDE DEF Table, g
  <2> QED
    BY <2>5, <2>7
<1> HIDE DEF Has
<1>6. Has(N)
  <2> DEFINE T == {n \in 0 .. N : Has(n)}
  <2>1. 0 \in T /\ \A n \in 1 .. N : n - 1 \in T => n \in T
    BY <1>1, <1>4, <1>5
  <2> HIDE DEF T, N
  <2>2. \A n \in 0 .. N : n \in T
    BY <1>1, <2>1, UpTo
  <2> QED
    BY <1>1, <2>2 DEF T
<1>7. PICK f \in [Square(N) -> Nat] : Table(N, f)
  BY <1>6 DEF Has
<1>8. f = [p \in Square(N) |-> Body(f, p)]
  <2> HIDE DEF Body
  <2> QED
    BY <1>7
<1>9. xor = [p \in Square(N) |-> Body(xor, p)]
  BY <1>8
<1>10. Xor(x, y) = xor[<<x, y>>]
  BY DEF Xor
<1> HIDE DEF xor
<1>11. \A p \in Square(N) : xor[p] = Body(xor, p)
  <2> HIDE DEF Body
  <2> QED
    BY <1>9
<1> DEFINE T == {n \in 0 .. N : \A p \in Square(n) : xor[p] \in Nat}
<1>12. \A n \in 0 .. N : Square(n) \subseteq Square(N)
  BY <1>1
<1> HIDE DEF Half2, Bit
<1>13. 0 \in T
  <2>1. \A p \in Square(0) : p = <<0, 0>>
    OBVIOUS
  <2>2. \A p \in Square(0) : xor[p] = 0
    BY <1>1, <1>11, <1>12, <2>1
  <2> QED
    BY <1>1, <2>2
<1> HIDE DEF Square
<1>14. ASSUME NEW n \in 1 .. N, n - 1 \in T
       PROVE  n \in T
  <2> SUFFICES ASSUME NEW p \in Square(n) PROVE xor[p] \in Nat
    BY <1>1
  <2>1. xor[p] = Body(xor, p)
    BY <1>1, <1>11, <1>12
  <2>2. CASE p = <<0, 0>>
    BY <2>1, <2>2
  <2>3. CASE p # <<0, 0>>
    <3>1. Half2(p) \in Square(n - 1) /\ Bit(p) \in Nat
      BY <1>1, <1>2, <1>3, <2>3
    <3>2. xor[Half2(p)] \in Nat
      BY <1>14, <3>1
    <3> QED
      BY <2>1, <2>3, <3>1, <3>2
  <2> QED
    BY <2>2, <2>3
<1>15. \A n \in 0 .. N : n \in T
  <2> HIDE DEF T, N
  <2> QED
    BY <1>1, <1>13, <1>14, UpTo
<1>16. <<x, y>> \in Square(N)
  BY DEF Words, Square
<1>17. xor[<<x, y>>] \in Nat
  <2>1. N \in T
    BY <1>1, <1>15
  <2> QED
    BY <1>16, <2>1
<1> QED
  BY <1>10, <1>17

(* What the rounds go on: two words and the sum.                           *)
State == [v0 : Words, v1 : Words, sum : Words]

Key4 == [1 .. 4 -> Words]

LEMMA InWords ==
  ASSUME NEW x \in Int
  PROVE  x % Word \in Words
BY Bases, Divided DEF Words

LEMMA MixedIsWord ==
  ASSUME NEW v \in Words
  PROVE  Mixed(v) \in Words
<1>1. v \in Nat /\ v * 16 \in Int /\ v \div 32 \in Words
  BY Bases DEF Words
<1>2. (v * 16) % Word \in Words
  BY <1>1, InWords
<1>3. Xor((v * 16) % Word, v \div 32) \in Nat
  BY <1>1, <1>2, XorIsInteger
<1>4. Xor((v * 16) % Word, v \div 32) + v \in Int
  BY <1>1, <1>3
<1> QED
  BY <1>4, InWords DEF Mixed

LEMMA RoundTerms ==
  ASSUME NEW k \in Key4, NEW sum \in Words, NEW v \in Words
  PROVE  First(k, sum, v) \in Int /\ Second(k, sum, v) \in Int
<1>1. sum \in Nat
  BY Bases DEF Words
<1>2. 1 + (sum % 4) \in 1 .. 4 /\ 1 + ((sum \div 2048) % 4) \in 1 .. 4
  BY <1>1
<1>3. ASSUME NEW i \in 1 .. 4
      PROVE  (sum + k[i]) % Word \in Words
  <2>1. k[i] \in Words
    BY DEF Key4
  <2>2. sum + k[i] \in Int
    BY <1>1, <2>1, Bases DEF Words
  <2> QED
    BY <2>2, InWords
<1>4. \A w \in Words : Xor(Mixed(v), w) \in Int
  BY MixedIsWord, XorIsInteger
<1> QED
  BY <1>2, <1>3, <1>4 DEF First, Second

LEMMA EncodeRoundState ==
  ASSUME NEW k \in Key4, NEW s \in State
  PROVE  EncodeRound(k, s) \in State
<1>1. s.v0 \in Words /\ s.v1 \in Words /\ s.sum \in Words
  BY DEF State
<1>2. \A x \in Words : x \in Int
  BY Bases DEF Words
<1> DEFINE v0 == (s.v0 + First(k, s.sum, s.v1)) % Word
           sum == (s.sum + delta) % Word
           v1 == (s.v1 + Second(k, sum, v0)) % Word
<1>3. v0 \in Words
  <2>1. First(k, s.sum, s.v1) \in Int
    BY <1>1, RoundTerms
  <2>2. s.v0 + First(k, s.sum, s.v1) \in Int
    BY <1>1, <1>2, <2>1
  <2> QED
    BY <2>2, InWords
<1>4. sum \in Words
  <2>1. s.sum + delta \in Int
    BY <1>1, <1>2, Bases, CryptoAssumption
  <2> QED
    BY <2>1, InWords
<1> HIDE DEF v0, sum
<1>5. v1 \in Words
  <2>1. Second(k, sum, v0) \in Int
    BY <1>3, <1>4, RoundTerms
  <2>2. s.v1 + Second(k, sum, v0) \in Int
    BY <1>1, <1>2, <2>1
  <2> QED
    BY <2>2, InWords
<1>6. EncodeRound(k, s) = [v0 |-> v0, v1 |-> v1, sum |-> sum]
  BY DEF EncodeRound, v0, sum
<1> HIDE DEF v1
<1> QED
  BY <1>3, <1>4, <1>5, <1>6 DEF State

LEMMA DecodeRoundState ==
  ASSUME NEW k \in Key4, NEW s \in State
  PROVE  DecodeRound(k, s) \in State
<1>1. s.v0 \in Words /\ s.v1 \in Words /\ s.sum \in Words
  BY DEF State
<1>2. \A x \in Words : x \in Int
  BY Bases DEF Words
<1> DEFINE v1 == (s.v1 - Second(k, s.sum, s.v0)) % Word
           sum == (s.sum - delta) % Word
           v0 == (s.v0 - First(k, sum, v1)) % Word
<1>3. v1 \in Words
  <2>1. Second(k, s.sum, s.v0) \in Int
    BY <1>1, RoundTerms
  <2>2. s.v1 - Second(k, s.sum, s.v0) \in Int
    BY <1>1, <1>2, <2>1
  <2> QED
    BY <2>2, InWords
<1>4. sum \in Words
  <2>1. s.sum - delta \in Int
    BY <1>1, <1>2, Bases, CryptoAssumption
  <2> QED
    BY <2>1, InWords
<1> HIDE DEF v1, sum
<1>5. v0 \in Words
  <2>1. First(k, sum, v1) \in Int
    BY <1>3, <1>4, RoundTerms
  <2>2. s.v0 - First(k, sum, v1) \in Int
    BY <1>1, <1>2, <2>1
  <2> QED
    BY <2>2, InWords
<1>6. DecodeRound(k, s) = [v0 |-> v0, v1 |-> v1, sum |-> sum]
  BY DEF DecodeRound, v1, sum
<1> HIDE DEF v0
<1> QED
  BY <1>3, <1>4, <1>5, <1>6 DEF State

(* A round of decoding takes a round of encoding back.                     *)
LEMMA RoundInverse ==
  ASSUME NEW k \in Key4, NEW s \in State
  PROVE  DecodeRound(k, EncodeRound(k, s)) = s
<1> DEFINE first == First(k, s.sum, s.v1)
           v0 == (s.v0 + first) % Word
           sum == (s.sum + delta) % Word
           second == Second(k, sum, v0)
           v1 == (s.v1 + second) % Word
           e == [v0 |-> v0, v1 |-> v1, sum |-> sum]
<1>1. s.v0 \in 0 .. Word - 1 /\ s.v1 \in 0 .. Word - 1 /\ s.sum \in 0 .. Word - 1
  BY DEF State, Words
<1>2. EncodeRound(k, s) = e
  BY DEF EncodeRound
<1>3. e \in State
  BY <1>2, EncodeRoundState
<1>4. first \in Int /\ second \in Int /\ delta \in Int
  <2>1. first \in Int
    BY RoundTerms DEF State
  <2>2. v0 \in Words /\ sum \in Words
    BY <1>3 DEF State
  <2> HIDE DEF v0, sum
  <2>3. second \in Int
    BY <2>2, RoundTerms
  <2> QED
    BY <2>1, <2>3, Bases, CryptoAssumption
<1> HIDE DEF first
<1>5. (v0 - first) % Word = s.v0
  BY <1>1, <1>4, Bases, AddThenSubtract
<1>6. (sum - delta) % Word = s.sum
  BY <1>1, <1>4, Bases, AddThenSubtract
<1>7. (v1 - second) % Word = s.v1
  <2> HIDE DEF second
  <2> QED
    BY <1>1, <1>4, Bases, AddThenSubtract
<1> HIDE DEF v0, v1, sum
<1>8. DecodeRound(k, e) = [v0 |-> s.v0, v1 |-> s.v1, sum |-> s.sum]
  <2>1. (v1 - Second(k, sum, v0)) % Word = s.v1
    BY <1>7
  <2>2. (v0 - First(k, s.sum, s.v1)) % Word = s.v0
    BY <1>5 DEF first
  <2> HIDE DEF second
  <2> QED
    BY <1>6, <2>1, <2>2 DEF DecodeRound
<1>9. s = [v0 |-> s.v0, v1 |-> s.v1, sum |-> s.sum]
  BY DEF State
<1> QED
  BY <1>2, <1>8, <1>9

LEMMA EncodeRoundsAre ==
  ASSUME NEW k \in Key4, NEW s \in State
  PROVE  \E f \in [0 .. 32 -> State] :
           /\ f[0] = s /\ \A r \in 1 .. 32 : f[r] = EncodeRound(k, f[r - 1])
           /\ EncodeRounds(k, s) = f[32]
<1> DEFINE step == [r \in 1 .. 32 |-> [t \in State |-> EncodeRound(k, t)]]
           after[r \in 0 .. 32] == IF r = 0 THEN s ELSE EncodeRound(k, after[r - 1])
<1>1. \A t \in State : EncodeRound(k, t) \in State
  BY EncodeRoundState
<1>2. step \in [1 .. 32 -> [State -> State]]
  BY <1>1
<1>3. PICK f \in [0 .. 32 -> State] : Iterates(f, 32, s, step)
  <2> HIDE DEF step
  <2> QED
    BY <1>2, RecursionExists
<1>4. ASSUME NEW r \in 1 .. 32
      PROVE  f[r - 1] \in State /\ f[r] = EncodeRound(k, f[r - 1])
  <2>1. f[r - 1] \in State
    OBVIOUS
  <2>2. f[r] = step[r][f[r - 1]]
    BY <1>3 DEF Iterates
  <2> QED
    BY <2>1, <2>2
<1>5. f[0] = s
  BY <1>3 DEF Iterates
<1>6. f = [r \in 0 .. 32 |-> IF r = 0 THEN s ELSE EncodeRound(k, f[r - 1])]
  BY <1>4, <1>5
<1>7. after = [r \in 0 .. 32 |-> IF r = 0 THEN s ELSE EncodeRound(k, after[r - 1])]
  BY <1>6
<1>8. EncodeRounds(k, s) = after[32]
  BY DEF EncodeRounds
<1> HIDE DEF after
<1>9. after[0] = s /\ \A r \in 1 .. 32 : after[r] = EncodeRound(k, after[r - 1])
  BY <1>7
<1> DEFINE T == {r \in 0 .. 32 : after[r] \in State}
<1>10. 0 \in T
  BY <1>9
<1>11. ASSUME NEW r \in 1 .. 32, r - 1 \in T
       PROVE  r \in T
  <2>1. after[r - 1] \in State
    BY <1>11
  <2>2. after[r] \in State
    BY <1>1, <1>9, <2>1
  <2> QED
    BY <2>2
<1> HIDE DEF T
<1>12. \A r \in 0 .. 32 : r \in T
  BY <1>10, <1>11, UpTo
<1>13. after \in [0 .. 32 -> State]
  BY <1>7, <1>12 DEF T
<1> QED
  BY <1>8, <1>9, <1>13

LEMMA DecodeRoundsAre ==
  ASSUME NEW k \in Key4, NEW s \in State
  PROVE  \E f \in [0 .. 32 -> State] :
           /\ f[0] = s /\ \A r \in 1 .. 32 : f[r] = DecodeRound(k, f[r - 1])
           /\ DecodeRounds(k, s) = f[32]
<1> DEFINE step == [r \in 1 .. 32 |-> [t \in State |-> DecodeRound(k, t)]]
           after[r \in 0 .. 32] == IF r = 0 THEN s ELSE DecodeRound(k, after[r - 1])
<1>1. \A t \in State : DecodeRound(k, t) \in State
  BY DecodeRoundState
<1>2. step \in [1 .. 32 -> [State -> State]]
  BY <1>1
<1>3. PICK f \in [0 .. 32 -> State] : Iterates(f, 32, s, step)
  <2> HIDE DEF step
  <2> QED
    BY <1>2, RecursionExists
<1>4. ASSUME NEW r \in 1 .. 32
      PROVE  f[r - 1] \in State /\ f[r] = DecodeRound(k, f[r - 1])
  <2>1. f[r - 1] \in State
    OBVIOUS
  <2>2. f[r] = step[r][f[r - 1]]
    BY <1>3 DEF Iterates
  <2> QED
    BY <2>1, <2>2
<1>5. f[0] = s
  BY <1>3 DEF Iterates
<1>6. f = [r \in 0 .. 32 |-> IF r = 0 THEN s ELSE DecodeRound(k, f[r - 1])]
  BY <1>4, <1>5
<1>7. after = [r \in 0 .. 32 |-> IF r = 0 THEN s ELSE DecodeRound(k, after[r - 1])]
  BY <1>6
<1>8. DecodeRounds(k, s) = after[32]
  BY DEF DecodeRounds
<1> HIDE DEF after
<1>9. after[0] = s /\ \A r \in 1 .. 32 : after[r] = DecodeRound(k, after[r - 1])
  BY <1>7
<1> DEFINE T == {r \in 0 .. 32 : after[r] \in State}
<1>10. 0 \in T
  BY <1>9
<1>11. ASSUME NEW r \in 1 .. 32, r - 1 \in T
       PROVE  r \in T
  <2>1. after[r - 1] \in State
    BY <1>11
  <2>2. after[r] \in State
    BY <1>1, <1>9, <2>1
  <2> QED
    BY <2>2
<1> HIDE DEF T
<1>12. \A r \in 0 .. 32 : r \in T
  BY <1>10, <1>11, UpTo
<1>13. after \in [0 .. 32 -> State]
  BY <1>7, <1>12 DEF T
<1> QED
  BY <1>8, <1>9, <1>13

LEMMA RoundsInverse ==
  ASSUME NEW k \in Key4, NEW s \in State, s.sum = 0
  PROVE  /\ EncodeRounds(k, s) \in State
         /\ EncodeRounds(k, s).sum = decode_sum
         /\ DecodeRounds(k, EncodeRounds(k, s)) = s
<1> DEFINE e == EncodeRounds(k, s)
<1>1. PICK f \in [0 .. 32 -> State] :
        f[0] = s /\ (\A r \in 1 .. 32 : f[r] = EncodeRound(k, f[r - 1])) /\ e = f[32]
  BY EncodeRoundsAre
<1> HIDE DEF e
<1>2. e \in State
  BY <1>1
<1>3. PICK g \in [0 .. 32 -> State] :
        g[0] = e /\ (\A r \in 1 .. 32 : g[r] = DecodeRound(k, g[r - 1]))
          /\ DecodeRounds(k, e) = g[32]
  BY SMTT(40), <1>2, DecodeRoundsAre
<1> DEFINE T == {r \in 0 .. 32 : g[r] = f[32 - r]}
<1>4. 0 \in T
  BY <1>1, <1>3
<1>5. ASSUME NEW r \in 1 .. 32, r - 1 \in T
      PROVE  r \in T
  <2>1. g[r] = DecodeRound(k, f[33 - r])
    BY <1>3, <1>5
  <2>2. 33 - r \in 1 .. 32 /\ (33 - r) - 1 = 32 - r
    OBVIOUS
  <2>3. f[33 - r] = EncodeRound(k, f[32 - r]) /\ f[32 - r] \in State
    BY <1>1, <2>2
  <2>4. g[r] = f[32 - r]
    BY <2>1, <2>3, RoundInverse
  <2> QED
    BY <2>4
<1> HIDE DEF T
<1>6. \A r \in 0 .. 32 : r \in T
  BY <1>4, <1>5, UpTo
<1>7. g[32] = s
  BY <1>1, <1>6 DEF T
<1> DEFINE U == {r \in 0 .. 32 : f[r].sum = (r * delta) % Word}
<1>8. delta \in Nat /\ Word \in Nat \ {0}
  BY Bases, CryptoAssumption
<1>9. 0 \in U
  <2>1. 0 % Word = 0 /\ 0 * delta = 0
    BY <1>8
  <2> QED
    BY <1>1, <2>1
<1>10. ASSUME NEW r \in 1 .. 32, r - 1 \in U
       PROVE  r \in U
  <2> DEFINE x == f[r - 1].sum
             y == (r - 1) * delta
             z == r * delta
             w == x + delta
  <2>1. x = y % Word
    BY <1>10
  <2>2. f[r].sum = w % Word
    <3>1. f[r] = EncodeRound(k, f[r - 1])
      BY <1>1
    <3> QED
      BY <3>1 DEF EncodeRound
  <2>3. y \in Int /\ z \in Int /\ z = y + delta
    BY <1>8
  <2>4. x \in 0 .. Word - 1
    BY DEF State, Words
  <2> HIDE DEF x, y, z
  <2>5. w \in Int /\ x \in Int
    BY <1>8, <2>4
  <2>6. x % Word = y % Word
    BY <1>8, <2>1, <2>3, RestOfRest
  <2>7. PICK d \in Int : x - y = Word * d
    BY <1>8, <2>3, <2>5, <2>6, Congruent
  <2>8. w - z = Word * d
    BY <1>8, <2>3, <2>5, <2>7
  <2> HIDE DEF w
  <2>9. w % Word = z % Word
    BY <1>8, <2>3, <2>5, <2>8, Congruent
  <2> QED
    BY <2>2, <2>9 DEF z
<1> HIDE DEF U
<1>11. \A r \in 0 .. 32 : r \in U
  BY <1>9, <1>10, UpTo
<1>12. e.sum = decode_sum
  BY <1>1, <1>11, CryptoAssumption DEF U
<1> QED
  BY <1>2, <1>3, <1>7, <1>12 DEF e

(* Blocks of data.                                                         *)
BlockOf(data, i) == SubSeq(data, 8 * i - 7, 8 * i)

LEMMA Blocks ==
  /\ \A b \in Block : b \in Seq(Octet) /\ Len(b) = 8
  /\ \A b \in Seq(Octet) : Len(b) = 8 => b \in Block
<1>1. 8 \in Nat
  OBVIOUS
<1> QED
  BY <1>1, SequencesOfLength DEF Block

LEMMA BlockOfData ==
  ASSUME NEW data \in Seq(Octet), NEW i \in Nat \ {0}, 8 * i <= Len(data)
  PROVE  /\ BlockOf(data, i) \in Block
         /\ \A c \in 1 .. 8 : BlockOf(data, i)[c] = data[8 * (i - 1) + c]
<1> DEFINE m == 8 * i - 7
           n == 8 * i
<1>1. m \in Nat \ {0} /\ n \in Nat /\ m <= n + 1 /\ n <= Len(data) /\ n - m + 1 = 8
  OBVIOUS
<1>2. BlockOf(data, i) = SubSeq(data, m, n)
  BY DEF BlockOf
<1>3. \A c \in 1 .. 8 : m + c - 1 = 8 * (i - 1) + c
  OBVIOUS
<1> HIDE DEF m, n
<1>4. SubSeq(data, m, n) \in Seq(Octet) /\ Len(SubSeq(data, m, n)) = 8
  BY <1>1, PartOf
<1>5. \A c \in 1 .. 8 : SubSeq(data, m, n)[c] = data[m + c - 1]
  BY <1>1, PartOf
<1> QED
  BY <1>2, <1>3, <1>4, <1>5, Blocks

LEMMA Joined4 ==
  ASSUME NEW a \in Seq(Octet), NEW b \in Seq(Octet)
  PROVE  Len(a) = 4 /\ Len(b) = 4 =>
           /\ a \o b \in Seq(Octet) /\ Len(a \o b) = 8
           /\ SubSeq(a \o b, 1, 4) = a /\ SubSeq(a \o b, 5, 8) = b
<1>1. PICK m, n, l, h \in Nat : m = Len(a) /\ n = Len(b) /\ l = m + 1 /\ h = m + n
  OBVIOUS
<1>2. a \o b \in Seq(Octet) /\ Len(a \o b) = Len(a) + Len(b)
  BY Joined
<1>3. SubSeq(a \o b, 1, m) = a /\ SubSeq(a \o b, l, h) = b
  BY <1>1, JoinedParts
<1>4. Len(a) = 4 /\ Len(b) = 4 => m = 4 /\ l = 5 /\ h = 8
  BY <1>1
<1> QED
  BY <1>2, <1>3, <1>4

LEMMA WordsAndBlocks ==
  /\ \A s \in State : /\ WordsBlock(s) \in Block
                       /\ BlockWords(WordsBlock(s), s.sum) = s
  /\ \A block \in Block, sum \in Words : /\ BlockWords(block, sum) \in State
                                         /\ WordsBlock(BlockWords(block, sum)) = block
<1>1. ASSUME NEW s \in State
      PROVE  WordsBlock(s) \in Block /\ BlockWords(WordsBlock(s), s.sum) = s
  <2> DEFINE a == Stored(s.v0, 4)
             b == Stored(s.v1, 4)
  <2>1. s.v0 \in Nat /\ s.v1 \in Nat /\ s.v0 < Word /\ s.v1 < Word
    BY Bases DEF State, Words
  <2>2. a \in Seq(Octet) /\ b \in Seq(Octet) /\ Len(a) = 4 /\ Len(b) = 4
    BY <2>1, StoredBytes
  <2>3. Loaded(a) = s.v0 /\ Loaded(b) = s.v1
    <3>1. Values(4) = Word
      BY DEF Values
    <3> QED
      BY <2>1, <3>1, IntegerRoundTrip
  <2>4. WordsBlock(s) = a \o b
    BY DEF WordsBlock, WriteLE
  <2> HIDE DEF a, b
  <2>5. a \o b \in Seq(Octet) /\ Len(a \o b) = 8
    BY <2>2, Joined4
  <2>6. SubSeq(a \o b, 1, 4) = a /\ SubSeq(a \o b, 5, 8) = b
    BY <2>2, Joined4
  <2>7. BlockWords(a \o b, s.sum) = [v0 |-> s.v0, v1 |-> s.v1, sum |-> s.sum]
    BY <2>3, <2>6 DEF BlockWords, ReadLE
  <2>8. s = [v0 |-> s.v0, v1 |-> s.v1, sum |-> s.sum]
    BY DEF State
  <2> QED
    BY <2>4, <2>5, <2>7, <2>8, Blocks
<1>2. ASSUME NEW block \in Block, NEW sum \in Words
      PROVE  /\ BlockWords(block, sum) \in State
             /\ WordsBlock(BlockWords(block, sum)) = block
  <2> DEFINE a == SubSeq(block, 1, 4)
             b == SubSeq(block, 5, 8)
  <2>1. block \in Seq(Octet) /\ Len(block) = 8
    BY Blocks
  <2>2. a \in Seq(Octet) /\ b \in Seq(Octet) /\ Len(a) = 4 /\ Len(b) = 4
    <3>1. /\ 1 \in Nat \ {0} /\ 5 \in Nat \ {0} /\ 4 \in Nat /\ 8 \in Nat
          /\ 1 <= 4 + 1 /\ 4 <= Len(block) /\ 5 <= 8 + 1 /\ 8 <= Len(block)
      BY <2>1
    <3>2. a \in Seq(Octet) /\ Len(a) = 4 - 1 + 1
      BY SMTT(40), <2>1, <3>1, PartOf
    <3>3. b \in Seq(Octet) /\ Len(b) = 8 - 5 + 1
      BY SMTT(40), <2>1, <3>1, PartOf
    <3> QED
      BY <3>2, <3>3
  <2>3. a \o b = block
    <3>1. a \o b = SubSeq(block, 1, 8)
      BY <2>1, ConcatAdjacentSubSeq
    <3> QED
      BY <2>1, <3>1, SubSeqFull
  <2>4. BlockWords(block, sum) = [v0 |-> Loaded(a), v1 |-> Loaded(b), sum |-> sum]
    BY DEF BlockWords, ReadLE
  <2> HIDE DEF a, b
  <2>5. Loaded(a) \in Words /\ Loaded(b) \in Words
    <3>1. Values(4) = Word
      BY DEF Values
    <3> QED
      BY <2>2, <3>1, LoadedBelow DEF Words
  <2>6. Stored(Loaded(a), 4) = a /\ Stored(Loaded(b), 4) = b
    BY <2>2, StoredLoaded
  <2> QED
    BY <2>3, <2>4, <2>5, <2>6 DEF State, WordsBlock, WriteLE
<1> QED
  BY <1>1, <1>2

LEMMA BlockInverse ==
  ASSUME NEW k \in Key4, NEW block \in Block
  PROVE  /\ EncodeBlock(k, block) \in Block /\ DecodeBlock(k, block) \in Block
         /\ DecodeBlock(k, EncodeBlock(k, block)) = block
<1> DEFINE s == BlockWords(block, 0)
           e == EncodeRounds(k, s)
<1>1. 0 \in Words /\ decode_sum \in Words
  <2>1. decode_sum \in Words
    <3>1. 32 * delta \in Int
      BY Bases, CryptoAssumption
    <3> QED
      BY <3>1, CryptoAssumption, InWords
  <2> QED
    BY <2>1, Bases DEF Words
<1>2. s \in State /\ s.sum = 0 /\ WordsBlock(s) = block
  BY <1>1, WordsAndBlocks DEF BlockWords
<1>3. EncodeBlock(k, block) = WordsBlock(e)
  BY DEF EncodeBlock
<1> HIDE DEF s
<1>4. e \in State /\ e.sum = decode_sum /\ DecodeRounds(k, e) = s
  BY <1>2, RoundsInverse
<1> HIDE DEF e
<1>5. WordsBlock(e) \in Block /\ BlockWords(WordsBlock(e), decode_sum) = e
  BY <1>4, WordsAndBlocks
<1>6. DecodeBlock(k, WordsBlock(e)) = block
  BY <1>2, <1>4, <1>5 DEF DecodeBlock
<1>7. DecodeBlock(k, block) \in Block
  <2> DEFINE t == BlockWords(block, decode_sum)
  <2>1. t \in State
    BY <1>1, WordsAndBlocks
  <2> HIDE DEF t
  <2>2. DecodeRounds(k, t) \in State
    <3>1. 32 \in 0 .. 32
      OBVIOUS
    <3> QED
      BY SMTT(40), <2>1, <3>1, DecodeRoundsAre
  <2> QED
    BY <2>2, WordsAndBlocks DEF DecodeBlock, t
<1> QED
  BY <1>3, <1>5, <1>6, <1>7

LEMMA BlockwiseIs ==
  ASSUME NEW replaced \in [Block -> Block], NEW data \in Seq(Octet),
         NEW m \in Nat, Len(data) = 8 * m
  PROVE  \E f \in [0 .. m -> Seq(Octet)] :
           /\ f[0] = <<>> /\ \A j \in 1 .. m : f[j] = f[j - 1] \o replaced[BlockOf(data, j)]
           /\ Blockwise(replaced, data) = f[m]
<1> DEFINE S == Seq(Octet)
           Next1(j, t) == t \o replaced[BlockOf(data, j)]
           step == [j \in 1 .. m |-> [t \in S |-> Next1(j, t)]]
           done[j \in 0 .. m] ==
             IF j = 0 THEN <<>> ELSE done[j - 1] \o replaced[SubSeq(data, 8 * j - 7, 8 * j)]
<1>1. ASSUME NEW j \in 1 .. m, NEW t \in S
      PROVE  Next1(j, t) \in S
  <2>1. j \in Nat \ {0} /\ 8 * j <= Len(data)
    OBVIOUS
  <2>2. BlockOf(data, j) \in Block
    BY <2>1, BlockOfData
  <2>3. replaced[BlockOf(data, j)] \in Seq(Octet)
    BY <2>2, Blocks
  <2> QED
    BY <2>3
<1>2. step \in [1 .. m -> [S -> S]]
  <2> HIDE DEF Next1, S
  <2> QED
    BY <1>1
<1>3. <<>> \in S
  OBVIOUS
<1>4. PICK f \in [0 .. m -> S] : Iterates(f, m, <<>>, step)
  <2> HIDE DEF step, S
  <2> QED
    BY <1>2, <1>3, RecursionExists
<1>5. ASSUME NEW j \in 1 .. m
      PROVE  f[j - 1] \in S /\ f[j] = Next1(j, f[j - 1])
  <2> HIDE DEF Next1, S
  <2>1. f[j - 1] \in S
    OBVIOUS
  <2>2. f[j] = step[j][f[j - 1]]
    BY <1>4 DEF Iterates
  <2> QED
    BY <2>1, <2>2
<1>6. f[0] = <<>>
  BY <1>4 DEF Iterates
<1>7. f = [j \in 0 .. m |-> IF j = 0 THEN <<>> ELSE Next1(j, f[j - 1])]
  <2> HIDE DEF Next1, S
  <2> QED
    BY <1>5, <1>6
<1>8. done = [j \in 0 .. m |-> IF j = 0 THEN <<>> ELSE Next1(j, done[j - 1])]
  BY <1>7 DEF BlockOf
<1>9. Len(data) \div 8 = m
  OBVIOUS
<1>10. Blockwise(replaced, data) = done[m]
  BY <1>9 DEF Blockwise
<1> HIDE DEF done
<1>11. done[0] = <<>> /\ \A j \in 1 .. m : done[j] = Next1(j, done[j - 1])
  <2> HIDE DEF Next1
  <2> QED
    BY <1>8
<1> DEFINE T == {j \in 0 .. m : done[j] \in S}
<1>12. 0 \in T
  <2> HIDE DEF Next1, S
  <2> QED
    BY <1>3, <1>11
<1>13. ASSUME NEW j \in 1 .. m, j - 1 \in T
       PROVE  j \in T
  <2> HIDE DEF Next1, S
  <2>1. done[j - 1] \in S
    BY <1>13
  <2>2. done[j] \in S
    BY <1>1, <1>11, <2>1
  <2> QED
    BY <2>2
<1> HIDE DEF T
<1>14. \A j \in 0 .. m : j \in T
  BY <1>12, <1>13, UpTo
<1>15. done \in [0 .. m -> S]
  <2> HIDE DEF Next1, S
  <2> QED
    BY <1>8, <1>14 DEF T
<1> QED
  BY <1>10, <1>11, <1>15

LEMMA BlockwiseBlocks ==
  ASSUME NEW replaced \in [Block -> Block], NEW data \in Seq(Octet),
         NEW m \in Nat, Len(data) = 8 * m
  PROVE  /\ Blockwise(replaced, data) \in Seq(Octet)
         /\ Len(Blockwise(replaced, data)) = 8 * m
         /\ \A i \in 1 .. m :
              BlockOf(Blockwise(replaced, data), i) = replaced[BlockOf(data, i)]
<1>1. PICK f \in [0 .. m -> Seq(Octet)] :
        /\ f[0] = <<>> /\ \A j \in 1 .. m : f[j] = f[j - 1] \o replaced[BlockOf(data, j)]
        /\ Blockwise(replaced, data) = f[m]
  BY BlockwiseIs
<1> DEFINE New(i) == replaced[BlockOf(data, i)]
<1>2. \A i \in 1 .. m : New(i) \in Block /\ New(i) \in Seq(Octet) /\ Len(New(i)) = 8
  <2> SUFFICES ASSUME NEW i \in 1 .. m
               PROVE  New(i) \in Block /\ New(i) \in Seq(Octet) /\ Len(New(i)) = 8
    OBVIOUS
  <2>1. i \in Nat \ {0} /\ 8 * i <= Len(data)
    OBVIOUS
  <2>2. BlockOf(data, i) \in Block
    BY <2>1, BlockOfData
  <2> QED
    BY <2>2, Blocks
<1> HIDE DEF New
<1> DEFINE T == {j \in 0 .. m :
                  /\ Len(f[j]) = 8 * j
                  /\ \A i \in 1 .. j : \A c \in 1 .. 8 : f[j][8 * (i - 1) + c] = New(i)[c]}
<1>3. 0 \in T
  <2>1. Len(f[0]) = 0 /\ 0 \in 0 .. m
    BY <1>1
  <2>2. \A i \in 1 .. 0 : \A c \in 1 .. 8 : f[0][8 * (i - 1) + c] = New(i)[c]
    OBVIOUS
  <2>3. 8 * 0 = 0
    OBVIOUS
  <2> QED
    BY <2>1, <2>2, <2>3
<1>4. ASSUME NEW j \in 1 .. m, j - 1 \in T
      PROVE  j \in T
  <2> DEFINE a == f[j - 1]
             b == New(j)
  <2>1. a \in Seq(Octet) /\ b \in Seq(Octet) /\ Len(b) = 8
    BY <1>2
  <2>2. /\ Len(a) = 8 * (j - 1)
        /\ \A i \in 1 .. j - 1 : \A c \in 1 .. 8 : a[8 * (i - 1) + c] = New(i)[c]
    BY <1>4
  <2>3. f[j] = a \o b
    BY <1>1 DEF New
  <2> HIDE DEF a, b
  <2>4. /\ Len(a \o b) = Len(a) + Len(b)
        /\ \A i \in 1 .. Len(a) : (a \o b)[i] = a[i]
        /\ \A i \in 1 .. Len(b) : (a \o b)[Len(a) + i] = b[i]
    <3>1. a \in Seq(Octet) /\ b \in Seq(Octet)
      BY <2>1
    <3> QED
      BY <3>1, Joined
  <2>5. Len(f[j]) = 8 * j
    BY <2>1, <2>2, <2>3, <2>4
  <2>6. ASSUME NEW i \in 1 .. j, NEW c \in 1 .. 8
        PROVE  f[j][8 * (i - 1) + c] = New(i)[c]
    <3> DEFINE x == 8 * (i - 1) + c
    <3>1. CASE i < j
      <4>0. i \in Nat /\ j \in Nat /\ Len(a) = 8 * (j - 1)
        BY <2>2
      <4>1. x \in 1 .. Len(a) /\ i \in 1 .. j - 1
        BY <3>1, <4>0
      <4>2. (a \o b)[x] = a[x]
        <5> HIDE DEF x
        <5> QED
          BY <2>4, <4>1
      <4> QED
        BY <2>2, <2>3, <4>1, <4>2
    <3>2. CASE i = j
      <4>1. x = Len(a) + c /\ c \in 1 .. Len(b)
        BY <2>1, <2>2, <3>2
      <4>2. (a \o b)[x] = b[c]
        <5> HIDE DEF x
        <5> QED
          BY <2>4, <4>1
      <4> QED
        BY <2>3, <3>2, <4>2 DEF b
    <3> QED
      BY <3>1, <3>2
  <2>7. j \in 0 .. m
    OBVIOUS
  <2> QED
    BY <2>5, <2>6, <2>7
<1> HIDE DEF T
<1>5. \A j \in 0 .. m : j \in T
  BY <1>3, <1>4, UpTo
<1>6. m \in T
  BY <1>5
<1> DEFINE r == Blockwise(replaced, data)
<1>7. /\ r \in Seq(Octet) /\ Len(r) = 8 * m
      /\ \A i \in 1 .. m : \A c \in 1 .. 8 : r[8 * (i - 1) + c] = New(i)[c]
  BY <1>1, <1>6 DEF T
<1> HIDE DEF r
<1>8. ASSUME NEW i \in 1 .. m
      PROVE  BlockOf(r, i) = New(i)
  <2>1. i \in Nat \ {0} /\ 8 * i <= Len(r)
    BY <1>7
  <2>2. BlockOf(r, i) \in Block /\ \A c \in 1 .. 8 : BlockOf(r, i)[c] = r[8 * (i - 1) + c]
    BY <1>7, <2>1, BlockOfData
  <2>3. \A c \in 1 .. 8 : BlockOf(r, i)[c] = New(i)[c]
    BY <1>7, <2>2
  <2>4. New(i) \in Block
    BY <1>2
  <2> DEFINE p == BlockOf(r, i)
             q == New(i)
  <2>5. /\ p \in Seq(Octet) /\ Len(p) = 8 /\ q \in Seq(Octet) /\ Len(q) = 8
        /\ \A c \in 1 .. 8 : p[c] = q[c]
    BY <2>2, <2>3, <2>4, Blocks
  <2> HIDE DEF p, q
  <2>6. p = q
    BY <2>5, SeqEqual
  <2> QED
    BY <2>6 DEF p, q
<1> QED
  BY <1>7, <1>8 DEF New, r

(* Data are equal that have the same blocks.                               *)
LEMMA SameBlocks ==
  ASSUME NEW a \in Seq(Octet), NEW b \in Seq(Octet), NEW m \in Nat,
         Len(a) = 8 * m, Len(b) = 8 * m,
         \A i \in 1 .. m : BlockOf(a, i) = BlockOf(b, i)
  PROVE  a = b
<1>1. ASSUME NEW x \in 1 .. Len(a)
      PROVE  a[x] = b[x]
  <2> DEFINE i == ((x - 1) \div 8) + 1
             c == ((x - 1) % 8) + 1
  <2>1. i \in 1 .. m /\ c \in 1 .. 8 /\ x = 8 * (i - 1) + c
    OBVIOUS
  <2> HIDE DEF i, c
  <2>2. i \in Nat \ {0} /\ 8 * i <= Len(a) /\ 8 * i <= Len(b)
    BY <2>1
  <2>3. BlockOf(a, i)[c] = a[8 * (i - 1) + c]
    BY <2>1, <2>2, BlockOfData
  <2>4. BlockOf(b, i)[c] = b[8 * (i - 1) + c]
    BY <2>1, <2>2, BlockOfData
  <2> QED
    BY <2>1, <2>3, <2>4
<1>2. Len(a) = Len(b)
  OBVIOUS
<1> QED
  BY <1>1, <1>2, SeqEqual

(* xtea_decode undoes xtea_encode, for every key and any number of whole   *)
(* blocks.                                                                 *)
THEOREM XteaInverse ==
  ASSUME NEW k \in Key4, NEW data \in Seq(Octet), NEW m \in Nat, Len(data) = 8 * m
  PROVE  /\ XteaEncode(k, data) \in Seq(Octet) /\ Len(XteaEncode(k, data)) = 8 * m
         /\ XteaDecode(k, data) \in Seq(Octet) /\ Len(XteaDecode(k, data)) = 8 * m
         /\ XteaDecode(k, XteaEncode(k, data)) = data
<1> DEFINE enc == [block \in Block |-> EncodeBlock(k, block)]
           dec == [block \in Block |-> DecodeBlock(k, block)]
<1>1. /\ enc \in [Block -> Block] /\ dec \in [Block -> Block]
      /\ \A block \in Block : dec[enc[block]] = block
  BY BlockInverse
<1>2. /\ \A d : XteaEncode(k, d) = Blockwise(enc, d)
      /\ \A d : XteaDecode(k, d) = Blockwise(dec, d)
  BY DEF XteaEncode, XteaDecode
<1> HIDE DEF enc, dec
<1> DEFINE e == Blockwise(enc, data)
           d == Blockwise(dec, e)
<1>3. /\ e \in Seq(Octet) /\ Len(e) = 8 * m
      /\ \A i \in 1 .. m : BlockOf(e, i) = enc[BlockOf(data, i)]
  BY <1>1, BlockwiseBlocks
<1>4. Blockwise(dec, data) \in Seq(Octet) /\ Len(Blockwise(dec, data)) = 8 * m
  BY <1>1, BlockwiseBlocks
<1> HIDE DEF e
<1>5. /\ d \in Seq(Octet) /\ Len(d) = 8 * m
      /\ \A i \in 1 .. m : BlockOf(d, i) = dec[BlockOf(e, i)]
  BY <1>1, <1>3, BlockwiseBlocks
<1> HIDE DEF d
<1>6. ASSUME NEW i \in 1 .. m
      PROVE  BlockOf(d, i) = BlockOf(data, i)
  <2>1. i \in Nat \ {0} /\ 8 * i <= Len(data)
    OBVIOUS
  <2>2. BlockOf(data, i) \in Block
    BY <2>1, BlockOfData
  <2> QED
    BY <1>1, <1>3, <1>5, <2>2
<1>7. d = data
  BY <1>5, <1>6, SameBlocks
<1> QED
  BY <1>2, <1>3, <1>4, <1>7 DEF d, e

-----------------------------------------------------------------------------
(***************************************************************************)
(* packet_wrap and packet_unwrap.                                          *)
(***************************************************************************)
(* What the server hands over, without the length, has the parts of the    *)
(* frame.                                                                  *)
LEMMA WithoutLength ==
  ASSUME NEW f \in Seq(Octet), NEW n \in Nat, n = Len(f), n >= 6
  PROVE  LET buf == SubSeq(f, 3, n)
         IN  /\ buf \in Seq(Octet) /\ Len(buf) = n - 2
             /\ SubSeq(buf, 1, 4) = SubSeq(f, 3, 6)
             /\ SubSeq(buf, 5, n - 2) = SubSeq(f, 7, n)
<1> DEFINE buf == Part(f, 3, n)
           m == n - 2
           r == n - 6
<1>1. m \in Nat /\ r \in Nat
  OBVIOUS
<1>2. Span(f, 3, n, m)
  BY DEF Span
<1>3. buf \in Seq(Octet) /\ Len(buf) = m /\ \A c \in 1 .. m : buf[c] = At(f, 3, c)
  BY <1>1, <1>2, PartIs
<1> HIDE DEF buf
<1>4. SubSeq(buf, 1, 4) = SubSeq(f, 3, 6)
  <2>1. Span(buf, 1, 4, 4) /\ Span(f, 3, 6, 4)
    BY <1>3 DEF Span
  <2>2. Same(buf, 1, f, 3, 4)
    <3> SUFFICES ASSUME NEW c \in 1 .. 4 PROVE At(buf, 1, c) = At(f, 3, c)
      BY DEF Same
    <3>1. 1 + c - 1 = c /\ c \in 1 .. m
      OBVIOUS
    <3> QED
      BY <1>3, <3>1 DEF At
  <2>3. buf \in Seq(Octet)
    BY <1>3
  <2>4. Part(buf, 1, 4) = Part(f, 3, 6)
    BY <2>1, <2>2, <2>3, SamePart
  <2> QED
    BY <2>4 DEF Part
<1>5. SubSeq(buf, 5, m) = SubSeq(f, 7, n)
  <2>1. Span(buf, 5, m, r) /\ Span(f, 7, n, r)
    BY <1>3 DEF Span
  <2>2. Same(buf, 5, f, 7, r)
    <3> SUFFICES ASSUME NEW c \in 1 .. r PROVE At(buf, 5, c) = At(f, 7, c)
      BY DEF Same
    <3>1. 5 + c - 1 = 4 + c /\ 4 + c \in 1 .. m /\ 3 + (4 + c) - 1 = 7 + c - 1
      OBVIOUS
    <3>2. buf[4 + c] = At(f, 3, 4 + c)
      BY <1>3, <3>1
    <3> QED
      BY <3>1, <3>2 DEF At
  <2>3. buf \in Seq(Octet)
    BY <1>3
  <2> HIDE DEF m, r
  <2>4. Part(buf, 5, m) = Part(f, 7, n)
    BY <1>1, <2>1, <2>2, <2>3, SamePart
  <2> QED
    BY <2>4 DEF Part
<1> QED
  BY <1>3, <1>4, <1>5 DEF buf, Part

(* A frame: its length, the checksum of the rest, and the rest.            *)
FrameOf(secret) == WriteLE(Len(secret) + 4, 2) \o WriteLE(Adler32(secret), 4) \o secret

LEMMA FrameParts ==
  ASSUME NEW secret \in Seq(Octet), NEW n \in Nat, n = 6 + Len(secret)
  PROVE  LET f == FrameOf(secret)
         IN  /\ f \in Seq(Octet) /\ Len(f) = n
             /\ SubSeq(f, 1, 2) = WriteLE(Len(secret) + 4, 2)
             /\ SubSeq(f, 3, 6) = WriteLE(Adler32(secret), 4)
             /\ SubSeq(f, 7, n) = secret
<1> DEFINE a == WriteLE(Len(secret) + 4, 2)
           b == WriteLE(Adler32(secret), 4)
           h == a \o b
           f == h \o secret
           r == Len(secret)
<1>1. r \in Nat
  OBVIOUS
<1>2. a \in Seq(Octet) /\ Len(a) = 2 /\ b \in Seq(Octet) /\ Len(b) = 4
  <2>1. r + 4 \in Nat /\ Adler32(secret) \in Nat
    BY <1>1, ChecksumFits, Bases
  <2> QED
    BY <2>1, StoredBytes DEF WriteLE
<1> HIDE DEF a, b
<1>3. /\ h \in Seq(Octet) /\ Len(h) = 6
      /\ \A c \in 1 .. 2 : h[c] = a[c]
      /\ \A c \in 1 .. 4 : h[2 + c] = b[c]
  <2>1. /\ h \in Seq(Octet) /\ Len(h) = Len(a) + Len(b)
        /\ \A c \in 1 .. Len(a) : h[c] = a[c]
        /\ \A c \in 1 .. Len(b) : h[Len(a) + c] = b[c]
    <3>1. a \in Seq(Octet) /\ b \in Seq(Octet)
      BY <1>2
    <3> QED
      BY <3>1, Joined
  <2> HIDE DEF h
  <2> QED
    BY <1>2, <2>1
<1> HIDE DEF h
<1>4. /\ f \in Seq(Octet) /\ Len(f) = n
      /\ \A c \in 1 .. 6 : f[c] = h[c]
      /\ \A c \in 1 .. r : f[6 + c] = secret[c]
  <2>1. /\ f \in Seq(Octet) /\ Len(f) = Len(h) + Len(secret)
        /\ \A c \in 1 .. Len(h) : f[c] = h[c]
        /\ \A c \in 1 .. Len(secret) : f[Len(h) + c] = secret[c]
    <3>1. h \in Seq(Octet)
      BY <1>3
    <3> QED
      BY <3>1, Joined
  <2> HIDE DEF f
  <2> QED
    BY <1>3, <2>1
<1> HIDE DEF f
<1>5. SubSeq(f, 1, 2) = a
  <2>1. Span(f, 1, 2, Len(a))
    BY <1>2, <1>4 DEF Span
  <2>2. Holds(f, 1, a)
    <3> SUFFICES ASSUME NEW c \in 1 .. Len(a) PROVE At(f, 1, c) = a[c]
      BY DEF Holds
    <3>1. 1 + c - 1 = c /\ c \in 1 .. 2 /\ c \in 1 .. 6
      BY <1>2
    <3> QED
      BY <1>3, <1>4, <3>1 DEF At
  <2>3. a \in Seq(Octet) /\ f \in Seq(Octet)
    BY <1>2, <1>4
  <2>4. Part(f, 1, 2) = a
    BY <2>1, <2>2, <2>3, PartEquals
  <2> QED
    BY <2>4 DEF Part
<1>6. SubSeq(f, 3, 6) = b
  <2>1. Span(f, 3, 6, Len(b))
    BY <1>2, <1>4 DEF Span
  <2>2. Holds(f, 3, b)
    <3> SUFFICES ASSUME NEW c \in 1 .. Len(b) PROVE At(f, 3, c) = b[c]
      BY DEF Holds
    <3>1. 3 + c - 1 = 2 + c /\ c \in 1 .. 4 /\ 2 + c \in 1 .. 6
      BY <1>2
    <3> QED
      BY <1>3, <1>4, <3>1 DEF At
  <2>3. b \in Seq(Octet) /\ f \in Seq(Octet)
    BY <1>2, <1>4
  <2>4. Part(f, 3, 6) = b
    BY <2>1, <2>2, <2>3, PartEquals
  <2> QED
    BY <2>4 DEF Part
<1>7. SubSeq(f, 7, n) = secret
  <2>1. Span(f, 7, n, Len(secret))
    BY <1>4 DEF Span
  <2>2. Holds(f, 7, secret)
    <3> SUFFICES ASSUME NEW c \in 1 .. Len(secret) PROVE At(f, 7, c) = secret[c]
      BY DEF Holds
    <3>1. 7 + c - 1 = 6 + c
      OBVIOUS
    <3> QED
      BY <1>4, <3>1 DEF At
  <2>3. Part(f, 7, n) = secret
    BY <1>4, <2>1, <2>2, PartEquals
  <2> QED
    BY <2>3 DEF Part
<1> QED
  BY <1>4, <1>5, <1>6, <1>7 DEF FrameOf, f, h, a, b

(* f is a frame for the holder of key k with this payload.                 *)
Carries(f, k, payload) ==
  \E body \in Seq(Octet), m \in Nat :
    /\ 2 + Len(body) = 8 * m
    /\ Len(payload) <= Len(body) /\ Part(body, 1, Len(payload)) = payload
    /\ f = FrameOf(XteaEncode(k, WriteLE(Len(payload), 2) \o body))

LEMMA CarriedFrame ==
  ASSUME NEW k \in Key4, NEW payload \in Seq(Octet), Len(payload) < Half,
         NEW f, Carries(f, k, payload)
  PROVE  \E secret \in Seq(Octet), m \in Nat :
           /\ m >= 1 /\ Len(secret) = 8 * m /\ f = FrameOf(secret)
           /\ LET plain == XteaDecode(k, secret)
              IN  /\ Len(plain) = 8 * m /\ Len(payload) <= 8 * m - 2
                  /\ ReadLE(SubSeq(plain, 1, 2)) = Len(payload)
                  /\ SubSeq(plain, 3, 2 + Len(payload)) = payload
<1> DEFINE L == Len(payload)
           head == WriteLE(L, 2)
<1>1. L \in Nat /\ L < Half
  OBVIOUS
<1>2. PICK body \in Seq(Octet), m \in Nat :
        /\ 2 + Len(body) = 8 * m /\ L <= Len(body) /\ Part(body, 1, L) = payload
        /\ f = FrameOf(XteaEncode(k, head \o body))
  BY DEF Carries
<1> HIDE DEF L
<1>3. head \in Seq(Octet) /\ Len(head) = 2 /\ ReadLE(head) = L
  <2>1. Values(2) = Half
    BY DEF Values
  <2> QED
    BY <1>1, <2>1, StoredBytes, IntegerRoundTrip DEF WriteLE, ReadLE
<1> DEFINE plain == head \o body
<1> HIDE DEF head
<1>4. /\ plain \in Seq(Octet) /\ Len(plain) = 8 * m
      /\ \A c \in 1 .. 2 : plain[c] = head[c]
      /\ \A c \in 1 .. Len(body) : plain[2 + c] = body[c]
  <2>1. /\ plain \in Seq(Octet) /\ Len(plain) = Len(head) + Len(body)
        /\ \A c \in 1 .. Len(head) : plain[c] = head[c]
        /\ \A c \in 1 .. Len(body) : plain[Len(head) + c] = body[c]
    <3>1. head \in Seq(Octet)
      BY <1>3
    <3> QED
      BY <3>1, Joined
  <2> HIDE DEF plain
  <2> QED
    BY <1>2, <1>3, <2>1
<1> HIDE DEF plain
<1>5. Part(plain, 1, 2) = head
  <2>1. Span(plain, 1, 2, Len(head))
    <3>1. Len(plain) >= 2
      BY <1>2, <1>4
    <3> QED
      BY <1>3, <3>1 DEF Span
  <2>2. Holds(plain, 1, head)
    <3> SUFFICES ASSUME NEW c \in 1 .. Len(head) PROVE At(plain, 1, c) = head[c]
      BY DEF Holds
    <3>1. 1 + c - 1 = c /\ c \in 1 .. 2
      BY <1>3
    <3> QED
      BY <1>4, <3>1 DEF At
  <2>3. head \in Seq(Octet) /\ plain \in Seq(Octet)
    BY <1>3, <1>4
  <2> QED
    BY <2>1, <2>2, <2>3, PartEquals
<1>6. Part(plain, 3, 2 + L) = payload
  <2> DEFINE h == 2 + L
  <2>1. Span(plain, 3, h, L) /\ Span(body, 1, L, L)
    BY <1>1, <1>2, <1>4 DEF Span
  <2>2. Same(plain, 3, body, 1, L)
    <3> SUFFICES ASSUME NEW c \in 1 .. L PROVE At(plain, 3, c) = At(body, 1, c)
      BY DEF Same
    <3>1. 3 + c - 1 = 2 + c /\ 1 + c - 1 = c /\ c \in 1 .. Len(body)
      BY <1>1, <1>2
    <3> QED
      BY <1>4, <3>1 DEF At
  <2>3. plain \in Seq(Octet)
    BY <1>4
  <2> HIDE DEF h
  <2>4. Part(plain, 3, h) = Part(body, 1, L)
    BY <1>1, <2>1, <2>2, <2>3, SamePart
  <2> QED
    BY <1>2, <2>4 DEF h
<1> DEFINE secret == XteaEncode(k, plain)
<1>7. secret \in Seq(Octet) /\ Len(secret) = 8 * m /\ XteaDecode(k, secret) = plain
  BY <1>4, XteaInverse
<1>8. f = FrameOf(secret)
  BY <1>2 DEF plain
<1> HIDE DEF secret
<1>9. m >= 1 /\ L <= 8 * m - 2
  BY <1>1, <1>2
<1>10. ReadLE(SubSeq(plain, 1, 2)) = L /\ SubSeq(plain, 3, 2 + L) = payload
  BY <1>3, <1>5, <1>6 DEF Part
<1> QED
  BY <1>4, <1>7, <1>8, <1>9, <1>10 DEF L

(* The other end finds the payload in the frame.                           *)
LEMMA UnwrapWhole ==
  ASSUME NEW k \in Key4, NEW payload \in Seq(Octet), Len(payload) < Half,
         NEW f, Carries(f, k, payload)
  PROVE  PacketUnwrap(SubSeq(f, 3, Len(f)), k) = [ok |-> TRUE, p |-> InPacket(payload)]
<1>1. PICK secret \in Seq(Octet), m \in Nat :
        /\ m >= 1 /\ Len(secret) = 8 * m /\ f = FrameOf(secret)
        /\ LET plain == XteaDecode(k, secret)
           IN  /\ Len(plain) = 8 * m /\ Len(payload) <= 8 * m - 2
               /\ ReadLE(SubSeq(plain, 1, 2)) = Len(payload)
               /\ SubSeq(plain, 3, 2 + Len(payload)) = payload
  BY CarriedFrame
<1> DEFINE n == 6 + 8 * m
           buf == SubSeq(f, 3, n)
           plain == XteaDecode(k, secret)
<1>2. /\ f \in Seq(Octet) /\ Len(f) = n
      /\ SubSeq(f, 3, 6) = WriteLE(Adler32(secret), 4)
      /\ SubSeq(f, 7, n) = secret
  <2>1. n \in Nat /\ n = 6 + Len(secret)
    BY <1>1
  <2> HIDE DEF n
  <2> QED
    BY <1>1, <2>1, FrameParts
<1>3. n \in Nat /\ n >= 14
  BY <1>1
<1> HIDE DEF n
<1>4. /\ Len(buf) = n - 2
      /\ SubSeq(buf, 1, 4) = WriteLE(Adler32(secret), 4)
      /\ SubSeq(buf, 5, n - 2) = secret
  <2>1. /\ Len(buf) = n - 2
        /\ SubSeq(buf, 1, 4) = SubSeq(f, 3, 6)
        /\ SubSeq(buf, 5, n - 2) = SubSeq(f, 7, n)
    <3>1. f \in Seq(Octet) /\ n = Len(f) /\ n >= 6
      BY <1>2, <1>3
    <3> QED
      BY <1>3, <3>1, WithoutLength
  <2> QED
    BY <1>2, <2>1
<1> HIDE DEF buf
<1>5. SubSeq(buf, 5, Len(buf)) = secret
  BY <1>4
<1>6. ReadLE(SubSeq(buf, 1, 4)) = Adler32(secret)
  <2>1. Adler32(secret) \in Nat /\ Adler32(secret) < Word
    BY ChecksumFits, Bases
  <2>2. Values(4) = Word
    BY DEF Values
  <2>3. Loaded(Stored(Adler32(secret), 4)) = Adler32(secret)
    BY <2>1, <2>2, IntegerRoundTrip
  <2> QED
    BY <1>4, <2>3 DEF ReadLE, WriteLE
<1>7. /\ Len(plain) = 8 * m /\ Len(payload) <= 8 * m - 2
      /\ ReadLE(SubSeq(plain, 1, 2)) = Len(payload)
      /\ SubSeq(plain, 3, 2 + Len(payload)) = payload
  BY <1>1
<1>8. ~(Len(buf) < 12) /\ Len(secret) % 8 = 0 /\ ~(Len(payload) > Len(plain) - 2)
  <2>1. Len(payload) \in Nat
    OBVIOUS
  <2> QED
    BY <1>1, <1>3, <1>4, <1>7, <2>1
<1> HIDE DEF plain
<1>9. PacketUnwrap(buf, k) = [ok |-> TRUE, p |-> InPacket(SubSeq(plain, 3, 2 + Len(payload)))]
  BY <1>5, <1>6, <1>7, <1>8 DEF PacketUnwrap, plain
<1> QED
  BY <1>2, <1>7, <1>9 DEF buf

(* A frame is refused whose checksum is not that of its data.              *)
LEMMA UnwrapRefuses ==
  ASSUME NEW k, NEW f \in Seq(Octet), NEW n \in Nat, n = Len(f), n >= 6,
         Loaded(Part(f, 3, 6)) # Adler32(Part(f, 7, n))
  PROVE  PacketUnwrap(SubSeq(f, 3, Len(f)), k).ok = FALSE
<1> DEFINE buf == SubSeq(f, 3, n)
<1>1. /\ Len(buf) = n - 2
      /\ SubSeq(buf, 1, 4) = SubSeq(f, 3, 6)
      /\ SubSeq(buf, 5, n - 2) = SubSeq(f, 7, n)
  BY WithoutLength
<1> HIDE DEF buf
<1>2. ReadLE(SubSeq(buf, 1, 4)) # Adler32(SubSeq(buf, 5, Len(buf)))
  BY <1>1 DEF ReadLE, Part
<1>3. PacketUnwrap(buf, k) = [ok |-> FALSE]
  BY <1>2 DEF PacketUnwrap
<1> QED
  BY <1>3 DEF buf

(* A frame with one byte changed is refused.                               *)
LEMMA UnwrapChanged ==
  ASSUME NEW k \in Key4, NEW payload \in Seq(Octet), Len(payload) < Half,
         NEW g, Carries(g, k, payload),
         NEW i \in 3 .. Len(g), NEW byte \in Octet, g[i] # byte
  PROVE  LET f == [g EXCEPT ![i] = byte]
         IN  PacketUnwrap(SubSeq(f, 3, Len(f)), k).ok = FALSE
<1>1. PICK secret \in Seq(Octet), m \in Nat :
        m >= 1 /\ Len(secret) = 8 * m /\ g = FrameOf(secret)
  BY CarriedFrame
<1> DEFINE n == 6 + 8 * m
           f == [g EXCEPT ![i] = byte]
<1>2. /\ g \in Seq(Octet) /\ Len(g) = n
      /\ Part(g, 3, 6) = WriteLE(Adler32(secret), 4)
      /\ Part(g, 7, n) = secret
  <2>1. n \in Nat /\ n = 6 + Len(secret)
    BY <1>1
  <2> HIDE DEF n
  <2> QED
    BY <1>1, <2>1, FrameParts DEF Part
<1>3. n \in Nat /\ n >= 14
  BY <1>1
<1> HIDE DEF n
<1>4. /\ f \in Seq(Octet) /\ Len(f) = n
      /\ \A x \in 1 .. n : f[x] = IF x = i THEN byte ELSE g[x]
  BY <1>2, <1>3
<1>5. f \in Seq(Octet) /\ g \in Seq(Octet) /\ i \in 3 .. n
  BY <1>2, <1>4
<1> HIDE DEF f
<1>6. Span(g, 3, 6, 4) /\ Span(f, 3, 6, 4)
  BY <1>2, <1>3, <1>4 DEF Span
<1> DEFINE r == n - 6
<1>7. r \in Nat /\ Span(g, 7, n, r) /\ Span(f, 7, n, r)
  BY <1>2, <1>3, <1>4 DEF Span
<1>8. Loaded(Part(g, 3, 6)) = Adler32(Part(g, 7, n))
  <2>1. Adler32(secret) \in Nat /\ Adler32(secret) < Word
    BY ChecksumFits, Bases
  <2>2. Values(4) = Word
    BY DEF Values
  <2>3. Loaded(Stored(Adler32(secret), 4)) = Adler32(secret)
    BY <2>1, <2>2, IntegerRoundTrip
  <2> QED
    BY <1>2, <2>3 DEF WriteLE
<1>9. Loaded(Part(f, 3, 6)) # Adler32(Part(f, 7, n))
  <2>1. CASE i <= 6
    <3>1. Part(f, 7, n) = Part(g, 7, n)
      <4>1. Same(f, 7, g, 7, r)
        <5> SUFFICES ASSUME NEW c \in 1 .. r PROVE At(f, 7, c) = At(g, 7, c)
          BY DEF Same
        <5>1. 7 + c - 1 \in 1 .. n /\ 7 + c - 1 # i
          BY <1>3, <1>5, <2>1
        <5> QED
          BY <1>4, <5>1 DEF At
      <4> HIDE DEF r
      <4> QED
        BY <1>5, <1>7, <4>1, SamePart
    <3>2. Loaded(Part(f, 3, 6)) # Loaded(Part(g, 3, 6))
      <4> DEFINE a == Part(f, 3, 6)
                 b == Part(g, 3, 6)
                 c == i - 2
      <4>0. /\ a \in Seq(Octet) /\ Len(a) = 4 /\ \A x \in 1 .. 4 : a[x] = At(f, 3, x)
            /\ b \in Seq(Octet) /\ Len(b) = 4 /\ \A x \in 1 .. 4 : b[x] = At(g, 3, x)
        <5> DEFINE n4 == 4
        <5>1. n4 \in Nat /\ Span(g, 3, 6, n4) /\ Span(f, 3, 6, n4)
          BY <1>6
        <5> HIDE DEF n4
        <5>2. /\ a \in Seq(Octet) /\ Len(a) = n4 /\ \A x \in 1 .. n4 : a[x] = At(f, 3, x)
              /\ b \in Seq(Octet) /\ Len(b) = n4 /\ \A x \in 1 .. n4 : b[x] = At(g, 3, x)
          BY <1>5, <5>1, PartIs
        <5> QED
          BY <5>2 DEF n4
      <4>1. a \in Seq(Octet) /\ Len(a) = 4 /\ \A x \in 1 .. 4 : a[x] = At(f, 3, x)
        BY <4>0
      <4>2. b \in Seq(Octet) /\ Len(b) = 4 /\ \A x \in 1 .. 4 : b[x] = At(g, 3, x)
        BY <4>0
      <4>3. c \in 1 .. 4 /\ 3 + c - 1 = i /\ i \in 1 .. n
        BY <1>3, <1>5, <2>1
      <4> HIDE DEF a, b, c
      <4>4. a[c] = byte /\ b[c] = g[i]
        BY <1>4, <4>1, <4>2, <4>3 DEF At
      <4>5. a # b
        BY <4>4
      <4>6. Stored(Loaded(a), 4) = a /\ Stored(Loaded(b), 4) = b
        BY <4>1, <4>2, StoredLoaded
      <4>7. Loaded(a) # Loaded(b)
        BY <4>5, <4>6
      <4> QED
        BY <4>7 DEF a, b
    <3> QED
      BY <1>8, <3>1, <3>2
  <2>2. CASE i > 6
    <3>1. Part(f, 3, 6) = Part(g, 3, 6)
      <4>1. Same(f, 3, g, 3, 4)
        <5> SUFFICES ASSUME NEW c \in 1 .. 4 PROVE At(f, 3, c) = At(g, 3, c)
          BY DEF Same
        <5>1. 3 + c - 1 \in 1 .. n /\ 3 + c - 1 # i
          BY <1>3, <1>5, <2>2
        <5> QED
          BY <1>4, <5>1 DEF At
      <4> QED
        BY <1>5, <1>6, <4>1, SamePart
    <3> DEFINE data == Part(g, 7, n)
               x == i - 6
               other == [data EXCEPT ![x] = byte]
    <3>2. x \in 1 .. r /\ 7 + x - 1 = i
      BY <1>3, <1>5, <2>2
    <3>3. data \in Seq(Octet) /\ Len(data) = r /\ \A c \in 1 .. r : data[c] = At(g, 7, c)
      <4> HIDE DEF r
      <4> QED
        BY <1>5, <1>7, PartIs
    <3> HIDE DEF data, x
    <3>4. data[x] # byte
      BY <3>2, <3>3 DEF At
    <3>5. /\ other \in Seq(Octet) /\ Len(other) = r
          /\ \A c \in 1 .. r : other[c] = IF c = x THEN byte ELSE data[c]
      BY <1>7, <3>2, <3>3
    <3>6. Adler32(other) # Adler32(data)
      <4>1. x \in 1 .. Len(data)
        BY <3>2, <3>3
      <4> QED
        BY <3>3, <3>4, <4>1, ChecksumTells
    <3> HIDE DEF other
    <3>7. Part(f, 7, n) = other
      <4>1. Holds(f, 7, other)
        <5> SUFFICES ASSUME NEW c \in 1 .. Len(other) PROVE At(f, 7, c) = other[c]
          BY DEF Holds
        <5>1. c \in 1 .. r /\ 7 + c - 1 \in 1 .. n
          BY <1>3, <3>5
        <5>2. (7 + c - 1 = i) <=> (c = x)
          BY <1>5, <3>2
        <5>3. f[7 + c - 1] = IF c = x THEN byte ELSE g[7 + c - 1]
          BY <1>4, <5>1, <5>2
        <5>4. data[c] = g[7 + c - 1]
          BY <3>3, <5>1 DEF At
        <5> QED
          BY <3>5, <5>1, <5>3, <5>4 DEF At
      <4>2. Span(f, 7, n, Len(other)) /\ other \in Seq(Octet)
        BY <1>7, <3>5
      <4> QED
        BY <1>5, <4>1, <4>2, PartEquals
    <3> QED
      BY <1>8, <3>1, <3>6, <3>7 DEF data
  <2> QED
    BY <1>5, <2>1, <2>2
<1>10. n = Len(f) /\ n >= 6
  BY <1>3, <1>4
<1> QED
  BY <1>3, <1>5, <1>9, <1>10, UnwrapRefuses DEF f

-----------------------------------------------------------------------------
(***************************************************************************)
(* packet.hh: what a writer leaves in the buffer.                          *)
(***************************************************************************)
IsPacket(p) == p \in [buf : Seq(Octet), end : Nat, pos : Nat] /\ p.end = Len(p.buf)

(* What was written before is left alone.                                  *)
Keeps(p, q) == \A x \in 1 .. p.end : x <= p.pos => q.buf[x] = p.buf[x]

LEMMA PutWrites ==
  ASSUME NEW p, IsPacket(p), NEW bytes \in Seq(Octet)
  PROVE  LET q == Put(p, bytes)
         IN  /\ IsPacket(q) /\ q.end = p.end /\ q.pos = p.pos + Len(bytes)
             /\ Keeps(p, q)
             /\ p.pos + Len(bytes) <= p.end => Holds(q.buf, p.pos + 1, bytes)
<1> DEFINE q == Put(p, bytes)
           n == Len(bytes)
           put == [i \in DOMAIN p.buf |-> IF i - p.pos \in DOMAIN bytes
                                          THEN bytes[i - p.pos] ELSE p.buf[i]]
<1>1. /\ p.buf \in Seq(Octet) /\ p.end \in Nat /\ p.pos \in Nat /\ p.end = Len(p.buf)
      /\ p = [buf |-> p.buf, end |-> p.end, pos |-> p.pos]
  BY DEF IsPacket
<1>2. n \in Nat /\ DOMAIN bytes = 1 .. n /\ \A c \in 1 .. n : bytes[c] \in Octet
  OBVIOUS
<1>3. DOMAIN p.buf = 1 .. p.end /\ \A i \in 1 .. p.end : p.buf[i] \in Octet
  BY <1>1
<1>4. /\ q.buf = IF p.end - p.pos >= n THEN put ELSE p.buf
      /\ q.end = p.end /\ q.pos = p.pos + n
      /\ q = [buf |-> q.buf, end |-> q.end, pos |-> q.pos]
  <2> DEFINE e == IF p.end - p.pos >= n THEN put ELSE p.buf
             m == p.pos + n
  <2>1. q = [p EXCEPT !.pos = m, !.buf = e]
    BY DEF Put, CanWrite
  <2>2. p \in [buf : Seq(Octet), end : Nat, pos : Nat]
    BY DEF IsPacket
  <2> HIDE DEF e, m, q
  <2>3. q = [buf |-> e, end |-> p.end, pos |-> m]
    BY <2>1, <2>2
  <2> QED
    BY <2>3 DEF e, m
<1>5. put \in [1 .. p.end -> Octet]
  <2> SUFFICES ASSUME NEW i \in 1 .. p.end PROVE put[i] \in Octet
    BY <1>3
  <2>1. CASE i - p.pos \in 1 .. n
    BY <1>2, <1>3, <2>1
  <2>2. CASE i - p.pos \notin 1 .. n
    BY <1>2, <1>3, <2>2
  <2> QED
    BY <2>1, <2>2
<1>6. put \in Seq(Octet) /\ Len(put) = p.end
  <2> DEFINE m == p.end
  <2>1. m \in Nat /\ put \in [1 .. m -> Octet]
    BY <1>1, <1>5
  <2> HIDE DEF m, put
  <2>2. put \in Seq(Octet) /\ Len(put) = m
    BY <2>1, SequencesOfLength
  <2> QED
    BY <2>2 DEF m
<1>7. \A i \in 1 .. p.end : put[i] = IF i - p.pos \in 1 .. n THEN bytes[i - p.pos] ELSE p.buf[i]
  BY <1>2, <1>3
<1> HIDE DEF put, q, n
<1>8. IsPacket(q) /\ q.end = p.end /\ q.pos = p.pos + n
  <2>1. q.buf \in Seq(Octet) /\ Len(q.buf) = p.end
    BY <1>1, <1>4, <1>6
  <2>2. q.end \in Nat /\ q.pos \in Nat
    BY <1>1, <1>2, <1>4
  <2> QED
    BY <1>4, <2>1, <2>2 DEF IsPacket
<1>9. Keeps(p, q)
  <2> SUFFICES ASSUME NEW x \in 1 .. p.end, x <= p.pos PROVE q.buf[x] = p.buf[x]
    BY DEF Keeps
  <2>1. put[x] = p.buf[x]
    BY <1>1, <1>2, <1>7
  <2> QED
    BY <1>4, <2>1
<1>10. ASSUME p.pos + n <= p.end
       PROVE  Holds(q.buf, p.pos + 1, bytes)
  <2> SUFFICES ASSUME NEW c \in 1 .. Len(bytes) PROVE At(q.buf, p.pos + 1, c) = bytes[c]
    BY DEF Holds
  <2>1. c \in 1 .. n
    BY DEF n
  <2>2. q.buf = put
    BY <1>1, <1>2, <1>4, <1>10
  <2>3. p.pos + c \in 1 .. p.end /\ (p.pos + c) - p.pos = c /\ (p.pos + 1) + c - 1 = p.pos + c
    BY <1>1, <1>2, <1>10, <2>1
  <2>4. put[p.pos + c] = bytes[c]
    BY <1>7, <2>1, <2>3
  <2> QED
    BY <2>2, <2>3, <2>4 DEF At
<1> QED
  BY <1>8, <1>9, <1>10 DEF q, n

(* A field as it is sent.                                                  *)
IsSent(f) ==
  \/ /\ f.kind = "int" /\ f.size \in {1, 2, 4}
     /\ f.value \in Nat /\ f.value < Values(f.size)
  \/ f.kind = "string" /\ f.value \in Seq(Octet) /\ Len(f.value) < Half

LEMMA SentIs ==
  ASSUME NEW f, IsField(f)
  PROVE  /\ IsSent(Sent(f)) /\ SizeOf(Sent(f)) \in Nat \ {0}
         /\ f.kind = "int" => Sent(f) = f
         /\ f.kind # "int" => /\ f.kind = "string" /\ Sent(f).kind = "string"
                              /\ Sent(f).value = SubSeq(f.value, 1, Len(f.value) % Half)
                              /\ Len(Sent(f).value) = Len(f.value) % Half
<1>1. CASE f.kind = "int"
  <2>1. f.size \in {1, 2, 4} /\ f.value \in Nat /\ f.value < Values(f.size)
    BY <1>1 DEF IsField
  <2> QED
    BY <1>1, <2>1 DEF Sent, SizeOf, IsSent
<1>2. CASE f.kind # "int"
  <2>1. f.kind = "string" /\ f.value \in Seq(Octet)
    BY <1>2 DEF IsField
  <2> DEFINE len == Len(f.value) % Half
             s == SubSeq(f.value, 1, len)
  <2>2. len \in Nat /\ len < Half /\ len <= Len(f.value)
    <3> DEFINE x == Len(f.value)
               y == Half * (x \div Half)
    <3>1. x \in Nat /\ Half \in Nat \ {0}
      BY <2>1, Bases
    <3> HIDE DEF x
    <3>2. x % Half \in 0 .. Half - 1 /\ x = y + (x % Half) /\ x \div Half \in Nat
      <4>1. x \in Int
        BY <3>1
      <4>2. /\ x % Half \in 0 .. Half - 1 /\ x = Half * (x \div Half) + (x % Half)
            /\ x \in Nat => x \div Half \in Nat
        BY <3>1, <4>1, Divided
      <4> QED
        BY <3>1, <4>2
    <3>3. y \in Nat
      BY <3>1, <3>2
    <3> HIDE DEF y
    <3>4. x % Half \in Nat /\ x % Half < Half /\ x % Half <= x
      BY <3>1, <3>2, <3>3
    <3> QED
      BY <3>4 DEF x
  <2> HIDE DEF len
  <2>3. s \in Seq(Octet) /\ Len(s) = len
    <3>1. Span(f.value, 1, len, len)
      BY <2>2 DEF Span
    <3>2. Part(f.value, 1, len) \in Seq(Octet) /\ Len(Part(f.value, 1, len)) = len
      BY <2>1, <2>2, <3>1, PartIs
    <3> QED
      BY <3>2 DEF Part
  <2>4. Sent(f) = [kind |-> "string", value |-> s]
    BY <1>2 DEF Sent, len
  <2> HIDE DEF s
  <2>5. IsSent(Sent(f)) /\ SizeOf(Sent(f)) = 2 + len
    BY <2>2, <2>3, <2>4 DEF IsSent, SizeOf
  <2> QED
    BY <1>2, <2>1, <2>2, <2>3, <2>4, <2>5 DEF len, s
<1> QED
  BY <1>1, <1>2

(* Where the first end bytes of buf have room for the field at this place, *)
(* its bytes are there.                                                    *)
Written(f, buf, at, end) ==
  IF f.kind = "int"
  THEN at + f.size <= end => Holds(buf, at + 1, WriteLE(f.value, f.size))
  ELSE /\ at + 2 <= end => Holds(buf, at + 1, WriteLE(Len(f.value), 2))
       /\ at + 2 + Len(f.value) <= end => Holds(buf, at + 3, f.value)

LEMMA FieldWritten ==
  ASSUME NEW p, IsPacket(p), NEW f, IsField(f)
  PROVE  LET q == WriteField(p, f)
         IN  /\ IsPacket(q) /\ q.end = p.end /\ q.pos = p.pos + SizeOf(Sent(f))
             /\ Keeps(p, q)
             /\ Written(Sent(f), q.buf, p.pos, p.end)
<1>1. p.pos \in Nat /\ p.end \in Nat
  BY DEF IsPacket
<1>2. CASE f.kind = "int"
  <2> DEFINE bytes == WriteLE(f.value, f.size)
             q == Put(p, bytes)
  <2>1. f.size \in {1, 2, 4} /\ f.value \in Nat /\ Sent(f) = f
    BY <1>2, SentIs DEF IsSent
  <2>2. bytes \in Seq(Octet) /\ Len(bytes) = f.size
    <3>1. f.size \in Nat
      BY <2>1
    <3> QED
      BY <2>1, <3>1, StoredBytes DEF WriteLE
  <2>3. WriteField(p, f) = q
    BY <1>2 DEF WriteField, WriteInt
  <2> HIDE DEF bytes
  <2>4. /\ IsPacket(q) /\ q.end = p.end /\ q.pos = p.pos + Len(bytes)
        /\ Keeps(p, q)
        /\ p.pos + Len(bytes) <= p.end => Holds(q.buf, p.pos + 1, bytes)
    BY <2>2, PutWrites
  <2> HIDE DEF q
  <2>5. Written(f, q.buf, p.pos, p.end)
    BY <1>2, <2>2, <2>4 DEF Written, bytes
  <2> QED
    BY <1>2, <2>1, <2>2, <2>3, <2>4, <2>5 DEF SizeOf
<1>3. CASE f.kind # "int"
  <2> DEFINE s == Sent(f).value
             len == Len(s)
             head == WriteLE(len, 2)
             q == Put(p, head)
             r == Put(q, s)
  <2>1. s \in Seq(Octet) /\ len \in Nat /\ len = Len(s) /\ Sent(f).kind = "string"
    BY <1>3, SentIs DEF IsSent
  <2>2. head \in Seq(Octet) /\ Len(head) = 2
    BY <2>1, StoredBytes DEF WriteLE
  <2>3. WriteField(p, f) = r
    BY <1>3, SentIs DEF WriteField, WriteString, WriteInt
  <2> HIDE DEF s, len, head
  <2>4. /\ IsPacket(q) /\ q.end = p.end /\ q.pos = p.pos + Len(head)
        /\ Keeps(p, q)
        /\ p.pos + Len(head) <= p.end => Holds(q.buf, p.pos + 1, head)
    BY <2>2, PutWrites
  <2> HIDE DEF q
  <2>5. /\ IsPacket(r) /\ r.end = q.end /\ r.pos = q.pos + Len(s)
        /\ Keeps(q, r)
        /\ q.pos + Len(s) <= q.end => Holds(r.buf, q.pos + 1, s)
    BY <2>1, <2>4, PutWrites
  <2> HIDE DEF r
  <2>6. q.pos = p.pos + 2 /\ r.pos = p.pos + (2 + len) /\ r.end = p.end
    BY SMTT(40), <1>1, <2>1, <2>2, <2>4, <2>5
  <2>7. Keeps(p, r)
    BY <1>1, <2>4, <2>5, <2>6 DEF Keeps
  <2>8. p.pos + 2 <= p.end => Holds(r.buf, p.pos + 1, head)
    <3> SUFFICES ASSUME p.pos + 2 <= p.end, NEW c \in 1 .. Len(head)
                 PROVE  At(r.buf, p.pos + 1, c) = head[c]
      BY DEF Holds
    <3>1. At(q.buf, p.pos + 1, c) = head[c]
      BY <2>2, <2>4 DEF Holds
    <3> DEFINE x == p.pos + 1 + c - 1
    <3>2. x \in 1 .. q.end /\ x <= q.pos
      BY <1>1, <2>2, <2>4, <2>6
    <3> HIDE DEF x
    <3>3. r.buf[x] = q.buf[x]
      BY <2>5, <3>2 DEF Keeps
    <3> QED
      BY <3>1, <3>3 DEF At, x
  <2>9. p.pos + 2 + len <= p.end => Holds(r.buf, p.pos + 3, s)
    <3>1. q.pos + 1 = p.pos + 3 /\ q.pos + Len(s) = p.pos + 2 + len
      BY <1>1, <2>1, <2>6
    <3> QED
      BY <2>4, <2>5, <3>1
  <2>10. Written(Sent(f), r.buf, p.pos, p.end)
    BY <2>1, <2>8, <2>9 DEF Written, s, len, head
  <2>11. SizeOf(Sent(f)) = 2 + len
    BY <2>1 DEF SizeOf, s, len
  <2> QED
    BY <2>3, <2>5, <2>6, <2>7, <2>10, <2>11
<1> QED
  BY <1>2, <1>3

(* What a reader finds of an integer, and of a string.                     *)
LEMMA ReadsInt ==
  ASSUME NEW p, IsPacket(p), NEW n \in {1, 2, 4}, NEW x \in Nat, x < Values(n),
         p.pos + n <= p.end => Holds(p.buf, p.pos + 1, WriteLE(x, n))
  PROVE  ReadInt(p, n) = IF p.pos + n <= p.end THEN x ELSE 0
<1>1. p.buf \in Seq(Octet) /\ p.end \in Nat /\ p.pos \in Nat /\ p.end = Len(p.buf) /\ n \in Nat
  BY DEF IsPacket
<1>2. CASE ~(p.pos + n <= p.end)
  <2>1. ~CanRead(p, n)
    BY <1>1, <1>2 DEF CanRead
  <2> QED
    BY <1>2, <2>1 DEF ReadInt
<1>3. CASE p.pos + n <= p.end
  <2> DEFINE t == WriteLE(x, n)
             i == p.pos + 1
             j == p.pos + n
  <2>1. t \in Seq(Octet) /\ Len(t) = n
    BY <1>1, StoredBytes DEF WriteLE
  <2>2. Loaded(t) = x
    BY IntegerRoundTrip DEF WriteLE
  <2>3. Holds(p.buf, i, t)
    BY <1>3
  <2>4. Span(p.buf, i, j, Len(t))
    BY <1>1, <1>3, <2>1 DEF Span
  <2>5. CanRead(p, n)
    BY <1>1, <1>3 DEF CanRead
  <2>6. ReadInt(p, n) = Loaded(Part(p.buf, i, j))
    BY <2>5 DEF ReadInt, ReadLE, Bytes, Part
  <2> HIDE DEF t, i, j
  <2>7. Part(p.buf, i, j) = t
    BY <1>1, <2>1, <2>3, <2>4, PartEquals
  <2> QED
    BY <1>3, <2>2, <2>6, <2>7
<1> QED
  BY <1>2, <1>3

LEMMA ReadsString ==
  ASSUME NEW p, IsPacket(p), NEW s \in Seq(Octet), Len(s) < Half, NEW maxlen \in Nat,
         p.pos + 2 <= p.end => Holds(p.buf, p.pos + 1, WriteLE(Len(s), 2)),
         p.pos + 2 + Len(s) <= p.end => Holds(p.buf, p.pos + 3, s)
  PROVE  /\ ReadInt(p, 2) = IF p.pos + 2 <= p.end THEN Len(s) ELSE 0
         /\ ReadString(p, maxlen) =
              IF p.pos + 2 + Len(s) <= p.end /\ Len(s) < maxlen THEN s ELSE <<>>
<1> DEFINE len == Len(s)
           at == Skip(p, 2)
           i == p.pos + 3
           j == p.pos + 2 + len
<1>1. /\ p.buf \in Seq(Octet) /\ p.end \in Nat /\ p.pos \in Nat /\ p.end = Len(p.buf)
      /\ len \in Nat /\ len < Half
  BY DEF IsPacket
<1>2. ReadInt(p, 2) = IF p.pos + 2 <= p.end THEN len ELSE 0
  <2>1. Values(2) = Half /\ 2 \in {1, 2, 4}
    BY DEF Values
  <2>2. len \in Nat /\ len < Values(2) /\ (p.pos + 2 <= p.end => Holds(p.buf, p.pos + 1, WriteLE(len, 2)))
    BY <1>1, <2>1
  <2> HIDE DEF len
  <2> QED
    BY <2>1, <2>2, ReadsInt
<1>3. at.buf = p.buf /\ at.end = p.end /\ at.pos = p.pos + 2
  BY DEF IsPacket, Skip
<1>4. p.pos + 2 + len <= p.end => Holds(p.buf, i, s)
  OBVIOUS
<1>5. CASE ~(p.pos + 2 + len <= p.end)
  <2>1. CASE p.pos + 2 <= p.end
    <3>1. ~CanRead(at, len)
      BY <1>1, <1>3, <1>5 DEF CanRead
    <3> QED
      BY <1>2, <1>5, <2>1, <3>1 DEF ReadString
  <2>2. CASE ~(p.pos + 2 <= p.end)
    BY <1>2, <1>5, <2>2 DEF ReadString
  <2> QED
    BY <2>1, <2>2
<1>6. CASE p.pos + 2 + len <= p.end
  <2>1. ReadInt(p, 2) = len /\ CanRead(at, len)
    BY SMTT(40), <1>1, <1>2, <1>3, <1>6 DEF CanRead
  <2>2. ReadString(p, maxlen) =
          IF len > 0 /\ maxlen > len THEN Part(p.buf, i, j) ELSE <<>>
    <3>1. at.pos + 1 = i /\ at.pos + len = j
      BY <1>1, <1>3
    <3> HIDE DEF i, j, at, len
    <3> QED
      BY <1>3, <2>1, <3>1 DEF ReadString, Bytes, Part, at
  <2>3. Span(p.buf, i, j, len)
    <3> HIDE DEF len
    <3> QED
      BY SMTT(40), <1>1, <1>6 DEF Span
  <2>4. Part(p.buf, i, j) = s
    <3> HIDE DEF i, j
    <3> QED
      BY <1>1, <1>4, <1>6, <2>3, PartEquals
  <2>5. len = 0 => s = <<>>
    OBVIOUS
  <2>6. ReadString(p, maxlen) = IF len < maxlen THEN s ELSE <<>>
    BY <1>1, <2>2, <2>4, <2>5
  <2> QED
    BY <1>2, <1>6, <2>6
<1> QED
  BY <1>2, <1>5, <1>6

(* A field is found in another buffer that has its bytes.                  *)
LEMMA WrittenMoved ==
  ASSUME NEW f, IsSent(f), NEW buf, NEW at \in Nat, NEW end \in Nat,
         NEW other, NEW place \in Nat, NEW last \in Nat,
         Written(f, buf, at, end),
         \A x \in 1 .. SizeOf(f) :
           place + x <= last => at + x <= end /\ other[place + x] = buf[at + x]
  PROVE  Written(f, other, place, last)
<1> DEFINE OK(x) == place + x <= last => at + x <= end /\ other[place + x] = buf[at + x]
<1> HIDE DEF OK
<1>1. \A x \in 1 .. SizeOf(f) : OK(x)
  BY DEF OK
<1>2. ASSUME NEW t, Len(t) \in Nat, SizeOf(f) \in Nat,
             NEW b \in Nat, NEW d \in Nat, b > at, b - at = d - place,
             b - at - 1 + Len(t) <= SizeOf(f), d - 1 + Len(t) <= last,
             Holds(buf, b, t)
      PROVE  Holds(other, d, t)
  <2> SUFFICES ASSUME NEW c \in 1 .. Len(t) PROVE At(other, d, c) = t[c]
    BY DEF Holds
  <2> DEFINE x == b - at - 1 + c
  <2>1. x \in 1 .. SizeOf(f) /\ place + x <= last /\ place + x = d + c - 1 /\ at + x = b + c - 1
    BY <1>2
  <2> HIDE DEF x
  <2>2. other[place + x] = buf[at + x]
    BY <1>1, <2>1 DEF OK
  <2>3. At(buf, b, c) = t[c]
    BY <1>2 DEF Holds
  <2> QED
    BY <2>1, <2>2, <2>3 DEF At
<1>3. CASE f.kind = "int"
  <2> DEFINE t == WriteLE(f.value, f.size)
  <2>1. f.size \in Nat /\ f.size >= 1 /\ f.value \in Nat /\ SizeOf(f) = f.size
    BY <1>3 DEF IsSent, SizeOf
  <2>2. Len(t) = f.size
    BY <2>1, StoredBytes DEF WriteLE
  <2>3. ASSUME place + f.size <= last
        PROVE  Holds(other, place + 1, t)
    <3>1. at + f.size <= end
      <4>1. f.size \in 1 .. SizeOf(f)
        BY <2>1
      <4> QED
        BY <1>1, <2>3, <4>1 DEF OK
    <3>2. Holds(buf, at + 1, t)
      BY <1>3, <3>1 DEF Written
    <3> HIDE DEF t
    <3> DEFINE b == at + 1
               d == place + 1
    <3>3. /\ b \in Nat /\ d \in Nat /\ b > at /\ b - at = d - place /\ Len(t) \in Nat
          /\ b - at - 1 + Len(t) <= SizeOf(f) /\ d - 1 + Len(t) <= last /\ SizeOf(f) \in Nat
      BY <2>1, <2>2, <2>3
    <3> HIDE DEF b, d
    <3>4. Holds(other, d, t)
      BY <1>2, <3>2, <3>3 DEF b
    <3> QED
      BY <3>4 DEF d
  <2> QED
    BY <1>3, <2>3 DEF Written
<1>4. CASE f.kind # "int"
  <2> DEFINE len == Len(f.value)
             t == WriteLE(len, 2)
  <2>1. f.value \in Seq(Octet) /\ len \in Nat /\ SizeOf(f) = 2 + len
    BY <1>4 DEF IsSent, SizeOf
  <2>2. Len(t) = 2
    <3>1. len \in Nat /\ 2 \in Nat
      BY <2>1
    <3> HIDE DEF len
    <3> QED
      BY <3>1, StoredBytes DEF WriteLE
  <2>3. ASSUME place + 2 <= last
        PROVE  Holds(other, place + 1, t)
    <3>1. at + 2 <= end
      <4>1. 2 \in 1 .. SizeOf(f)
        BY <2>1
      <4> QED
        BY <1>1, <2>3, <4>1 DEF OK
    <3>2. Holds(buf, at + 1, t)
      BY <1>4, <3>1 DEF Written
    <3> HIDE DEF t
    <3> DEFINE b == at + 1
               d == place + 1
    <3>3. /\ b \in Nat /\ d \in Nat /\ b > at /\ b - at = d - place /\ Len(t) \in Nat
          /\ b - at - 1 + Len(t) <= SizeOf(f) /\ d - 1 + Len(t) <= last /\ SizeOf(f) \in Nat
      BY <2>1, <2>2, <2>3
    <3> HIDE DEF b, d
    <3>4. Holds(other, d, t)
      BY <1>2, <3>2, <3>3 DEF b
    <3> QED
      BY <3>4 DEF d
  <2>4. ASSUME place + 2 + len <= last
        PROVE  Holds(other, place + 3, f.value)
    <3>1. at + 2 + len <= end
      <4>1. 2 + len \in 1 .. SizeOf(f) /\ place + (2 + len) <= last
        <5> HIDE DEF len
        <5> QED
          BY <2>1, <2>4
      <4>2. at + (2 + len) <= end
        BY <1>1, <4>1 DEF OK
      <4> HIDE DEF len
      <4> QED
        BY <2>1, <4>2
    <3>2. Holds(buf, at + 3, f.value)
      BY <1>4, <3>1 DEF Written
    <3> DEFINE b == at + 3
               d == place + 3
    <3>3. /\ b \in Nat /\ d \in Nat /\ b > at /\ b - at = d - place
          /\ b - at - 1 + len <= SizeOf(f) /\ d - 1 + len <= last /\ SizeOf(f) \in Nat
      <4> HIDE DEF len
      <4> QED
        BY <2>1, <2>4
    <3> HIDE DEF b, d
    <3>4. Holds(other, d, f.value)
      BY <1>2, <2>1, <3>2, <3>3 DEF b
    <3> QED
      BY <3>4 DEF d
  <2> QED
    BY <1>4, <2>3, <2>4 DEF Written
<1> QED
  BY <1>3, <1>4

(* Where the fields of a message end.                                      *)
End(fs, i) ==
  LET end[j \in 0 .. Len(fs)] ==
        IF j = 0 THEN 0 ELSE end[j - 1] + SizeOf(Sent(fs[j]))
  IN  end[i]

LEMMA FieldSizes ==
  ASSUME NEW fs \in Seq(Fields), NEW i \in 1 .. Len(fs)
  PROVE  IsField(fs[i]) /\ IsSent(Sent(fs[i])) /\ SizeOf(Sent(fs[i])) \in Nat \ {0}
<1>1. fs[i] \in Fields
  OBVIOUS
<1>2. IsField(fs[i])
  BY <1>1, MessagesAssumption
<1> QED
  BY <1>2, SentIs

LEMMA Ends ==
  ASSUME NEW fs \in Seq(Fields)
  PROVE  /\ End(fs, 0) = 0 /\ \A i \in 0 .. Len(fs) : End(fs, i) \in Nat
         /\ \A i \in 1 .. Len(fs) : End(fs, i) = End(fs, i - 1) + SizeOf(Sent(fs[i]))
<1> DEFINE n == Len(fs)
           size(i) == SizeOf(Sent(fs[i]))
           step == [i \in 1 .. n |-> [y \in Nat |-> y + size(i)]]
           end[j \in 0 .. n] == IF j = 0 THEN 0 ELSE end[j - 1] + size(j)
<1>1. n \in Nat
  OBVIOUS
<1>2. \A i \in 1 .. n : size(i) \in Nat
  BY FieldSizes
<1>3. \A i \in 0 .. n : End(fs, i) = end[i]
  BY DEF End
<1> HIDE DEF size, n
<1>4. step \in [1 .. n -> [Nat -> Nat]]
  BY <1>2
<1>5. PICK f \in [0 .. n -> Nat] : Iterates(f, n, 0, step)
  <2> HIDE DEF step
  <2> DEFINE S == Nat
  <2>1. 0 \in S /\ step \in [1 .. n -> [S -> S]]
    BY <1>4
  <2> HIDE DEF S
  <2>2. \E f \in [0 .. n -> S] : Iterates(f, n, 0, step)
    BY <1>1, <2>1, RecursionExists
  <2> QED
    BY <2>2 DEF S
<1>6. ASSUME NEW i \in 1 .. n
      PROVE  f[i] = f[i - 1] + size(i)
  <2>1. f[i - 1] \in Nat /\ f[i] = step[i][f[i - 1]]
    <3> HIDE DEF step
    <3>1. i - 1 \in 0 .. n
      BY <1>1
    <3> QED
      BY <1>5, <3>1 DEF Iterates
  <2> QED
    BY <2>1
<1>7. f = [i \in 0 .. n |-> IF i = 0 THEN 0 ELSE f[i - 1] + size(i)]
  BY <1>5, <1>6 DEF Iterates
<1>8. end = [i \in 0 .. n |-> IF i = 0 THEN 0 ELSE end[i - 1] + size(i)]
  BY <1>7
<1> HIDE DEF end, step
<1>9. end[0] = 0 /\ \A i \in 1 .. n : end[i] = end[i - 1] + size(i)
  BY <1>1, <1>8
<1>10. \A i \in 0 .. n : end[i] \in Nat
  <2> DEFINE T == {i \in 0 .. n : end[i] \in Nat}
  <2>1. 0 \in T
    BY <1>1, <1>9
  <2>2. ASSUME NEW i \in 1 .. n, i - 1 \in T
        PROVE  i \in T
    <3>1. end[i - 1] \in Nat
      BY <2>2
    <3>2. end[i] \in Nat
      BY <1>2, <1>9, <3>1
    <3> QED
      BY <1>1, <3>2
  <2> HIDE DEF T
  <2>3. \A i \in 0 .. n : i \in T
    BY <1>1, <2>1, <2>2, UpTo
  <2> QED
    BY <2>3 DEF T
<1>11. End(fs, 0) = 0 /\ \A i \in 0 .. n : End(fs, i) \in Nat
  <2>1. 0 \in 0 .. n
    BY <1>1
  <2>2. End(fs, 0) = 0
    BY <1>3, <1>9, <2>1
  <2>3. ASSUME NEW i \in 0 .. n PROVE End(fs, i) \in Nat
    BY <1>3, <1>10
  <2> QED
    BY <2>2, <2>3
<1>12. ASSUME NEW i \in 1 .. n
       PROVE  End(fs, i) = End(fs, i - 1) + size(i)
  <2>1. i \in 0 .. n /\ i - 1 \in 0 .. n
    BY <1>1
  <2> QED
    BY <1>3, <1>9, <2>1
<1> QED
  BY <1>11, <1>12 DEF n, size

LEMMA EndsGrow ==
  ASSUME NEW fs \in Seq(Fields), NEW j \in 0 .. Len(fs), NEW i \in 0 .. j
  PROVE  End(fs, i) <= End(fs, j)
<1> DEFINE n == Len(fs)
           m == n - i
           T == {d \in 0 .. m : End(fs, i) <= End(fs, i + d)}
<1>1. n \in Nat /\ i \in Nat /\ m \in Nat /\ i + m = n /\ j - i \in 0 .. m
  OBVIOUS
<1>2. \A k \in 0 .. n : End(fs, k) \in Nat
  BY Ends
<1>3. 0 \in T
  BY <1>1, <1>2
<1>4. ASSUME NEW d \in 1 .. m, d - 1 \in T
      PROVE  d \in T
  <2> DEFINE k == i + d
  <2>1. k \in 1 .. n /\ k - 1 = i + (d - 1) /\ k \in 0 .. n /\ k - 1 \in 0 .. n /\ i \in 0 .. n
    BY <1>1
  <2>2. End(fs, k) = End(fs, k - 1) + SizeOf(Sent(fs[k])) /\ SizeOf(Sent(fs[k])) \in Nat
    BY <2>1, Ends, FieldSizes
  <2>3. End(fs, i) <= End(fs, k - 1)
    BY <1>4, <2>1
  <2>4. End(fs, i) \in Nat /\ End(fs, k - 1) \in Nat
    BY <1>2, <2>1
  <2> HIDE DEF k
  <2>5. End(fs, i) <= End(fs, k)
    BY <2>2, <2>3, <2>4
  <2> QED
    BY <2>5 DEF k
<1> HIDE DEF T, m, n
<1>5. \A d \in 0 .. m : d \in T
  BY <1>1, <1>3, <1>4, UpTo
<1>6. j - i \in T /\ i + (j - i) = j
  BY <1>1, <1>5
<1> QED
  BY <1>6 DEF T

LEMMA EndsAppended ==
  ASSUME NEW fs \in Seq(Fields), NEW f \in Fields
  PROVE  LET gs == Append(fs, f)
             n  == Len(fs)
         IN  /\ gs \in Seq(Fields) /\ Len(gs) = n + 1 /\ gs[n + 1] = f
             /\ \A i \in 1 .. n : gs[i] = fs[i]
             /\ \A i \in 0 .. n : End(gs, i) = End(fs, i)
             /\ End(gs, n + 1) = End(fs, n) + SizeOf(Sent(f))
<1> DEFINE gs == Append(fs, f)
           n == Len(fs)
           T == {i \in 0 .. n : End(gs, i) = End(fs, i)}
<1>1. /\ n \in Nat /\ gs \in Seq(Fields) /\ Len(gs) = n + 1 /\ gs[n + 1] = f
      /\ \A i \in 1 .. n : gs[i] = fs[i]
  BY AppendProperties
<1> HIDE DEF gs
<1>2. /\ End(gs, 0) = 0
      /\ \A i \in 1 .. n + 1 : End(gs, i) = End(gs, i - 1) + SizeOf(Sent(gs[i]))
  BY <1>1, Ends
<1>3. /\ End(fs, 0) = 0
      /\ \A i \in 1 .. n : End(fs, i) = End(fs, i - 1) + SizeOf(Sent(fs[i]))
  BY Ends
<1> HIDE DEF n
<1>4. 0 \in T
  BY <1>1, <1>2, <1>3
<1>5. ASSUME NEW i \in 1 .. n, i - 1 \in T
      PROVE  i \in T
  <2>1. End(gs, i - 1) = End(fs, i - 1)
    BY <1>5
  <2>2. gs[i] = fs[i] /\ i \in 1 .. n + 1
    BY <1>1
  <2>3. End(gs, i) = End(fs, i)
    BY <1>2, <1>3, <2>1, <2>2
  <2> QED
    BY <1>1, <2>3
<1> HIDE DEF T
<1>6. \A i \in 0 .. n : i \in T
  BY <1>1, <1>4, <1>5, UpTo
<1>7. \A i \in 0 .. n : End(gs, i) = End(fs, i)
  BY <1>6 DEF T
<1>8. End(gs, n + 1) = End(fs, n) + SizeOf(Sent(f))
  <2>1. n + 1 \in 1 .. n + 1 /\ (n + 1) - 1 = n /\ n \in 0 .. n
    BY <1>1
  <2>2. End(gs, n + 1) = End(gs, n) + SizeOf(Sent(gs[n + 1]))
    BY <1>2, <2>1
  <2> QED
    BY <1>1, <1>7, <2>1, <2>2
<1> QED
  BY <1>1, <1>7, <1>8 DEF gs, n

(* All fields that the first end bytes of buf have room for are there, the *)
(* first behind off bytes.                                                 *)
Contains(fs, buf, off, end) ==
  \A i \in 1 .. Len(fs) : Written(Sent(fs[i]), buf, off + End(fs, i - 1), end)

(* The last bytes of other have the message that starts at off in buf.     *)
Moved(n, buf, off, end, other, place, last) ==
  \A y \in 1 .. n :
    place + y <= last => off + y <= end /\ other[place + y] = buf[off + y]

LEMMA ContainsMoved ==
  ASSUME NEW fs \in Seq(Fields), NEW buf, NEW off \in Nat, NEW end \in Nat,
         NEW other, NEW place \in Nat, NEW last \in Nat,
         Contains(fs, buf, off, end),
         Moved(End(fs, Len(fs)), buf, off, end, other, place, last)
  PROVE  Contains(fs, other, place, last)
<1> DEFINE OK(y) == place + y <= last => off + y <= end /\ other[place + y] = buf[off + y]
           n == Len(fs)
<1> HIDE DEF OK
<1>1. \A y \in 1 .. End(fs, n) : OK(y)
  BY DEF OK, Moved
<1> SUFFICES ASSUME NEW i \in 1 .. n
             PROVE  Written(Sent(fs[i]), other, place + End(fs, i - 1), last)
  BY DEF Contains
<1> DEFINE e == End(fs, i - 1)
           at == off + e
           to == place + e
           s == SizeOf(Sent(fs[i]))
<1>2. n \in Nat
  OBVIOUS
<1>3. e \in Nat /\ s \in Nat /\ e + s <= End(fs, n) /\ End(fs, n) \in Nat /\ IsSent(Sent(fs[i]))
  <2>1. i - 1 \in 0 .. n /\ i \in 0 .. n /\ n \in 0 .. n
    BY <1>2
  <2>2. End(fs, i - 1) \in Nat /\ End(fs, n) \in Nat /\ End(fs, i) = e + s
    BY <2>1, Ends
  <2>3. End(fs, i) <= End(fs, n)
    BY <2>1, EndsGrow
  <2> QED
    BY <2>2, <2>3, FieldSizes
<1>4. Written(Sent(fs[i]), buf, at, end)
  BY DEF Contains
<1> HIDE DEF e, s, n
<1>5. \A x \in 1 .. s : to + x <= last => at + x <= end /\ other[to + x] = buf[at + x]
  <2> SUFFICES ASSUME NEW x \in 1 .. s, to + x <= last
               PROVE  at + x <= end /\ other[to + x] = buf[at + x]
    OBVIOUS
  <2> DEFINE y == e + x
  <2>1. y \in 1 .. End(fs, n) /\ to + x = place + y /\ at + x = off + y
    BY <1>3
  <2> HIDE DEF y
  <2>2. OK(y)
    BY <1>1, <2>1
  <2> QED
    BY <2>1, <2>2 DEF OK
<1>6. at \in Nat /\ to \in Nat
  BY <1>3
<1> HIDE DEF at, to
<1>7. Written(Sent(fs[i]), other, to, last)
  <2>1. \A x \in 1 .. SizeOf(Sent(fs[i])) :
          to + x <= last => at + x <= end /\ other[to + x] = buf[at + x]
    BY <1>5 DEF s
  <2> QED
    BY <1>3, <1>4, <1>6, <2>1, WrittenMoved
<1> QED
  BY <1>7 DEF to, e

LEMMA ContainsWritten ==
  ASSUME NEW p, IsPacket(p), NEW fs \in Seq(Fields), NEW f \in Fields, NEW off \in Nat,
         p.pos = off + End(fs, Len(fs)), Contains(fs, p.buf, off, p.end)
  PROVE  LET q == WriteField(p, f)
         IN  /\ IsPacket(q) /\ q.end = p.end
             /\ q.pos = off + End(Append(fs, f), Len(fs) + 1)
             /\ Contains(Append(fs, f), q.buf, off, p.end)
<1> DEFINE q == WriteField(p, f)
           gs == Append(fs, f)
           n == Len(fs)
<1>1. /\ IsPacket(q) /\ q.end = p.end /\ q.pos = p.pos + SizeOf(Sent(f))
      /\ Keeps(p, q) /\ Written(Sent(f), q.buf, p.pos, p.end)
  BY FieldWritten, MessagesAssumption
<1>2. /\ gs \in Seq(Fields) /\ Len(gs) = n + 1 /\ gs[n + 1] = f
      /\ \A i \in 1 .. n : gs[i] = fs[i]
      /\ \A i \in 0 .. n : End(gs, i) = End(fs, i)
      /\ End(gs, n + 1) = End(fs, n) + SizeOf(Sent(f))
  BY EndsAppended
<1>3. n \in Nat /\ End(fs, n) \in Nat /\ SizeOf(Sent(f)) \in Nat /\ p.pos \in Nat /\ p.end \in Nat
  <2>1. n \in Nat /\ n \in 0 .. n
    OBVIOUS
  <2>2. IsField(f)
    BY MessagesAssumption
  <2> QED
    BY <2>1, <2>2, Ends, SentIs DEF IsPacket
<1> HIDE DEF q, gs
<1>4. Contains(fs, q.buf, off, p.end)
  <2>1. Moved(End(fs, Len(fs)), p.buf, off, p.end, q.buf, off, p.end)
    <3> SUFFICES ASSUME NEW y \in 1 .. End(fs, n), off + y <= p.end
                 PROVE  q.buf[off + y] = p.buf[off + y]
      BY DEF Moved
    <3>1. off + y \in 1 .. p.end /\ off + y <= p.pos
      BY <1>3
    <3> QED
      BY <1>1, <3>1 DEF Keeps
  <2> QED
    BY <1>3, <2>1, ContainsMoved
<1>5. ASSUME NEW i \in 1 .. n + 1
      PROVE  Written(Sent(gs[i]), q.buf, off + End(gs, i - 1), p.end)
  <2>1. CASE i = n + 1
    <3>1. i - 1 = n /\ n \in 0 .. n
      BY <1>3, <2>1
    <3>2. off + End(gs, i - 1) = p.pos /\ gs[i] = f
      BY <1>2, <2>1, <3>1
    <3> QED
      BY <1>1, <3>2
  <2>2. CASE i # n + 1
    <3>1. i \in 1 .. n /\ i - 1 \in 0 .. n
      BY <1>3, <2>2
    <3>2. gs[i] = fs[i] /\ End(gs, i - 1) = End(fs, i - 1)
      BY <1>2, <3>1
    <3>3. Written(Sent(fs[i]), q.buf, off + End(fs, i - 1), p.end)
      BY <1>4, <3>1 DEF Contains
    <3> QED
      BY <3>2, <3>3
  <2> QED
    BY <2>1, <2>2
<1>6. Contains(gs, q.buf, off, p.end)
  BY <1>2, <1>5 DEF Contains
<1>7. q.pos = off + End(gs, n + 1)
  <2> DEFINE a == End(fs, n)
  <2> HIDE DEF a, n
  <2>1. p.pos = off + a
    BY DEF a, n
  <2> QED
    BY <1>1, <1>2, <1>3, <2>1 DEF a
<1> QED
  BY <1>1, <1>6, <1>7 DEF q, gs

(* Whether a message fits with its padding, whose bytes fill it to blocks. *)
LEMMA PaddingFills ==
  ASSUME NEW pos \in Nat, pos >= 8, NEW end \in Nat, end >= 9
  PROVE  LET padding == (6 - pos) % 8
             room    == end - 6
         IN  /\ padding \in 0 .. 7 /\ \E m \in Nat : pos - 6 + padding = 8 * m
             /\ pos + padding <= end <=> pos - 6 <= room - (room % 8)
<1> DEFINE x == 6 - pos
           d == x % 8
           a == x \div 8
           y == end - 6
           r == y % 8
           b == y \div 8
<1>1. d \in 0 .. 7 /\ a \in Int /\ x = 8 * a + d /\ x \in Int
  BY Divided
<1>2. r \in 0 .. 7 /\ b \in Int /\ y = 8 * b + r /\ y \in Int
  BY Divided
<1>3. pos = 6 - x /\ end = y + 6
  OBVIOUS
<1> HIDE DEF x, y, d, a, r, b
<1>4. pos - 6 + d = 8 * (0 - a) /\ 0 - a \in Nat
  BY <1>1, <1>3
<1>5. pos + d <= end <=> 0 - a <= b
  BY <1>1, <1>2, <1>3
<1>6. pos - 6 <= y - r <=> 0 - a <= b
  BY <1>1, <1>2, <1>3
<1> QED
  BY <1>1, <1>4, <1>5, <1>6 DEF x, y, d, r

LEMMA WrapIs ==
  ASSUME NEW p, IsPacket(p), p.end \in 9 .. Half - 1, p.pos >= 8, NEW k \in Key4
  PROVE  LET w    == PacketWrap(p, k)
             room == p.end - 6
             g    == SubSeq(w.p.buf, 1, w.p.pos)
         IN  /\ w.result \in {"panic", "refused", "wrapped"}
             /\ w.result = "panic" => p.pos = 8
             /\ w.result = "refused" => ~(p.pos - 6 <= room - (room % 8))
             /\ w.result = "wrapped" =>
                  /\ p.pos - 6 <= room - (room % 8) /\ p.pos > 8 /\ p.pos <= p.end
                  /\ Carries(g, k, Part(p.buf, 9, p.pos))
                  /\ g \in Seq(Octet) /\ Len(g) <= p.end
                  /\ ReadLE(SubSeq(g, 1, 2)) = Len(g) - 2
<1> DEFINE w == PacketWrap(p, k)
           len == WrittenLen(p)
           padding == (6 - len) % 8
           pad == [i \in 1 .. padding |-> 51 % ByteBase]
           padded == Put(p, pad)
           head == WriteLE(len - 8, 2)
           body == SubSeq(padded.buf, 9, padded.pos)
           secret == XteaEncode(k, head \o body)
           rest == SubSeq(padded.buf, padded.pos + 1, Len(padded.buf))
           frameOf == WriteLE(Len(secret) + 4, 2) \o WriteLE(Adler32(secret), 4) \o secret
           room == p.end - 6
           fits == p.pos - 6 <= room - (room % 8)
<1>1. /\ p.buf \in Seq(Octet) /\ p.end \in Nat /\ p.pos \in Nat /\ p.end = Len(p.buf)
      /\ p.end >= 9 /\ p.end < Half /\ p.pos >= 8
  BY Bases DEF IsPacket
<1>2. w = IF len - 8 <= 0 THEN [result |-> "panic"]
          ELSE IF ~CanWrite(p, padding) THEN [result |-> "refused"]
          ELSE [result |-> "wrapped",
                p |-> [padded EXCEPT !.buf = frameOf \o SubSeq(@, padded.pos + 1, Len(@))]]
  BY DEF PacketWrap
<1>3. len \in Nat /\ len >= 8 /\ (p.pos <= p.end => len = p.pos) /\ (p.pos > p.end => len = p.end)
  BY <1>1 DEF WrittenLen, PacketOk
<1>4. padding \in 0 .. 7
  BY <1>1, <1>3, PaddingFills
<1>7. p.pos <= p.end =>
        /\ \E m \in Nat : p.pos - 6 + padding = 8 * m
        /\ p.pos + padding <= p.end <=> fits
  BY <1>1, <1>3, PaddingFills
<1>8. p.pos > p.end => ~fits
  <2> DEFINE r == room % 8
  <2>1. room \in Int /\ 8 \in Nat \ {0}
    BY <1>1
  <2>2. r \in 0 .. 8 - 1
    BY <2>1, Divided
  <2> HIDE DEF r
  <2>3. p.pos > p.end => ~(p.pos - 6 <= room - r)
    BY <1>1, <2>2
  <2> QED
    BY <2>3 DEF r
<1> HIDE DEF w, len, padding, fits
<1>5. CASE p.pos > p.end
  <2>1. len - 8 > 0 /\ ~CanWrite(p, padding)
    BY <1>1, <1>3, <1>4, <1>5 DEF CanWrite
  <2>2. ~fits
    BY <1>5, <1>8
  <2>3. w.result = "refused"
    BY <1>2, <1>3, <2>1
  <2> QED
    BY <2>2, <2>3 DEF w, fits
<1>6. CASE p.pos <= p.end
  <2>1. len = p.pos
    BY <1>3, <1>6
  <2>2. /\ \E m \in Nat : p.pos - 6 + padding = 8 * m
        /\ p.pos + padding <= p.end <=> fits
    BY <1>6, <1>7
  <2>3. CASE p.pos = 8
    <3>1. w = [result |-> "panic"]
      BY <1>2, <2>1, <2>3
    <3> QED
      BY <2>3, <3>1 DEF w
  <2>4. CASE p.pos # 8 /\ ~fits
    <3>1. ~(len - 8 <= 0) /\ ~CanWrite(p, padding)
      BY SMTT(40), <1>1, <1>4, <2>1, <2>2, <2>4 DEF CanWrite
    <3>2. w = [result |-> "refused"]
      BY <1>2, <3>1
    <3> QED
      BY <2>4, <3>2 DEF w, fits
  <2>5. CASE p.pos # 8 /\ fits
    <3> DEFINE n == p.pos + padding
               L == p.pos - 8
               payload == Part(p.buf, 9, p.pos)
    <3>1. PICK m \in Nat : p.pos - 6 + padding = 8 * m
      BY <2>2
    <3>2. n \in Nat /\ n <= p.end /\ n = 8 * m + 6 /\ L \in Nat /\ L > 0 /\ 8 + L = p.pos /\ n >= p.pos
      <4>1. p.pos + padding <= p.end
        BY <2>2, <2>5
      <4> DEFINE x == p.pos
                 y == p.end
                 z == 8 * m
      <4>2. /\ x \in Nat /\ x >= 8 /\ x # 8 /\ y \in Nat /\ padding \in 0 .. 7
            /\ x + padding <= y /\ x - 6 + padding = z /\ z \in Nat
        BY <1>1, <1>4, <2>5, <3>1, <4>1
      <4> HIDE DEF x, y, z
      <4>3. /\ x + padding \in Nat /\ x + padding = z + 6 /\ x - 8 \in Nat /\ x - 8 > 0
            /\ 8 + (x - 8) = x /\ x + padding >= x
        BY <4>2
      <4> QED
        BY <4>1, <4>3 DEF x, y, z
    <3>3. pad \in Seq(Octet) /\ Len(pad) = padding
      <4>1. 51 % ByteBase \in Octet
        BY Bases DEF Octet
      <4>2. pad \in [1 .. padding -> Octet] /\ padding \in Nat
        BY <1>4, <4>1
      <4> HIDE DEF pad, padding
      <4> QED
        BY <4>2, SequencesOfLength
    <3> HIDE DEF pad
    <3>4. /\ padded.buf \in Seq(Octet) /\ Len(padded.buf) = p.end /\ padded.pos = n
          /\ padded \in [buf : Seq(Octet), end : Nat, pos : Nat]
          /\ \A x \in 1 .. p.pos : padded.buf[x] = p.buf[x]
      <4>1. IsPacket(padded) /\ padded.end = p.end /\ padded.pos = p.pos + Len(pad) /\ Keeps(p, padded)
        BY <3>3, PutWrites
      <4> HIDE DEF padded
      <4> QED
        BY <1>1, <1>6, <3>3, <4>1 DEF IsPacket, Keeps
    <3> HIDE DEF padded, n
    <3> DEFINE bufp == padded.buf
    <3> DEFINE l == n - 8
    <3>5. body = Part(bufp, 9, n) /\ bufp \in Seq(Octet)
      BY <3>4 DEF Part
    <3>6. /\ body \in Seq(Octet) /\ Len(body) = l /\ l \in Nat
          /\ \A c \in 1 .. l : body[c] = At(bufp, 9, c)
      <4>1. Span(bufp, 9, n, l) /\ l \in Nat
        BY <3>2, <3>4 DEF Span
      <4> HIDE DEF body, bufp, l
      <4> QED
        BY <3>5, <4>1, PartIs
    <3>7. /\ payload \in Seq(Octet) /\ Len(payload) = L
          /\ \A c \in 1 .. L : payload[c] = At(p.buf, 9, c)
      <4>1. Span(p.buf, 9, p.pos, L) /\ L \in Nat
        BY <1>1, <1>6, <3>2 DEF Span
      <4> HIDE DEF payload, L
      <4> QED
        BY <1>1, <4>1, PartIs DEF payload
    <3> HIDE DEF body, payload
    <3>8. Part(body, 1, L) = payload
      <4>1. Span(body, 1, L, Len(payload))
        BY <1>1, <3>2, <3>6, <3>7 DEF Span
      <4>2. Holds(body, 1, payload)
        <5> SUFFICES ASSUME NEW c \in 1 .. Len(payload) PROVE At(body, 1, c) = payload[c]
          BY DEF Holds
        <5>1. c \in 1 .. L /\ c \in 1 .. l /\ 1 + c - 1 = c /\ 9 + c - 1 \in 1 .. p.pos
          BY <1>1, <3>2, <3>7
        <5>2. bufp[9 + c - 1] = p.buf[9 + c - 1]
          BY <3>4, <5>1
        <5> QED
          BY <3>6, <3>7, <5>1, <5>2 DEF At
      <4> HIDE DEF L
      <4> QED
        BY <3>6, <3>7, <4>1, <4>2, PartEquals
    <3>9. head \in Seq(Octet) /\ Len(head) = 2 /\ head = WriteLE(Len(payload), 2)
      <4>1. len - 8 = L
        BY <2>1
      <4> HIDE DEF L, len
      <4> QED
        BY <3>2, <3>7, <4>1, StoredBytes DEF WriteLE
    <3> HIDE DEF head
    <3>10. secret \in Seq(Octet) /\ Len(secret) = 8 * m
      <4> DEFINE plain == head \o body
      <4>1. plain \in Seq(Octet) /\ Len(plain) = Len(head) + Len(body)
        BY <3>6, <3>9, Joined
      <4> HIDE DEF plain
      <4>2. Len(plain) = 8 * m
        <5>1. Len(plain) = 2 + l /\ n = 8 * m + 6 /\ n \in Nat
          BY <3>2, <3>6, <3>9, <4>1
        <5> QED
          BY <5>1
      <4>3. XteaEncode(k, plain) \in Seq(Octet) /\ Len(XteaEncode(k, plain)) = 8 * m
        BY <4>1, <4>2, <3>1, XteaInverse
      <4> QED
        BY <4>3 DEF plain
    <3> HIDE DEF secret
    <3> DEFINE g == FrameOf(secret)
    <3>11. g \in Seq(Octet) /\ Len(g) = n /\ SubSeq(g, 1, 2) = WriteLE(Len(secret) + 4, 2)
      <4>1. n = 6 + Len(secret)
        BY <3>2, <3>10
      <4> QED
        BY <3>2, <3>10, <4>1, FrameParts
    <3>12. Carries(g, k, payload)
      <4>1. 2 + Len(body) = 8 * m /\ Len(payload) <= Len(body)
        BY <1>1, <3>2, <3>6, <3>7
      <4>2. Part(body, 1, Len(payload)) = payload
        BY <3>7, <3>8
      <4>3. g = FrameOf(XteaEncode(k, WriteLE(Len(payload), 2) \o body))
        BY <3>9 DEF secret
      <4> HIDE DEF g
      <4> QED
        BY <3>6, <4>1, <4>2, <4>3 DEF Carries
    <3>13. ~(len - 8 <= 0) /\ CanWrite(p, padding)
      BY SMTT(40), <1>1, <1>4, <2>1, <2>2, <2>5 DEF CanWrite
    <3>14. w = [result |-> "wrapped",
                p |-> [padded EXCEPT !.buf = g \o SubSeq(@, padded.pos + 1, Len(@))]]
      BY <1>2, <3>13 DEF FrameOf
    <3>15. w.result = "wrapped" /\ w.p.buf = g \o rest /\ w.p.pos = n
      <4> HIDE DEF g, w
      <4> QED
        BY <3>4, <3>14
    <3>16. SubSeq(w.p.buf, 1, w.p.pos) = g
      <4> DEFINE s == p.end - n
      <4>1. Span(bufp, n + 1, p.end, s) /\ s \in Nat
        <5> DEFINE e == p.end
        <5>1. Len(bufp) = e /\ e \in Nat /\ n \in Nat /\ n <= e
          BY <1>1, <3>2, <3>4
        <5> HIDE DEF bufp, e
        <5>2. Span(bufp, n + 1, e, e - n) /\ e - n \in Nat
          BY <5>1 DEF Span
        <5> QED
          BY <5>2 DEF e
      <4>2. rest = Part(bufp, n + 1, p.end)
        BY <3>4 DEF Part
      <4> HIDE DEF g, rest, s, w
      <4>3. rest \in Seq(Octet) /\ Len(rest) = s
        <5> DEFINE i == n + 1
        <5>1. Span(bufp, i, p.end, s) /\ rest = Part(bufp, i, p.end)
          BY <4>1, <4>2
        <5> HIDE DEF i, bufp
        <5> QED
          BY <3>5, <4>1, <5>1, PartIs
      <4>4. SubSeq(g \o rest, 1, n) = g
        <5> DEFINE i == n + 1
                   h == n + s
        <5>1. i \in Nat /\ h \in Nat /\ i = n + 1 /\ h = n + s
          BY <3>2, <4>1
        <5> HIDE DEF i, h
        <5> QED
          BY <3>2, <3>11, <4>1, <4>3, <5>1, JoinedParts
      <4> QED
        BY <3>15, <4>4
    <3>17. ReadLE(SubSeq(g, 1, 2)) = Len(g) - 2
      <4> DEFINE x == Len(secret) + 4
      <4>1. x \in Nat /\ x < Half /\ x = n - 2
        BY <1>1, <3>2, <3>10, Bases
      <4>2. Values(2) = Half
        BY DEF Values
      <4> HIDE DEF x
      <4>3. Loaded(Stored(x, 2)) = x
        BY <4>1, <4>2, IntegerRoundTrip
      <4>4. SubSeq(g, 1, 2) = WriteLE(x, 2)
        BY <3>11 DEF x
      <4> HIDE DEF g
      <4> QED
        BY <3>11, <4>1, <4>3, <4>4 DEF ReadLE, WriteLE
    <3> HIDE DEF g, w
    <3>18. p.pos > 8 /\ Len(g) <= p.end
      BY <1>1, <2>5, <3>2, <3>11
    <3> QED
      BY <1>6, <2>5, <3>11, <3>12, <3>15, <3>16, <3>17, <3>18 DEF payload, w, fits
  <2> QED
    BY <2>3, <2>4, <2>5
<1>9. p.pos > p.end \/ p.pos <= p.end
  BY <1>1
<1> QED
  BY <1>5, <1>6, <1>9

(* A message without bytes has no fields.                                  *)
LEMMA NothingWritten ==
  ASSUME NEW fs \in Seq(Fields), End(fs, Len(fs)) = 0
  PROVE  fs = <<>>
<1> SUFFICES ASSUME fs # <<>> PROVE FALSE
  OBVIOUS
<1>1. Len(fs) \in Nat /\ Len(fs) >= 1
  BY EmptySeq
<1>2. 1 \in 1 .. Len(fs) /\ 1 \in 0 .. Len(fs) /\ Len(fs) \in 0 .. Len(fs) /\ 1 \in 0 .. Len(fs)
      /\ 1 - 1 = 0
  BY <1>1
<1>3. End(fs, 1) = End(fs, 0) + SizeOf(Sent(fs[1])) /\ End(fs, 0) = 0
  BY <1>2, Ends
<1>4. SizeOf(Sent(fs[1])) \in Nat \ {0}
  BY <1>2, FieldSizes
<1>5. End(fs, 1) <= End(fs, Len(fs))
  BY <1>2, EndsGrow
<1> QED
  BY <1>3, <1>4, <1>5

(* What the reader of fs must find in field i of a message of n bytes.     *)
Due(fs, i, n) ==
  LET f == Sent(fs[i])
  IN  IF End(fs, i) <= n /\ (f.kind = "int" \/ Len(f.value) < MaxLen) THEN f.value
      ELSE IF f.kind = "int" THEN 0 ELSE <<>>

(* The reader p has taken j fields: it is behind them, or both are past    *)
(* the end of the message.                                                 *)
Taken(fs, p, j) ==
  \/ p.pos = End(fs, j)
  \/ p.pos > p.end /\ End(fs, j) > p.end

LEMMA SkipIs ==
  ASSUME NEW p, IsPacket(p), NEW n \in Nat
  PROVE  LET q == Skip(p, n)
         IN  IsPacket(q) /\ q.buf = p.buf /\ q.end = p.end /\ q.pos = p.pos + n
<1>1. p.pos + n \in Nat
  BY DEF IsPacket
<1> QED
  BY <1>1 DEF IsPacket, Skip

LEMMA NumberRead ==
  ASSUME NEW fs \in Seq(Fields), NEW j \in 0 .. Len(fs) - 1, NEW p, IsPacket(p),
         Contains(fs, p.buf, 0, p.end), Taken(fs, p, j), fs[j + 1].kind = "int"
  PROVE  LET size == fs[j + 1].size
             q    == Skip(p, size)
         IN  /\ IsPacket(q) /\ q.buf = p.buf /\ q.end = p.end /\ Taken(fs, q, j + 1)
             /\ ReadInt(p, size) = Due(fs, j + 1, p.end) /\ ReadInt(p, size) \in Nat
<1> DEFINE i == j + 1
           f == fs[i]
           n == f.size
           e == End(fs, j)
           q == Skip(p, n)
<1>1. /\ Len(fs) \in Nat /\ i \in 1 .. Len(fs) /\ i \in 0 .. Len(fs)
      /\ j \in 0 .. Len(fs) /\ i - 1 = j
  OBVIOUS
<1>2. f \in Fields /\ IsField(f) /\ f.kind = "int"
  BY <1>1, FieldSizes
<1>3. Sent(f) = f /\ n \in {1, 2, 4} /\ n \in Nat /\ f.value \in Nat /\ f.value < Values(n)
  BY <1>2, SentIs DEF IsSent
<1>4. End(fs, i) = e + n /\ e \in Nat
  <2>1. SizeOf(Sent(f)) = n
    BY <1>2, <1>3 DEF SizeOf
  <2> QED
    BY <1>1, <2>1, Ends
<1>5. p.pos \in Nat /\ p.end \in Nat
  BY DEF IsPacket
<1>6. Written(f, p.buf, 0 + End(fs, i - 1), p.end)
  BY <1>1, <1>3 DEF Contains
<1>7. Due(fs, i, p.end) = IF e + n <= p.end THEN f.value ELSE 0
  BY <1>2, <1>3, <1>4 DEF Due
<1> HIDE DEF i, f, n
<1>8. IsPacket(q) /\ q.buf = p.buf /\ q.end = p.end /\ q.pos = p.pos + n
  BY <1>3, SkipIs
<1> HIDE DEF q
<1>9. ReadInt(p, n) = Due(fs, i, p.end)
  <2>1. CASE p.pos = e
    <3>1. Written(f, p.buf, p.pos, p.end)
      <4>1. 0 + End(fs, i - 1) = p.pos
        BY <1>1, <1>4, <2>1
      <4> QED
        BY <1>6, <4>1
    <3>2. p.pos + n <= p.end => Holds(p.buf, p.pos + 1, WriteLE(f.value, n))
      BY <1>2, <3>1 DEF Written, n
    <3>3. ReadInt(p, n) = IF p.pos + n <= p.end THEN f.value ELSE 0
      BY <1>3, <3>2, ReadsInt
    <3> QED
      BY <1>7, <2>1, <3>3
  <2>2. CASE p.pos > p.end /\ e > p.end
    <3>1. ~CanRead(p, n) /\ ~(e + n <= p.end)
      BY SMTT(40), <1>3, <1>4, <1>5, <2>2 DEF CanRead
    <3> QED
      BY <1>7, <3>1 DEF ReadInt
  <2> QED
    BY <2>1, <2>2 DEF Taken
<1>10. Taken(fs, q, i)
  <2>1. q.pos = e + n \/ (q.pos > p.end /\ e + n > p.end)
    BY SMTT(40), <1>3, <1>4, <1>5, <1>8 DEF Taken
  <2> QED
    BY <1>4, <1>8, <2>1 DEF Taken
<1>11. ReadInt(p, n) \in Nat
  BY <1>3, <1>7, <1>9
<1> QED
  BY <1>8, <1>9, <1>10, <1>11 DEF i, f, n, q

LEMMA TextRead ==
  ASSUME NEW fs \in Seq(Fields), NEW j \in 0 .. Len(fs) - 1, NEW p, IsPacket(p),
         Contains(fs, p.buf, 0, p.end), Taken(fs, p, j), fs[j + 1].kind = "string"
  PROVE  LET q == SkipString(p)
             s == ReadString(p, MaxLen)
         IN  /\ IsPacket(q) /\ q.buf = p.buf /\ q.end = p.end /\ Taken(fs, q, j + 1)
             /\ s = Due(fs, j + 1, p.end) /\ s \in Seq(Octet)
<1> DEFINE i == j + 1
           f == fs[i]
           s == Sent(f).value
           n == Len(s)
           e == End(fs, j)
           q == SkipString(p)
           len == ReadInt(p, 2)
<1>1. /\ Len(fs) \in Nat /\ i \in 1 .. Len(fs) /\ i \in 0 .. Len(fs)
      /\ j \in 0 .. Len(fs) /\ i - 1 = j
  OBVIOUS
<1>2. f \in Fields /\ IsField(f) /\ f.kind = "string"
  BY <1>1, FieldSizes
<1>3. s \in Seq(Octet) /\ n \in Nat /\ n < Half /\ Sent(f).kind = "string"
  BY <1>2, SentIs DEF IsSent
<1>4. End(fs, i) = e + (2 + n) /\ e \in Nat
  <2>1. SizeOf(Sent(f)) = 2 + n
    BY <1>3 DEF SizeOf
  <2> QED
    BY <1>1, <2>1, Ends
<1>5. p.pos \in Nat /\ p.end \in Nat
  BY DEF IsPacket
<1>6. Written(Sent(f), p.buf, 0 + End(fs, i - 1), p.end)
  BY <1>1 DEF Contains
<1>7. Due(fs, i, p.end) = IF e + (2 + n) <= p.end /\ n < MaxLen THEN s ELSE <<>>
  BY <1>3, <1>4 DEF Due
<1>8. q = Skip(p, 2 + len)
  BY DEF SkipString
<1> HIDE DEF i, f, s, q
<1>9. /\ len = IF p.pos + 2 <= p.end /\ p.pos = e THEN n ELSE 0
      /\ ReadString(p, MaxLen) = Due(fs, i, p.end)
  <2>1. CASE p.pos = e
    <3>1. Written(Sent(f), p.buf, p.pos, p.end)
      <4>1. 0 + End(fs, i - 1) = p.pos
        BY <1>1, <1>4, <2>1
      <4> QED
        BY <1>6, <4>1
    <3>2. /\ p.pos + 2 <= p.end => Holds(p.buf, p.pos + 1, WriteLE(Len(s), 2))
          /\ p.pos + 2 + Len(s) <= p.end => Holds(p.buf, p.pos + 3, s)
      BY <1>3, <3>1 DEF Written, s
    <3>3. /\ ReadInt(p, 2) = IF p.pos + 2 <= p.end THEN Len(s) ELSE 0
          /\ ReadString(p, MaxLen) =
               IF p.pos + 2 + Len(s) <= p.end /\ Len(s) < MaxLen THEN s ELSE <<>>
      BY <1>3, <3>2, ReadsString, MessagesAssumption
    <3>4. p.pos + 2 + Len(s) = e + (2 + n)
      BY <1>3, <1>4, <2>1
    <3> QED
      BY <1>7, <2>1, <3>3, <3>4
  <2>2. CASE p.pos > p.end /\ e > p.end
    <3>1. ~CanRead(p, 2) /\ ~(e + (2 + n) <= p.end) /\ ~(p.pos + 2 <= p.end)
      BY SMTT(40), <1>3, <1>4, <1>5, <2>2 DEF CanRead
    <3>2. len = 0
      BY <3>1 DEF ReadInt
    <3>3. ReadString(p, MaxLen) = <<>>
      <4>1. ~(len > 0)
        BY <3>2
      <4> QED
        BY <4>1 DEF ReadString
    <3> QED
      BY <1>7, <3>1, <3>2, <3>3
  <2> QED
    BY <2>1, <2>2 DEF Taken
<1> HIDE DEF len, n
<1>10. len \in Nat
  BY <1>3, <1>9
<1>11. IsPacket(q) /\ q.buf = p.buf /\ q.end = p.end /\ q.pos = p.pos + (2 + len)
  <2>1. 2 + len \in Nat
    BY <1>10
  <2> QED
    BY <1>8, <2>1, SkipIs
<1>12. Taken(fs, q, i)
  <2>1. q.pos = e + (2 + n) \/ (q.pos > p.end /\ e + (2 + n) > p.end)
    BY SMTT(40), <1>3, <1>4, <1>5, <1>9, <1>11 DEF Taken
  <2> QED
    BY <1>4, <1>11, <2>1 DEF Taken
<1>13. ReadString(p, MaxLen) \in Seq(Octet)
  BY <1>3, <1>7, <1>9
<1> QED
  BY <1>9, <1>11, <1>12, <1>13 DEF i, q

-----------------------------------------------------------------------------
(***************************************************************************)
(* The message on its way.                                                 *)
(***************************************************************************)
Fits ==
  LET room == BufferSize - 6
  IN  End(fields, Len(fields)) + 2 <= room - (room % 8)

TypeInv ==
  /\ key \in Key4
  /\ fields \in Seq(Fields)

WritingInv ==
  pc = "writing" =>
    /\ IsPacket(out) /\ out.end = BufferSize
    /\ out.pos = 8 + End(fields, Len(fields))
    /\ Contains(fields, out.buf, 8, BufferSize)
    /\ frame = <<>> /\ got = <<>> /\ changed = FALSE

(* g is the frame that packet_wrap made of the fields.                     *)
Made(g, payload) ==
  /\ payload \in Seq(Octet) /\ Len(payload) < Half
  /\ Len(payload) = End(fields, Len(fields))
  /\ Contains(fields, payload, 0, Len(payload))
  /\ g \in Seq(Octet) /\ Carries(g, key, payload)

OneChange(g, f) ==
  \E i \in 3 .. Len(g), byte \in Octet : g[i] # byte /\ f = [g EXCEPT ![i] = byte]

WrappedInv ==
  pc = "wrapped" =>
    /\ Fits /\ got = <<>>
    /\ frame \in Seq(Octet) /\ ReadLE(SubSeq(frame, 1, 2)) = Len(frame) - 2
    /\ changed \in BOOLEAN
    /\ \E g, payload :
         /\ Made(g, payload)
         /\ ~changed => frame = g
         /\ changed => OneChange(g, frame)

Readable == Nat \union Seq(Octet)

ReadingInv ==
  pc = "reading" =>
    /\ IsPacket(in) /\ Contains(fields, in.buf, 0, in.end)
    /\ got \in Seq(Readable) /\ Len(got) <= Len(fields)
    /\ Taken(fields, in, Len(got))
    /\ \A i \in 1 .. Len(got) : got[i] = Due(fields, i, in.end)
    /\ frame # <<>> => ~changed /\ in.end = End(fields, Len(fields))

EndedInv ==
  /\ pc = "panic" => fields = <<>>
  /\ pc = "refused" => ~Fits
  /\ pc = "rejected" => changed

MessageInv == TypeInv /\ WritingInv /\ WrappedInv /\ ReadingInv /\ EndedInv

LEMMA Constants ==
  /\ BufferSize \in Nat /\ BufferSize >= 9 /\ BufferSize < Half
  /\ MaxLen \in Nat /\ Keys \subseteq Key4 /\ Changes \subseteq Octet
BY MessagesAssumption, Bases DEF Key4, Words

LEMMA MessageInit == MsgInit => MessageInv
<1> SUFFICES ASSUME MsgInit PROVE MessageInv
  OBVIOUS
<1>1. fields = <<>> /\ fields \in Seq(Fields) /\ Len(fields) = 0 /\ pc = "writing"
  BY DEF MsgInit
<1>2. End(fields, Len(fields)) = 0
  BY <1>1, Ends
<1>3. PICK byte \in Changes :
        out = [buf |-> [i \in 1 .. BufferSize |-> byte], end |-> BufferSize, pos |-> 8]
  BY DEF MsgInit
<1> DEFINE buf == [i \in 1 .. BufferSize |-> byte]
<1>4. buf \in Seq(Octet) /\ Len(buf) = BufferSize
  <2>1. buf \in [1 .. BufferSize -> Octet]
    BY Constants
  <2> HIDE DEF buf
  <2> QED
    BY <2>1, Constants, SequencesOfLength
<1> HIDE DEF buf
<1>5. out = [buf |-> buf, end |-> BufferSize, pos |-> 8]
  BY <1>3 DEF buf
<1>6. IsPacket(out) /\ out.end = BufferSize /\ out.pos = 8
  BY <1>4, <1>5, Constants DEF IsPacket
<1>7. Contains(fields, out.buf, 8, BufferSize)
  BY <1>1 DEF Contains
<1>8. TypeInv
  BY <1>1, Constants DEF MsgInit, TypeInv
<1>9. WritingInv
  BY <1>2, <1>6, <1>7 DEF MsgInit, WritingInv
<1> QED
  BY <1>1, <1>8, <1>9 DEF MessageInv, WrappedInv, ReadingInv, EndedInv

(* Every action keeps the invariant.                                       *)
LEMMA PutFieldKeeps == MessageInv /\ PutField => MessageInv'
<1> SUFFICES ASSUME MessageInv, PutField PROVE MessageInv'
  OBVIOUS
<1>1. /\ pc = "writing" /\ pc' = "writing"
      /\ UNCHANGED <<key, frame, changed, in, got>>
  BY DEF PutField
<1>2. PICK f \in Fields : fields' = Append(fields, f) /\ out' = WriteField(out, f)
  BY DEF PutField
<1>3. /\ fields \in Seq(Fields) /\ IsPacket(out) /\ out.end = BufferSize
      /\ out.pos = 8 + End(fields, Len(fields)) /\ Contains(fields, out.buf, 8, out.end)
  BY <1>1 DEF MessageInv, TypeInv, WritingInv
<1>4. 8 \in Nat
  OBVIOUS
<1>5. /\ IsPacket(out') /\ out'.end = out.end
      /\ out'.pos = 8 + End(fields', Len(fields) + 1)
      /\ Contains(fields', out'.buf, 8, out.end)
  BY <1>2, <1>3, <1>4, ContainsWritten
<1>6. fields' \in Seq(Fields) /\ Len(fields') = Len(fields) + 1
  BY <1>2, <1>3, EndsAppended
<1>7. TypeInv'
  BY <1>1, <1>6 DEF MessageInv, TypeInv
<1>8. WritingInv'
  BY <1>1, <1>3, <1>5, <1>6 DEF MessageInv, WritingInv
<1> QED
  BY <1>1, <1>7, <1>8 DEF MessageInv, WrappedInv, ReadingInv, EndedInv

(* What is cut out of the buffer has the fields that it has room for.      *)
LEMMA CutOut ==
  ASSUME NEW p, IsPacket(p), NEW fs \in Seq(Fields), Contains(fs, p.buf, 8, p.end),
         NEW n \in Nat, 8 + n <= p.end, NEW payload, payload = Part(p.buf, 9, 8 + n)
  PROVE  payload \in Seq(Octet) /\ Len(payload) = n /\ Contains(fs, payload, 0, n)
<1> DEFINE j == 8 + n
<1>1. p.buf \in Seq(Octet) /\ p.end \in Nat /\ p.end = Len(p.buf)
  BY DEF IsPacket
<1>2. Span(p.buf, 9, j, n)
  BY <1>1 DEF Span
<1>3. payload = Part(p.buf, 9, j)
  OBVIOUS
<1> HIDE DEF j
<1>4. payload \in Seq(Octet) /\ Len(payload) = n /\ \A c \in 1 .. n : payload[c] = At(p.buf, 9, c)
  BY <1>1, <1>2, <1>3, PartIs
<1>5. ASSUME NEW y \in 1 .. End(fs, Len(fs)), 0 + y <= n
      PROVE  8 + y <= p.end /\ payload[0 + y] = p.buf[8 + y]
  <2>1. End(fs, Len(fs)) \in Nat
    <3>1. Len(fs) \in 0 .. Len(fs)
      OBVIOUS
    <3> QED
      BY <3>1, Ends
  <2>2. y \in 1 .. n /\ 0 + y = y /\ 9 + y - 1 = 8 + y /\ 8 + y <= p.end
    BY <1>1, <1>5, <2>1
  <2> QED
    BY <1>4, <2>2 DEF At
<1>6. Contains(fs, payload, 0, n)
  <2>1. 0 \in Nat /\ 8 \in Nat
    OBVIOUS
  <2>2. Moved(End(fs, Len(fs)), p.buf, 8, p.end, payload, 0, n)
    BY <1>5 DEF Moved
  <2> DEFINE buf == p.buf
             end == p.end
             zero == 0
             eight == 8
  <2>3. /\ zero \in Nat /\ eight \in Nat /\ end \in Nat /\ Contains(fs, buf, eight, end)
        /\ Moved(End(fs, Len(fs)), buf, eight, end, payload, zero, n)
    BY <1>1, <2>2
  <2> HIDE DEF buf, end, zero, eight
  <2>4. Contains(fs, payload, zero, n)
    BY <2>3, ContainsMoved
  <2> QED
    BY <2>4 DEF zero
<1> QED
  BY <1>4, <1>6

LEMMA WrapKeeps == MessageInv /\ Wrap => MessageInv'
<1> SUFFICES ASSUME MessageInv, Wrap PROVE MessageInv'
  OBVIOUS
<1> DEFINE w == PacketWrap(out, key)
           g == SubSeq(w.p.buf, 1, w.p.pos)
           e == End(fields, Len(fields))
           room == BufferSize - 6
           payload == Part(out.buf, 9, out.pos)
<1>1. /\ pc = "writing" /\ pc' = w.result
      /\ w.result = "wrapped" => frame' = g
      /\ UNCHANGED <<key, fields, changed, in, got>>
  BY DEF Wrap
<1>2. /\ fields \in Seq(Fields) /\ IsPacket(out) /\ out.end = BufferSize
      /\ out.pos = 8 + e /\ Contains(fields, out.buf, 8, out.end)
      /\ key \in Key4 /\ frame = <<>> /\ got = <<>> /\ changed = FALSE
  BY <1>1 DEF MessageInv, TypeInv, WritingInv
<1>3. e \in Nat
  <2>1. Len(fields) \in 0 .. Len(fields)
    BY <1>2
  <2> QED
    BY <1>2, <2>1, Ends
<1>4. /\ w.result \in {"panic", "refused", "wrapped"}
      /\ w.result = "panic" => out.pos = 8
      /\ w.result = "refused" => ~(out.pos - 6 <= room - (room % 8))
      /\ w.result = "wrapped" =>
           /\ out.pos - 6 <= room - (room % 8) /\ out.pos > 8 /\ out.pos <= out.end
           /\ Carries(g, key, payload)
           /\ g \in Seq(Octet) /\ Len(g) <= out.end
           /\ ReadLE(SubSeq(g, 1, 2)) = Len(g) - 2
  <2>1. out.end \in 9 .. Half - 1 /\ out.pos >= 8
    BY <1>2, <1>3, MessagesAssumption
  <2> QED
    BY <1>2, <2>1, WrapIs
<1>5. Fits <=> out.pos - 6 <= room - (room % 8)
  <2> DEFINE limit == room - (room % 8)
  <2>1. Fits <=> e + 2 <= limit
    BY DEF Fits
  <2>2. out.pos - 6 = e + 2
    BY <1>2, <1>3
  <2> QED
    BY <2>1, <2>2
<1>6. Fits' <=> Fits
  BY <1>1 DEF Fits
<1> HIDE DEF w, g, payload
<1>7. TypeInv' /\ WritingInv' /\ ReadingInv'
  BY <1>1, <1>4 DEF MessageInv, TypeInv, WritingInv, ReadingInv
<1>8. EndedInv'
  <2>1. ASSUME w.result = "panic" PROVE fields' = <<>>
    <3>1. e = 0
      BY <1>2, <1>3, <1>4, <2>1
    <3> QED
      BY <1>1, <1>2, <3>1, NothingWritten
  <2>2. ASSUME w.result = "refused" PROVE ~Fits'
    BY <1>4, <1>5, <1>6, <2>2
  <2>3. pc' # "rejected"
    BY <1>1, <1>4
  <2> QED
    BY <1>1, <2>1, <2>2, <2>3 DEF EndedInv
<1>9. WrappedInv'
  <2> SUFFICES ASSUME w.result = "wrapped"
               PROVE  /\ Fits' /\ got' = <<>>
                      /\ frame' \in Seq(Octet) /\ ReadLE(SubSeq(frame', 1, 2)) = Len(frame') - 2
                      /\ changed' \in BOOLEAN
                      /\ \E h, data :
                           /\ Made(h, data)'
                           /\ ~changed' => frame' = h
                           /\ changed' => OneChange(h, frame')
    BY <1>1 DEF WrappedInv, OneChange
  <2>1. /\ Fits' /\ got' = <<>> /\ frame' = g /\ g \in Seq(Octet) /\ changed' = FALSE
        /\ ReadLE(SubSeq(g, 1, 2)) = Len(g) - 2
    BY <1>1, <1>2, <1>4, <1>5, <1>6
  <2>2. out.pos = 8 + e /\ 8 + e <= out.end
    BY <1>2, <1>4
  <2>3. payload \in Seq(Octet) /\ Len(payload) = e /\ Contains(fields, payload, 0, e)
    <3>1. payload = Part(out.buf, 9, 8 + e)
      BY <2>2 DEF payload
    <3> HIDE DEF e
    <3> QED
      BY <1>2, <1>3, <2>2, <3>1, CutOut
  <2>4. e < Half
    BY <1>2, <1>3, <2>2, Constants, Bases
  <2>5. Made(g, payload)
    BY <1>4, <2>1, <2>3, <2>4 DEF Made
  <2>6. PICK h, data : h = g /\ data = payload
    OBVIOUS
  <2>7. Made(h, data) /\ frame' = h
    BY <2>1, <2>5, <2>6
  <2>8. Made(h, data)'
    BY <1>1, <2>7 DEF Made
  <2> QED
    BY <2>1, <2>7, <2>8
<1> QED
  BY <1>7, <1>8, <1>9 DEF MessageInv

LEMMA CutShortKeeps == MessageInv /\ CutShort => MessageInv'
<1> SUFFICES ASSUME MessageInv, CutShort PROVE MessageInv'
  OBVIOUS
<1> DEFINE end == WrittenLen(out)
           whole == Part(out.buf, 9, end)
<1>1. /\ pc = "writing" /\ pc' = "reading"
      /\ UNCHANGED <<key, fields, out, frame, changed, got>>
  BY DEF CutShort
<1>2. PICK n \in 0 .. Len(whole) : in' = InPacket(Part(whole, 1, n))
  BY DEF CutShort, Payload, Part
<1>3. /\ fields \in Seq(Fields) /\ IsPacket(out) /\ out.end = BufferSize
      /\ out.pos = 8 + End(fields, Len(fields)) /\ Contains(fields, out.buf, 8, out.end)
      /\ key \in Key4 /\ frame = <<>> /\ got = <<>> /\ changed = FALSE
  BY <1>1 DEF MessageInv, TypeInv, WritingInv
<1>4. End(fields, Len(fields)) \in Nat /\ Len(fields) \in Nat /\ End(fields, 0) = 0
  <2>1. Len(fields) \in 0 .. Len(fields)
    BY <1>3
  <2> QED
    BY <1>3, <2>1, Ends
<1>5. end \in Nat /\ end >= 8 /\ end <= out.end
  BY <1>3, <1>4, Constants DEF WrittenLen, PacketOk, IsPacket
<1>6. out.buf \in Seq(Octet) /\ out.end = Len(out.buf) /\ out.end \in Nat
  BY <1>3 DEF IsPacket
<1> HIDE DEF end
<1> DEFINE m == end - 8
<1>7. Span(out.buf, 9, end, m) /\ m \in Nat
  BY <1>5, <1>6 DEF Span
<1>8. /\ whole \in Seq(Octet) /\ Len(whole) = m
      /\ \A c \in 1 .. m : whole[c] = At(out.buf, 9, c)
  <2> HIDE DEF m
  <2> QED
    BY <1>6, <1>7, PartIs
<1> HIDE DEF whole
<1>9. n \in Nat /\ n <= m
  BY <1>7, <1>8
<1> DEFINE j == 8 + n
           data == Part(whole, 1, n)
<1>10. Span(whole, 1, n, n) /\ Span(out.buf, 9, j, n)
  BY <1>5, <1>6, <1>8, <1>9 DEF Span
<1>11. Same(whole, 1, out.buf, 9, n)
  <2> SUFFICES ASSUME NEW c \in 1 .. n PROVE At(whole, 1, c) = At(out.buf, 9, c)
    BY DEF Same
  <2>1. c \in 1 .. m /\ 1 + c - 1 = c
    BY <1>7, <1>9
  <2> QED
    BY <1>8, <2>1 DEF At
<1>12. data = Part(out.buf, 9, j)
  <2> HIDE DEF j, m
  <2>1. whole \in Seq(Octet)
    BY <1>8
  <2> QED
    BY <1>6, <1>9, <1>10, <1>11, <2>1, SamePart
<1>13. data \in Seq(Octet) /\ Len(data) = n /\ Contains(fields, data, 0, n)
  <2>1. 8 + n <= out.end
    BY <1>5, <1>6, <1>9
  <2> HIDE DEF data
  <2> QED
    BY <1>3, <1>9, <1>12, <2>1, CutOut
<1> HIDE DEF data
<1>14. in' = [buf |-> data, end |-> n, pos |-> 0]
  BY <1>2, <1>13 DEF InPacket, data
<1>15. IsPacket(in') /\ in'.buf = data /\ in'.end = n /\ in'.pos = 0
  BY <1>9, <1>13, <1>14 DEF IsPacket
<1>16. TypeInv'
  BY <1>1 DEF MessageInv, TypeInv
<1>17. ReadingInv'
  <2>1. Len(got) = 0 /\ got \in Seq(Readable)
    BY <1>3
  <2>2. Taken(fields, in', 0)
    BY <1>4, <1>15 DEF Taken
  <2>3. Contains(fields, in'.buf, 0, in'.end)
    BY <1>13, <1>15
  <2>4. \A i \in 1 .. Len(got) : got[i] = Due(fields, i, in'.end)
    BY <2>1
  <2> QED
    BY <1>1, <1>3, <1>4, <1>15, <2>1, <2>2, <2>3, <2>4 DEF ReadingInv
<1> QED
  BY <1>1, <1>16, <1>17 DEF MessageInv, WritingInv, WrappedInv, EndedInv

LEMMA ChangeKeeps == MessageInv /\ Change => MessageInv'
<1> SUFFICES ASSUME MessageInv, Change PROVE MessageInv'
  OBVIOUS
<1>1. /\ pc = "wrapped" /\ pc' = "wrapped" /\ ~changed /\ changed' = TRUE
      /\ UNCHANGED <<key, fields, out, in, got>>
  BY DEF Change
<1>2. PICK i \in 3 .. Len(frame), byte \in Changes :
        frame[i] # byte /\ frame' = [frame EXCEPT ![i] = byte]
  BY DEF Change
<1>3. /\ Fits /\ got = <<>> /\ frame \in Seq(Octet)
      /\ ReadLE(SubSeq(frame, 1, 2)) = Len(frame) - 2
  BY <1>1 DEF MessageInv, WrappedInv
<1>4. PICK g, payload : Made(g, payload) /\ frame = g
  BY <1>1 DEF MessageInv, WrappedInv
<1>5. byte \in Octet
  BY Constants
<1>6. frame' \in Seq(Octet) /\ Len(frame') = Len(frame)
      /\ \A c \in 1 .. Len(frame) : c # i => frame'[c] = frame[c]
  BY <1>2, <1>3, <1>5
<1>7. Part(frame', 1, 2) = Part(frame, 1, 2)
  <2> DEFINE f == frame
             h == frame'
             n == 2
  <2>1. Len(f) \in Nat /\ Len(f) >= 3
    BY <1>3
  <2>2. Span(h, 1, 2, n) /\ Span(f, 1, 2, n) /\ n \in Nat
    BY <1>6, <2>1 DEF Span
  <2>3. Same(h, 1, f, 1, n)
    <3> SUFFICES ASSUME NEW c \in 1 .. 2 PROVE At(h, 1, c) = At(f, 1, c)
      BY DEF Same
    <3>1. 1 + c - 1 = c /\ c \in 1 .. Len(frame) /\ c # i
      BY <2>1
    <3> QED
      BY <1>6, <3>1 DEF At
  <2>4. h \in Seq(Octet) /\ f \in Seq(Octet)
    BY <1>3, <1>6
  <2> HIDE DEF f, h, n
  <2>5. Part(h, 1, 2) = Part(f, 1, 2)
    BY <2>2, <2>3, <2>4, SamePart
  <2> QED
    BY <2>5 DEF f, h
<1>8. ReadLE(SubSeq(frame', 1, 2)) = Len(frame') - 2
  BY <1>3, <1>6, <1>7 DEF Part
<1>9. OneChange(g, frame')
  BY <1>2, <1>4, <1>5 DEF OneChange
<1>10. Made(g, payload)'
  BY <1>1, <1>4 DEF Made
<1>11. Fits'
  BY <1>1, <1>3 DEF Fits
<1>12. WrappedInv'
  <2>1. \E h, data : /\ Made(h, data)'
                     /\ ~changed' => frame' = h
                     /\ changed' => OneChange(h, frame')
    BY <1>1, <1>9, <1>10
  <2> QED
    BY <1>1, <1>3, <1>6, <1>8, <1>11, <2>1 DEF WrappedInv, OneChange
<1> QED
  BY <1>1, <1>12 DEF MessageInv, TypeInv, WritingInv, ReadingInv, EndedInv

LEMMA UnwrapKeeps == MessageInv /\ Unwrap => MessageInv'
<1> SUFFICES ASSUME MessageInv, Unwrap PROVE MessageInv'
  OBVIOUS
<1> DEFINE u == PacketUnwrap(SubSeq(frame, 3, Len(frame)), key)
<1>1. /\ pc = "wrapped"
      /\ IF u.ok THEN pc' = "reading" /\ in' = u.p ELSE pc' = "rejected" /\ UNCHANGED in
      /\ UNCHANGED <<key, fields, out, frame, changed, got>>
  BY DEF Unwrap
<1>2. got = <<>> /\ changed \in BOOLEAN /\ key \in Key4 /\ fields \in Seq(Fields)
  BY <1>1 DEF MessageInv, TypeInv, WrappedInv
<1>3. PICK g, payload :
        /\ Made(g, payload)
        /\ ~changed => frame = g
        /\ changed => OneChange(g, frame)
  BY <1>1 DEF MessageInv, WrappedInv
<1>4. /\ payload \in Seq(Octet) /\ Len(payload) < Half
      /\ Len(payload) = End(fields, Len(fields))
      /\ Contains(fields, payload, 0, Len(payload))
      /\ g \in Seq(Octet) /\ Carries(g, key, payload)
  BY <1>3 DEF Made
<1>5. CASE changed
  <2>1. PICK i \in 3 .. Len(g), byte \in Octet : g[i] # byte /\ frame = [g EXCEPT ![i] = byte]
    BY <1>3, <1>5 DEF OneChange
  <2>2. u.ok = FALSE
    BY <1>2, <1>4, <2>1, UnwrapChanged
  <2> HIDE DEF u
  <2>3. pc' = "rejected"
    BY <1>1, <2>2
  <2> QED
    BY <1>1, <1>5, <2>3 DEF MessageInv, TypeInv, WritingInv, WrappedInv, ReadingInv, EndedInv
<1>6. CASE ~changed
  <2>1. u = [ok |-> TRUE, p |-> InPacket(payload)]
    BY <1>2, <1>3, <1>4, <1>6, UnwrapWhole
  <2> HIDE DEF u
  <2>2. pc' = "reading" /\ in' = [buf |-> payload, end |-> Len(payload), pos |-> 0]
    BY <1>1, <2>1 DEF InPacket
  <2>3. IsPacket(in') /\ in'.buf = payload /\ in'.end = Len(payload) /\ in'.pos = 0
    <3>1. Len(payload) \in Nat
      BY <1>4
    <3> QED
      BY <1>4, <2>2, <3>1 DEF IsPacket
  <2>4. ReadingInv'
    <3>1. Len(got) = 0 /\ got \in Seq(Readable) /\ Len(fields) \in Nat
      BY <1>2
    <3>2. Taken(fields, in', 0)
      BY <1>2, <2>3, Ends DEF Taken
    <3>3. Contains(fields, in'.buf, 0, in'.end)
      BY <1>4, <2>3
    <3>4. \A i \in 1 .. Len(got) : got[i] = Due(fields, i, in'.end)
      BY <3>1
    <3> QED
      BY <1>1, <1>4, <1>6, <2>3, <3>1, <3>2, <3>3, <3>4 DEF ReadingInv
  <2>5. TypeInv'
    BY <1>1 DEF MessageInv, TypeInv
  <2> QED
    BY <2>2, <2>4, <2>5 DEF MessageInv, WritingInv, WrappedInv, EndedInv
<1> QED
  BY <1>2, <1>5, <1>6

(* What a reader does with a field.                                        *)
LEMMA ReadKeeps ==
  ASSUME MessageInv, pc = "reading", Len(got) < Len(fields),
         UNCHANGED <<pc, key, fields, out, frame, changed>>,
         NEW x \in Readable, got' = Append(got, x),
         IsPacket(in'), in'.buf = in.buf, in'.end = in.end,
         Taken(fields, in', Len(got) + 1), x = Due(fields, Len(got) + 1, in.end)
  PROVE  MessageInv'
<1> DEFINE n == Len(got)
<1>1. /\ got \in Seq(Readable) /\ fields \in Seq(Fields)
      /\ \A i \in 1 .. n : got[i] = Due(fields, i, in.end)
      /\ Contains(fields, in.buf, 0, in.end)
      /\ frame # <<>> => ~changed /\ in.end = End(fields, Len(fields))
  BY DEF MessageInv, TypeInv, ReadingInv
<1>2. n \in Nat /\ Len(fields) \in Nat /\ n < Len(fields)
  BY <1>1
<1>3. /\ got' \in Seq(Readable) /\ Len(got') = n + 1 /\ got'[n + 1] = x
      /\ \A i \in 1 .. n : got'[i] = got[i]
  BY <1>1, AppendProperties
<1>4. \A i \in 1 .. Len(got') : got'[i] = Due(fields, i, in'.end)
  <2> SUFFICES ASSUME NEW i \in 1 .. n + 1 PROVE got'[i] = Due(fields, i, in.end)
    BY <1>3
  <2> HIDE DEF n
  <2>1. CASE i = n + 1
    BY <1>3, <2>1 DEF n
  <2>2. CASE i # n + 1
    <3>1. i \in 1 .. n
      BY <1>2, <2>2
    <3> QED
      BY <1>1, <1>3, <3>1
  <2> QED
    BY <2>1, <2>2
<1>5. ReadingInv'
  <2>1. Len(got') <= Len(fields) /\ Taken(fields, in', Len(got'))
    BY <1>2, <1>3
  <2> HIDE DEF n
  <2> QED
    BY <1>1, <1>3, <1>4, <2>1 DEF ReadingInv
<1> QED
  BY <1>5 DEF MessageInv, TypeInv, WritingInv, WrappedInv, EndedInv

LEMMA ReadNumberKeeps == MessageInv /\ ReadNumber => MessageInv'
<1> SUFFICES ASSUME MessageInv, ReadNumber PROVE MessageInv'
  OBVIOUS
<1> DEFINE j == Len(got)
           size == fields[j + 1].size
           x == ReadInt(in, size)
<1>1. /\ pc = "reading" /\ Len(got) < Len(fields) /\ fields[j + 1].kind = "int"
      /\ got' = Append(got, x) /\ in' = Skip(in, size)
      /\ UNCHANGED <<pc, key, fields, out, frame, changed>>
  BY DEF ReadNumber
<1>2. /\ fields \in Seq(Fields) /\ IsPacket(in) /\ Contains(fields, in.buf, 0, in.end)
      /\ Taken(fields, in, j) /\ got \in Seq(Readable)
  BY <1>1 DEF MessageInv, TypeInv, ReadingInv
<1>3. j \in 0 .. Len(fields) - 1
  BY <1>1, <1>2
<1>4. /\ IsPacket(in') /\ in'.buf = in.buf /\ in'.end = in.end /\ Taken(fields, in', j + 1)
      /\ x = Due(fields, j + 1, in.end) /\ x \in Nat
  BY <1>1, <1>2, <1>3, NumberRead
<1>5. x \in Readable
  BY <1>4 DEF Readable
<1> HIDE DEF x
<1> QED
  BY <1>1, <1>4, <1>5, ReadKeeps

LEMMA ReadTextKeeps == MessageInv /\ ReadText => MessageInv'
<1> SUFFICES ASSUME MessageInv, ReadText PROVE MessageInv'
  OBVIOUS
<1> DEFINE j == Len(got)
           x == ReadString(in, MaxLen)
<1>1. /\ pc = "reading" /\ Len(got) < Len(fields) /\ fields[j + 1].kind = "string"
      /\ got' = Append(got, x) /\ in' = SkipString(in)
      /\ UNCHANGED <<pc, key, fields, out, frame, changed>>
  BY DEF ReadText
<1>2. /\ fields \in Seq(Fields) /\ IsPacket(in) /\ Contains(fields, in.buf, 0, in.end)
      /\ Taken(fields, in, j) /\ got \in Seq(Readable)
  BY <1>1 DEF MessageInv, TypeInv, ReadingInv
<1>3. j \in 0 .. Len(fields) - 1
  BY <1>1, <1>2
<1>4. /\ IsPacket(in') /\ in'.buf = in.buf /\ in'.end = in.end /\ Taken(fields, in', j + 1)
      /\ x = Due(fields, j + 1, in.end) /\ x \in Seq(Octet)
  BY <1>1, <1>2, <1>3, TextRead
<1>5. x \in Readable
  BY <1>4 DEF Readable
<1> HIDE DEF x
<1> QED
  BY <1>1, <1>4, <1>5, ReadKeeps

LEMMA MessageStep == MessageInv /\ [MsgNext]_msgVars => MessageInv'
<1> SUFFICES ASSUME MessageInv, [MsgNext]_msgVars PROVE MessageInv'
  OBVIOUS
<1>1. CASE PutField
  BY <1>1, PutFieldKeeps
<1>2. CASE Wrap
  BY <1>2, WrapKeeps
<1>3. CASE CutShort
  BY <1>3, CutShortKeeps
<1>4. CASE Change
  BY <1>4, ChangeKeeps
<1>5. CASE Unwrap
  BY <1>5, UnwrapKeeps
<1>6. CASE ReadNumber
  BY <1>6, ReadNumberKeeps
<1>7. CASE ReadText
  BY <1>7, ReadTextKeeps
<1>8. CASE UNCHANGED msgVars
  BY <1>8 DEF msgVars, MessageInv, TypeInv, WritingInv, WrappedInv, ReadingInv, EndedInv,
              Fits, Made, OneChange
<1> QED
  BY <1>1, <1>2, <1>3, <1>4, <1>5, <1>6, <1>7, <1>8 DEF MsgNext

LEMMA MessageInvHolds == MsgSpec => []MessageInv
<1>1. MsgInit => MessageInv
  BY MessageInit
<1>2. MessageInv /\ [MsgNext]_msgVars => MessageInv'
  BY MessageStep
<1> QED
  BY <1>1, <1>2, PTL DEF MsgSpec

LEMMA EndOfIs ==
  /\ \A i : EndOf(i) = End(fields, i)
  /\ \A i, n : Received(i, n) = Due(fields, i, n)
<1>1. \A i : EndOf(i) = End(fields, i)
  BY DEF EndOf, End
<1>2. \A i, n : Received(i, n) = Due(fields, i, n)
  BY <1>1 DEF Received, Due
<1> QED
  BY <1>1, <1>2

(* A packet that is read field by field is as it was written, whatever its *)
(* fields, wherever the message ends: packet.hh.                           *)
THEOREM ReadAsWritten == MsgSpec => []FieldsAsWritten
<1> SUFFICES ASSUME MessageInv PROVE FieldsAsWritten
  BY MessageInvHolds, PTL
<1>1. fields \in Seq(Fields) /\ Len(fields) \in 0 .. Len(fields) /\ Len(fields) \in Nat
  BY DEF MessageInv, TypeInv
<1>2. ASSUME pc = "writing"
      PROVE  PacketOk(out) <=> 8 + EndOf(Len(fields)) <= BufferSize
  <2>1. out.end = BufferSize /\ out.pos = 8 + End(fields, Len(fields))
    BY <1>2 DEF MessageInv, WritingInv
  <2> QED
    BY <2>1, EndOfIs DEF PacketOk
<1>3. ASSUME pc = "reading"
      PROVE  /\ \A i \in DOMAIN got : got[i] = Received(i, in.end)
             /\ PacketOk(in) <=> EndOf(Len(got)) <= in.end
  <2>1. /\ got \in Seq(Readable) /\ Len(got) <= Len(fields)
        /\ \A i \in 1 .. Len(got) : got[i] = Due(fields, i, in.end)
        /\ Taken(fields, in, Len(got)) /\ IsPacket(in)
    BY <1>3 DEF MessageInv, ReadingInv
  <2>2. Len(got) \in 0 .. Len(fields)
    BY <1>1, <2>1
  <2>3. End(fields, Len(got)) \in Nat /\ in.end \in Nat /\ in.pos \in Nat
    BY <1>1, <2>1, <2>2, Ends DEF IsPacket
  <2>4. PacketOk(in) <=> End(fields, Len(got)) <= in.end
    BY <2>1, <2>3 DEF Taken, PacketOk
  <2> QED
    BY <2>1, <2>4, EndOfIs
<1> QED
  BY <1>2, <1>3 DEF FieldsAsWritten

(* What packet_wrap sends is what packet_unwrap gives out at the other     *)
(* end, and a frame with any one byte changed is refused.                  *)
THEOREM WrapSurvives == MsgSpec => []MessagesSurviveWrap
<1> SUFFICES ASSUME MessageInv PROVE MessagesSurviveWrap
  BY MessageInvHolds, PTL
<1> DEFINE room == BufferSize - 6
           limit == room - (room % 8)
<1>1. Fits <=> EndOf(Len(fields)) + 2 <= limit
  BY EndOfIs DEF Fits
<1>2. pc = "panic" => fields = <<>>
  BY DEF MessageInv, EndedInv
<1>3. pc = "refused" => ~Fits
  BY DEF MessageInv, EndedInv
<1>4. pc = "wrapped" => Fits /\ ReadLE(SubSeq(frame, 1, 2)) = Len(frame) - 2
  BY DEF MessageInv, WrappedInv
<1>5. pc = "rejected" => changed
  BY DEF MessageInv, EndedInv
<1>6. pc = "reading" /\ frame # <<>> => ~changed /\ in.end = EndOf(Len(fields))
  BY EndOfIs DEF MessageInv, ReadingInv
<1> QED
  BY <1>1, <1>2, <1>3, <1>4, <1>5, <1>6 DEF MessagesSurviveWrap

(* adler32 is the checksum its definition says, and the one of a frame is  *)
(* that of the bytes behind it.                                            *)
THEOREM ChecksumIsExact == MsgSpec => []ChecksumExact
<1> SUFFICES ASSUME MessageInv, pc = "wrapped"
             PROVE  /\ ~changed =>
                         ReadLE(SubSeq(frame, 3, 6)) = ChecksumOf(SubSeq(frame, 7, Len(frame)))
                    /\ \A n \in 0 .. Len(frame) :
                         Adler32(SubSeq(frame, 1, n)) = ChecksumOf(SubSeq(frame, 1, n))
  BY MessageInvHolds, PTL DEF ChecksumExact
<1>1. frame \in Seq(Octet) /\ Len(frame) \in Nat /\ key \in Key4
  BY DEF MessageInv, WrappedInv, TypeInv
<1>2. ASSUME NEW n \in 0 .. Len(frame)
      PROVE  Adler32(SubSeq(frame, 1, n)) = ChecksumOf(SubSeq(frame, 1, n))
  <2>1. n \in Nat /\ Span(frame, 1, n, n)
    BY <1>1 DEF Span
  <2>2. Part(frame, 1, n) \in Seq(Octet)
    BY <1>1, <2>1, PartIs
  <2> QED
    BY <2>2, ChecksumRight DEF Part
<1>3. ASSUME ~changed
      PROVE  ReadLE(SubSeq(frame, 3, 6)) = ChecksumOf(SubSeq(frame, 7, Len(frame)))
  <2>1. PICK payload : Made(frame, payload)
    BY <1>3 DEF MessageInv, WrappedInv
  <2>2. PICK secret \in Seq(Octet), m \in Nat :
          m >= 1 /\ Len(secret) = 8 * m /\ frame = FrameOf(secret)
    BY <1>1, <2>1, CarriedFrame DEF Made
  <2> DEFINE n == Len(frame)
  <2>3. Part(frame, 3, 6) = WriteLE(Adler32(secret), 4) /\ Part(frame, 7, n) = secret
    <3> DEFINE r == 6 + Len(secret)
    <3>1. r \in Nat /\ r = 6 + Len(secret)
      BY <2>2
    <3> HIDE DEF r
    <3>2. /\ Len(frame) = r
          /\ SubSeq(frame, 3, 6) = WriteLE(Adler32(secret), 4)
          /\ SubSeq(frame, 7, r) = secret
      BY <2>2, <3>1, FrameParts
    <3> QED
      BY <3>2 DEF Part
  <2>4. Loaded(Stored(Adler32(secret), 4)) = Adler32(secret)
    <3>1. Adler32(secret) \in Nat /\ Adler32(secret) < Word /\ Values(4) = Word
      BY ChecksumFits, Bases DEF Values
    <3> QED
      BY <3>1, IntegerRoundTrip
  <2>5. Adler32(secret) = ChecksumOf(secret)
    BY ChecksumRight
  <2> QED
    BY <2>3, <2>4, <2>5 DEF ReadLE, WriteLE, Part
<1> QED
  BY <1>2, <1>3
=============================================================================
