-------------------------- MODULE GameServer_proofs --------------------------
(***************************************************************************)
(* Proofs about GameServer.tla and GameStream.tla, for any number of       *)
(* clients and packets, any messages and any sizes the buffers have room   *)
(* for: first about the linked packets of OutPackets.tla, what the `next'  *)
(* pointers mean and what each operation makes of them, then about the     *)
(* callbacks, and last about the contents of the packets.                  *)
(***************************************************************************)
EXTENDS GameStream, FiniteSetTheorems, SequenceTheorems, WellFoundedInduction,
        TLAPS

(* A linked list: s are the packets from p on along nxt, each once, and    *)
(* the last of them ends it.                                               *)
IsList(nxt, s, p) ==
  /\ s \in Seq(Packets)
  /\ s = <<>> => p = NULL
  /\ s # <<>> => p = s[1] /\ nxt[s[Len(s)]] = NULL
  /\ \A i \in 1 .. Len(s) - 1 : nxt[s[i]] = s[i + 1]
  /\ \A i, j \in 1 .. Len(s) : s[i] = s[j] => i = j

-----------------------------------------------------------------------------
(* A set of natural numbers that is not empty has a least one.             *)
LEMMA Least ==
  ASSUME NEW T \in SUBSET Nat, T # {}
  PROVE  \E n \in T : \A m \in T : n <= m
<1>1. T \subseteq Nat
  OBVIOUS
<1>2. PICK n \in T : \A m \in T : ~(<<m, n>> \in OpToRel(<, Nat))
  BY <1>1, WFMin, NatLessThanWellFounded
<1>3. \A m \in T : ~(m < n)
  BY <1>1, <1>2 DEF OpToRel
<1> QED
  BY <1>1, <1>3

(* The recursive function of ChainAlong exists: row n of the table has the *)
(* chains of n packets at most.                                            *)
IsTable(nxt, f, m) ==
  f = [n \in 0 .. m |->
        [q \in PacketOrNull |->
           IF q = NULL \/ n = 0 THEN <<>> ELSE <<q>> \o f[n - 1][nxt[q]]]]

LEMMA TableExists ==
  ASSUME NEW nxt, NEW m \in Nat
  PROVE  \E f : IsTable(nxt, f, m)
<1> DEFINE Bad == {n \in Nat : ~ \E f : IsTable(nxt, f, n)}
<1> SUFFICES ASSUME Bad # {} PROVE FALSE
  OBVIOUS
<1>1. PICK n \in Bad : \A k \in Bad : n <= k
  BY Least
<1>2. n # 0
  <2> DEFINE f == [k \in 0 .. 0 |-> [q \in PacketOrNull |-> <<>>]]
  <2>1. IsTable(nxt, f, 0)
    BY DEF IsTable
  <2> QED
    BY <2>1, <1>1
<1>3. n - 1 \in Nat /\ n - 1 \notin Bad
  BY <1>1, <1>2
<1>4. PICK f : IsTable(nxt, f, n - 1)
  BY <1>3
<1> DEFINE g == [k \in 0 .. n |->
                   IF k = n
                     THEN [q \in PacketOrNull |->
                             IF q = NULL THEN <<>> ELSE <<q>> \o f[n - 1][nxt[q]]]
                     ELSE f[k]]
<1>5. \A k \in 0 .. n - 1 :
        f[k] = [q \in PacketOrNull |->
                  IF q = NULL \/ k = 0 THEN <<>> ELSE <<q>> \o f[k - 1][nxt[q]]]
  BY <1>4 DEF IsTable
<1>6. \A k \in 0 .. n - 1 : g[k] = f[k]
  BY <1>1
<1>7. \A k \in 0 .. n :
        g[k] = [q \in PacketOrNull |->
                  IF q = NULL \/ k = 0 THEN <<>> ELSE <<q>> \o g[k - 1][nxt[q]]]
  <2> SUFFICES ASSUME NEW k \in 0 .. n
               PROVE  g[k] = [q \in PacketOrNull |->
                  IF q = NULL \/ k = 0 THEN <<>> ELSE <<q>> \o g[k - 1][nxt[q]]]
    OBVIOUS
  <2>1. CASE k = n
    <3>1. g[k - 1] = f[n - 1]
      BY <1>1, <1>2, <1>6, <2>1
    <3>2. g[k] = [q \in PacketOrNull |->
                    IF q = NULL THEN <<>> ELSE <<q>> \o f[n - 1][nxt[q]]]
      BY <2>1
    <3> QED
      BY <1>2, <2>1, <3>1, <3>2
  <2>2. CASE k # n
    <3>1. k \in 0 .. n - 1 /\ (k # 0 => k - 1 \in 0 .. n - 1)
      BY <1>1, <2>2
    <3>2. g[k] = f[k] /\ (k # 0 => g[k - 1] = f[k - 1])
      BY <1>6, <3>1
    <3> HIDE DEF g
    <3> QED
      BY <1>5, <3>1, <3>2
  <2> QED
    BY <2>1, <2>2
<1>8. g = [k \in 0 .. n |-> g[k]]
  OBVIOUS
<1> HIDE DEF g
<1>9. IsTable(nxt, g, n)
  BY <1>7, <1>8 DEF IsTable
<1> QED
  BY <1>1, <1>9

LEMMA ChainByTable ==
  ASSUME NEW nxt
  PROVE  \E f : /\ IsTable(nxt, f, MaxPackets)
                /\ \A p : ChainAlong(nxt, p) = f[MaxPackets][p]
<1> DEFINE From == CHOOSE f : IsTable(nxt, f, MaxPackets)
<1>1. IsTable(nxt, From, MaxPackets)
  BY TableExists, OutPacketsAssumption
<1>2. \A p : ChainAlong(nxt, p) = From[MaxPackets][p]
  BY DEF ChainAlong, IsTable
<1> QED
  BY <1>1, <1>2

-----------------------------------------------------------------------------
(* A list holds every packet once, so it is no longer than their number.   *)
LEMMA ListLength ==
  ASSUME NEW nxt, NEW p, NEW s, IsList(nxt, s, p)
  PROVE  Len(s) \in 0 .. MaxPackets
<1>1. Len(s) \in Nat /\ s \in [1 .. Len(s) -> Packets]
  BY DEF IsList
<1>2. s \in Injection(1 .. Len(s), Packets)
  BY <1>1 DEF IsList, Injection, IsInjective
<1>3. IsFiniteSet(Packets) /\ Cardinality(Packets) = MaxPackets
  BY OutPacketsAssumption, FS_Interval DEF Packets
<1>4. Cardinality(1 .. Len(s)) = Len(s)
  BY SMTT(40), <1>1, FS_Interval
<1>5. Cardinality(1 .. Len(s)) <= Cardinality(Packets)
  BY <1>2, <1>3, FS_Injection
<1> QED
  BY <1>1, <1>3, <1>4, <1>5, OutPacketsAssumption

(* What the recursion of ChainAlong computes: the list, if there is one.   *)
LEMMA ChainOfList ==
  ASSUME NEW nxt, NEW p, NEW s, IsList(nxt, s, p)
  PROVE  ChainAlong(nxt, p) = s
<1>1. PICK f : /\ IsTable(nxt, f, MaxPackets)
               /\ \A q : ChainAlong(nxt, q) = f[MaxPackets][q]
  BY ChainByTable
<1>2. \A n \in 0 .. MaxPackets : \A q \in PacketOrNull :
        f[n][q] = IF q = NULL \/ n = 0 THEN <<>> ELSE <<q>> \o f[n - 1][nxt[q]]
  BY ZenonT(40), <1>1 DEF IsTable
<1>3. s \in Seq(Packets) /\ Len(s) \in Nat /\ Len(s) <= MaxPackets /\ MaxPackets \in Nat
  <2>1. s \in Seq(Packets)
    BY DEF IsList
  <2> QED
    BY <2>1, ListLength, OutPacketsAssumption
<1> DEFINE L == Len(s)
<1> DEFINE Reads(k) ==
      \A n \in 0 .. MaxPackets : n >= k => f[n][s[L - k + 1]] = SubSeq(s, L - k + 1, L)
<1> DEFINE Bad == {k \in 1 .. L : ~Reads(k)}
<1>4. Bad = {}
  <2> SUFFICES ASSUME Bad # {} PROVE FALSE
    OBVIOUS
  <2>1. Bad \in SUBSET Nat
    OBVIOUS
  <2> HIDE DEF Bad
  <2>2. PICK k \in Bad : \A m \in Bad : k <= m
    BY <2>1, Least
  <2> USE DEF Bad
  <2>3. k \in 1 .. L /\ ~Reads(k)
    BY <2>2
  <2>4. PICK n \in 0 .. MaxPackets : n >= k /\ f[n][s[L - k + 1]] # SubSeq(s, L - k + 1, L)
    BY <2>3
  <2> DEFINE i == L - k + 1
  <2>5. i \in 1 .. L /\ n # 0 /\ n - 1 \in 0 .. MaxPackets
    BY <1>3, <2>3, <2>4
  <2>6. s[i] \in Packets /\ s[i] \in PacketOrNull /\ s[i] # NULL
    <3>1. s[i] \in Packets
      BY <1>3, <2>5, ElementOfSeq
    <3> QED
      BY <3>1, OutPacketsAssumption DEF Packets, PacketOrNull, NULL
  <2>7. f[n][s[i]] = <<s[i]>> \o f[n - 1][nxt[s[i]]]
    BY <1>2, <2>5, <2>6
  <2>10. SubSeq(s, i, L) = <<s[i]>> \o SubSeq(s, i + 1, L)
    <3>1. L \in i .. L
      BY <1>3, <2>5
    <3> QED
      BY <1>3, <2>5, <3>1, SubSeqRecursiveFirst
  <2>8. CASE k = 1
    <3>1. i = L /\ s # <<>> /\ nxt[s[L]] = NULL
      BY <1>3, <2>3, <2>8 DEF IsList
    <3>2. f[n - 1][NULL] = <<>>
      BY <1>2, <2>5 DEF PacketOrNull, NULL
    <3>3. SubSeq(s, i + 1, L) = <<>>
      BY <1>3, <3>1, SubSeqEmpty
    <3> QED
      BY <2>4, <2>7, <2>10, <3>1, <3>2, <3>3
  <2>9. CASE k # 1
    <3>1. i \in 1 .. L - 1 /\ k - 1 \in 1 .. L
      BY <1>3, <2>3, <2>5, <2>9
    <3>5. nxt[s[i]] = s[i + 1]
      BY <3>1 DEF IsList
    <3>2. Reads(k - 1)
      <4>1. ~(k <= k - 1)
        BY <1>3, <2>3
      <4>2. k - 1 \notin Bad
        BY <2>2, <4>1
      <4> QED
        BY <3>1, <4>2
    <3>3. L - (k - 1) + 1 = i + 1 /\ n - 1 >= k - 1
      <4>1. L \in Nat /\ k \in Nat /\ n \in Nat /\ n >= k
        BY <1>3, <2>3, <2>4
      <4> QED
        BY <4>1, SMTT(40)
    <3>4. f[n - 1][s[i + 1]] = SubSeq(s, i + 1, L)
      BY <2>5, <3>2, <3>3
    <3> QED
      BY <2>4, <2>7, <2>10, <3>4, <3>5
  <2> QED
    BY <2>8, <2>9
<1>5. CASE s = <<>>
  <2>1. MaxPackets \in 0 .. MaxPackets /\ NULL \in PacketOrNull
    BY <1>3 DEF PacketOrNull
  <2>2. f[MaxPackets][NULL] = <<>>
    BY <1>2, <2>1
  <2> QED
    BY <1>1, <1>5, <2>2 DEF IsList
<1>6. CASE s # <<>>
  <2>1. L \in 1 .. L /\ L - L + 1 = 1
    BY <1>3, <1>6
  <2>2. Reads(L)
    BY <1>4, <2>1
  <2>3. f[MaxPackets][s[1]] = SubSeq(s, 1, L)
    BY <1>3, <2>1, <2>2
  <2>4. SubSeq(s, 1, L) = s
    BY <1>3
  <2> QED
    BY <1>1, <1>6, <2>3, <2>4 DEF IsList
<1> QED
  BY <1>5, <1>6

-----------------------------------------------------------------------------
(* The elements of lists that are made from others.                        *)
LEMMA InSet ==
  ASSUME NEW s \in Seq(Packets)
  PROVE  ToSet(s) = {s[i] : i \in 1 .. Len(s)} /\ ToSet(s) \subseteq Packets
  BY DEF ToSet

LEMMA ConsElements ==
  ASSUME NEW s \in Seq(Packets), NEW x \in Packets
  PROVE  /\ <<x>> \o s \in Seq(Packets)
         /\ Len(<<x>> \o s) = Len(s) + 1
         /\ (<<x>> \o s)[1] = x
         /\ \A i \in 1 .. Len(s) : (<<x>> \o s)[i + 1] = s[i]
         /\ ToSet(<<x>> \o s) = {x} \union ToSet(s)
<1>1. <<x>> \in Seq(Packets) /\ Len(<<x>>) = 1 /\ <<x>>[1] = x
  OBVIOUS
<1>2. /\ <<x>> \o s \in Seq(Packets)
      /\ Len(<<x>> \o s) = 1 + Len(s)
      /\ \A i \in 1 .. 1 + Len(s) :
           (<<x>> \o s)[i] = IF i <= 1 THEN <<x>>[i] ELSE s[i - 1]
  BY <1>1, ConcatProperties
<1>3. Len(s) \in Nat
  OBVIOUS
<1> DEFINE t == <<x>> \o s
<1> HIDE DEF t
<1>4. t[1] = x /\ \A i \in 1 .. Len(s) : t[i + 1] = s[i]
  BY <1>1, <1>2, <1>3 DEF t
<1>5. \A i \in 1 .. Len(t) : i = 1 \/ i - 1 \in 1 .. Len(s)
  BY <1>2, <1>3 DEF t
<1>6. ToSet(t) = {x} \union ToSet(s)
  <2>1. ToSet(t) = {t[i] : i \in 1 .. Len(t)} /\ ToSet(s) = {s[i] : i \in 1 .. Len(s)}
    BY <1>2, InSet DEF t
  <2>2. ASSUME NEW i \in 1 .. Len(t) PROVE t[i] = x \/ t[i] \in ToSet(s)
    <3>1. CASE i = 1
      BY <1>4, <3>1
    <3>2. CASE i - 1 \in 1 .. Len(s)
      <4>1. t[(i - 1) + 1] = s[i - 1] /\ (i - 1) + 1 = i
        BY <1>4, <3>2
      <4> QED
        BY <2>1, <3>2, <4>1
    <3> QED
      BY <1>5, <3>1, <3>2
  <2>3. x \in ToSet(t)
    BY <1>2, <1>3, <1>4, <2>1 DEF t
  <2>4. ASSUME NEW i \in 1 .. Len(s) PROVE s[i] \in ToSet(t)
    <3>1. i + 1 \in 1 .. Len(t) /\ t[i + 1] = s[i]
      BY <1>2, <1>3, <1>4 DEF t
    <3> QED
      BY <2>1, <3>1
  <2> QED
    BY <2>1, <2>2, <2>3, <2>4
<1> QED
  BY <1>2, <1>3, <1>4, <1>6 DEF t

LEMMA AppendElements ==
  ASSUME NEW s \in Seq(Packets), NEW x \in Packets
  PROVE  ToSet(Append(s, x)) = ToSet(s) \union {x}
<1> DEFINE t == Append(s, x)
<1>1. /\ t \in Seq(Packets) /\ Len(t) = Len(s) + 1 /\ Len(s) \in Nat
      /\ \A i \in 1 .. Len(s) : t[i] = s[i]
      /\ t[Len(s) + 1] = x
  BY AppendProperties
<1> HIDE DEF t
<1>2. ToSet(t) = {t[i] : i \in 1 .. Len(t)} /\ ToSet(s) = {s[i] : i \in 1 .. Len(s)}
  BY <1>1, InSet
<1>3. \A i \in 1 .. Len(t) : i \in 1 .. Len(s) \/ i = Len(s) + 1
  BY <1>1
<1>4. 1 .. Len(s) \subseteq 1 .. Len(t) /\ Len(s) + 1 \in 1 .. Len(t)
  BY <1>1
<1> QED
  BY <1>1, <1>2, <1>3, <1>4 DEF t

(* A list starts with the packet that leads to it, and the packets behind  *)
(* its first are a list.                                                   *)
LEMMA TailIsList ==
  ASSUME NEW nxt, NEW p, p # NULL, NEW s, IsList(nxt, s, p)
  PROVE  /\ s # <<>>
         /\ IsList(nxt, Tail(s), nxt[p])
         /\ p \in ToSet(s) /\ p \in Packets
         /\ ToSet(Tail(s)) = ToSet(s) \ {p}
<1>1. s \in Seq(Packets) /\ s # <<>> /\ p = s[1]
  BY DEF IsList
<1>2. Len(s) \in Nat \ {0}
  BY <1>1
<1> DEFINE t == Tail(s)
<1>3. t \in Seq(Packets) /\ Len(t) = Len(s) - 1 /\ \A i \in 1 .. Len(t) : t[i] = s[i + 1]
  BY <1>1, HeadTailProperties
<1> HIDE DEF t
<1>4. \A i, j \in 1 .. Len(s) : s[i] = s[j] => i = j
  BY DEF IsList
<1>5. IsList(nxt, t, nxt[p])
  <2>1. CASE Len(s) = 1
    <3>1. t = <<>> /\ nxt[p] = NULL
      BY <1>1, <1>3, <2>1 DEF IsList
    <3> QED
      BY <3>1, <1>3 DEF IsList
  <2>2. CASE Len(s) # 1
    <3>1. nxt[p] = s[2] /\ t[1] = s[2] /\ t # <<>> /\ t[Len(t)] = s[Len(s)]
      <4>1. 1 \in 1 .. Len(s) - 1 /\ 1 \in 1 .. Len(t) /\ Len(t) \in 1 .. Len(t)
        BY <1>2, <1>3, <2>2
      <4>2. nxt[s[1]] = s[1 + 1]
        BY <4>1 DEF IsList
      <4> QED
        BY <1>1, <1>2, <1>3, <4>1, <4>2
    <3>2. nxt[t[Len(t)]] = NULL
      BY <1>1, <3>1 DEF IsList
    <3>3. ASSUME NEW i \in 1 .. Len(t) - 1 PROVE nxt[t[i]] = t[i + 1]
      <4>1. i + 1 \in 1 .. Len(s) - 1 /\ i \in 1 .. Len(t) /\ i + 1 \in 1 .. Len(t)
        BY <1>2, <1>3
      <4>2. nxt[s[i + 1]] = s[(i + 1) + 1]
        BY <4>1 DEF IsList
      <4> QED
        BY <1>3, <4>1, <4>2
    <3>4. ASSUME NEW i \in 1 .. Len(t), NEW j \in 1 .. Len(t), t[i] = t[j] PROVE i = j
      <4>1. i + 1 \in 1 .. Len(s) /\ j + 1 \in 1 .. Len(s) /\ s[i + 1] = s[j + 1]
        BY <1>2, <1>3, <3>4
      <4>2. i + 1 = j + 1
        BY <1>4, <4>1
      <4> QED
        BY <4>2
    <3> QED
      BY <1>3, <3>1, <3>2, <3>3, <3>4 DEF IsList
  <2> QED
    BY <2>1, <2>2
<1>6. s = <<p>> \o t
  BY <1>1, <1>2, <1>3, SubSeqFull, SubSeqRecursiveFirst, TailIsSubSeq DEF t
<1>7. p \in Packets
  BY <1>1, <1>2, ElementOfSeq
<1>8. ToSet(s) = {p} \union ToSet(t)
  BY <1>3, <1>6, <1>7, ConsElements
<1>9. p \notin ToSet(t)
  <2> SUFFICES ASSUME NEW i \in 1 .. Len(t), t[i] = p PROVE FALSE
    BY <1>3, InSet
  <2>1. i + 1 \in 1 .. Len(s) /\ 1 \in 1 .. Len(s) /\ s[i + 1] = s[1] /\ i + 1 # 1
    BY <1>1, <1>2, <1>3
  <2> QED
    BY <1>4, <2>1
<1> QED
  BY <1>1, <1>5, <1>7, <1>8, <1>9 DEF t

(* Putting a packet before a list, which is what release_out_packet does.  *)
LEMMA ConsIsList ==
  ASSUME NEW nxt, NEW p, NEW s, IsList(nxt, s, p),
         NEW x \in Packets, x \notin ToSet(s), nxt[x] = p
  PROVE  IsList(nxt, <<x>> \o s, x) /\ ToSet(<<x>> \o s) = {x} \union ToSet(s)
<1>1. s \in Seq(Packets) /\ Len(s) \in Nat
  BY DEF IsList
<1> DEFINE t == <<x>> \o s
<1>2. /\ t \in Seq(Packets) /\ Len(t) = Len(s) + 1 /\ t[1] = x
      /\ \A i \in 1 .. Len(s) : t[i + 1] = s[i]
      /\ ToSet(t) = {x} \union ToSet(s)
  BY <1>1, ConsElements
<1> HIDE DEF t
<1>3. \A i \in 2 .. Len(t) : i - 1 \in 1 .. Len(s) /\ t[i] = s[i - 1]
  <2> SUFFICES ASSUME NEW i \in 2 .. Len(t)
               PROVE  i - 1 \in 1 .. Len(s) /\ t[i] = s[i - 1]
    OBVIOUS
  <2>1. i - 1 \in 1 .. Len(s) /\ (i - 1) + 1 = i
    BY <1>1, <1>2
  <2>2. t[(i - 1) + 1] = s[i - 1]
    BY <1>2, <2>1
  <2> QED
    BY <2>1, <2>2
<1>4. t # <<>> /\ nxt[t[Len(t)]] = NULL
  <2>1. CASE s = <<>>
    BY <1>2, <2>1 DEF IsList
  <2>2. CASE s # <<>>
    <3>1. Len(t) \in 2 .. Len(t) /\ Len(t) - 1 = Len(s)
      BY <1>1, <1>2, <2>2
    <3>2. nxt[s[Len(s)]] = NULL
      BY <2>2 DEF IsList
    <3> QED
      BY <1>2, <1>3, <3>1, <3>2
  <2> QED
    BY <2>1, <2>2
<1>5. ASSUME NEW i \in 1 .. Len(t) - 1 PROVE nxt[t[i]] = t[i + 1]
  <2>1. t[i + 1] = s[i] /\ i \in 1 .. Len(s)
    BY <1>1, <1>2
  <2>2. CASE i = 1
    <3>1. p = s[1]
      BY <1>1, <2>1, <2>2 DEF IsList
    <3> QED
      BY <1>2, <2>1, <2>2, <3>1
  <2>3. CASE i # 1
    <3>1. i \in 2 .. Len(t) /\ i - 1 \in 1 .. Len(s) - 1 /\ (i - 1) + 1 = i
      BY <1>1, <1>2, <2>3
    <3>2. nxt[s[i - 1]] = s[(i - 1) + 1]
      BY <3>1 DEF IsList
    <3> QED
      BY <1>3, <2>1, <3>1, <3>2
  <2> QED
    BY <2>2, <2>3
<1>6. ASSUME NEW i \in 1 .. Len(t), NEW j \in 1 .. Len(t), t[i] = t[j] PROVE i = j
  <2>1. ASSUME NEW k \in 2 .. Len(t) PROVE t[k] # x
    BY <1>1, <1>3, <2>1, InSet
  <2>2. CASE i = 1 \/ j = 1
    <3>1. ASSUME NEW k \in 1 .. Len(t), k # 1 PROVE k \in 2 .. Len(t)
      BY <1>1, <1>2, <3>1
    <3> QED
      BY <1>2, <1>6, <2>1, <2>2, <3>1
  <2>3. CASE i # 1 /\ j # 1
    <3>1. i \in 2 .. Len(t) /\ j \in 2 .. Len(t)
      BY <1>1, <1>2, <2>3
    <3>2. s[i - 1] = s[j - 1] /\ i - 1 \in 1 .. Len(s) /\ j - 1 \in 1 .. Len(s)
      BY <1>3, <1>6, <3>1
    <3>3. i - 1 = j - 1
      BY <3>2 DEF IsList
    <3> QED
      BY <3>1, <3>3
  <2> QED
    BY <2>2, <2>3
<1> QED
  BY <1>2, <1>4, <1>5, <1>6 DEF IsList, t

(* Linking a packet behind the last one of a list, as get_out_packet does. *)
LEMMA AppendIsList ==
  ASSUME NEW nxt, NEW p, NEW s, IsList(nxt, s, p), s # <<>>,
         NEW x \in Packets, x \notin ToSet(s),
         NEW nxt2, nxt2[x] = NULL, nxt2[s[Len(s)]] = x,
         \A y \in ToSet(s) : y # s[Len(s)] => nxt2[y] = nxt[y]
  PROVE  IsList(nxt2, Append(s, x), p)
<1>1. s \in Seq(Packets) /\ Len(s) \in Nat \ {0}
  BY DEF IsList
<1> DEFINE t == Append(s, x)
<1>2. /\ t \in Seq(Packets) /\ t # <<>> /\ Len(t) = Len(s) + 1
      /\ \A i \in 1 .. Len(s) : t[i] = s[i]
      /\ t[Len(s) + 1] = x
  BY <1>1, AppendProperties
<1> HIDE DEF t
<1>3. 1 \in 1 .. Len(s) /\ p = t[1]
  BY <1>1, <1>2 DEF IsList
<1>4. \A i, j \in 1 .. Len(s) : s[i] = s[j] => i = j
  BY DEF IsList
<1>5. ASSUME NEW i \in 1 .. Len(t) - 1 PROVE nxt2[t[i]] = t[i + 1]
  <2>1. i \in 1 .. Len(s) /\ t[i] = s[i] /\ Len(s) \in 1 .. Len(s)
    BY <1>1, <1>2
  <2>2. CASE i = Len(s)
    BY <1>2, <2>1, <2>2
  <2>3. CASE i # Len(s)
    <3>1. i \in 1 .. Len(s) - 1 /\ i + 1 \in 1 .. Len(s)
      BY <1>1, <2>1, <2>3
    <3>2. nxt[s[i]] = s[i + 1]
      BY <3>1 DEF IsList
    <3>3. s[i] # s[Len(s)] /\ s[i] \in ToSet(s)
      BY <1>1, <1>4, <2>1, <2>3, InSet
    <3> QED
      BY <1>2, <2>1, <3>1, <3>2, <3>3
  <2> QED
    BY <2>2, <2>3
<1>6. ASSUME NEW i \in 1 .. Len(t), NEW j \in 1 .. Len(t), t[i] = t[j] PROVE i = j
  <2>1. \A k \in 1 .. Len(s) : t[k] # x
    BY <1>1, <1>2, InSet
  <2>2. \A k \in 1 .. Len(t) : k \in 1 .. Len(s) \/ k = Len(s) + 1
    BY <1>1, <1>2
  <2> QED
    BY <1>2, <1>4, <1>6, <2>1, <2>2
<1> QED
  BY <1>1, <1>2, <1>3, <1>5, <1>6 DEF IsList, t

LEMMA EmptyIsList ==
  ASSUME NEW nxt PROVE IsList(nxt, <<>>, NULL) /\ ToSet(<<>>) = {}
  BY DEF IsList, ToSet

LEMMA SingleIsList ==
  ASSUME NEW nxt, NEW x \in Packets, nxt[x] = NULL
  PROVE  IsList(nxt, <<x>>, x) /\ ToSet(<<x>>) = {x}
  BY DEF IsList, ToSet

(* A list is not disturbed by links that change elsewhere.                 *)
LEMMA ListElsewhere ==
  ASSUME NEW nxt, NEW p, NEW s, IsList(nxt, s, p),
         NEW nxt2, \A y \in ToSet(s) : nxt2[y] = nxt[y]
  PROVE  IsList(nxt2, s, p)
<1>1. s \in Seq(Packets) /\ Len(s) \in Nat /\ (s # <<>> => Len(s) \in 1 .. Len(s))
  BY DEF IsList
<1>2. \A i \in 1 .. Len(s) : nxt2[s[i]] = nxt[s[i]]
  BY <1>1, InSet
<1>3. \A i \in 1 .. Len(s) - 1 : i \in 1 .. Len(s)
  BY <1>1
<1> QED
  BY <1>1, <1>2, <1>3 DEF IsList

-----------------------------------------------------------------------------
(***************************************************************************)
(* The inductive invariant: the list of recycled packets and every queue   *)
(* are linked lists, a queue ends at its tail, and no packet has two       *)
(* places.  It is stated for any r and q, the lists as sequences, and they *)
(* are then the chains of the code.                                        *)
(***************************************************************************)
Layout(nxt, recycled, heads, tails, r, q) ==
  /\ IsList(nxt, r, recycled)
  /\ \A c \in Slots :
       /\ IsList(nxt, q[c], heads[c])
       /\ q[c] = <<>> => tails[c] = NULL
       /\ q[c] # <<>> => tails[c] = q[c][Len(q[c])]

(* R are the recycled packets, Q[c] those that wait for client c, w[c] the *)
(* one being written for c, and n is the number of packets there are.      *)
Owners(R, Q, w, n) ==
  /\ R \subseteq 1 .. n
  /\ \A c \in Slots :
       /\ Q[c] \subseteq 1 .. n
       /\ Q[c] \intersect R = {}
       /\ w[c] # NULL => w[c] \in 1 .. n
       /\ w[c] \notin R
       /\ \A d \in Slots :
            /\ w[c] \notin Q[d]
            /\ c # d => Q[c] \intersect Q[d] = {}
            /\ c # d /\ w[c] = w[d] => w[c] = NULL

QueueChains == [c \in Slots |-> Chain(out_queue_head[c])]

Elements(q) == [c \in Slots |-> ToSet(q[c])]

PacketInv ==
  /\ PacketsTypeOK
  /\ Layout(next, output_head, out_queue_head, out_queue_tail,
            Chain(output_head), QueueChains)
  /\ Owners(Recycled, Elements(QueueChains), out_writing, allocated)

(* Lists that are laid out are the chains of the code.                     *)
LEMMA LayoutChains ==
  ASSUME NEW nxt, NEW recycled, NEW heads, NEW tails, NEW r, NEW q,
         Layout(nxt, recycled, heads, tails, r, q)
  PROVE  /\ ChainAlong(nxt, recycled) = r
         /\ \A c \in Slots : ChainAlong(nxt, heads[c]) = q[c]
  BY ChainOfList DEF Layout

(* So the invariant holds as soon as there are such lists: now, and after  *)
(* a step.                                                                 *)
LEMMA PacketInvFrom ==
  ASSUME PacketsTypeOK, NEW r, NEW q,
         Layout(next, output_head, out_queue_head, out_queue_tail, r, q),
         Owners(ToSet(r), Elements(q), out_writing, allocated)
  PROVE  PacketInv
<1>1. Chain(output_head) = r /\ \A c \in Slots : QueueChains[c] = q[c]
  BY LayoutChains DEF Chain, QueueChains
<1>2. Layout(next, output_head, out_queue_head, out_queue_tail,
             Chain(output_head), QueueChains)
  BY <1>1 DEF Layout
<1>3. Recycled = ToSet(r) /\ Elements(QueueChains) = Elements(q)
  BY <1>1 DEF Recycled, Elements
<1> QED
  BY <1>2, <1>3 DEF PacketInv

LEMMA PacketInvNext ==
  ASSUME PacketsTypeOK', NEW r, NEW q,
         Layout(next', output_head', out_queue_head', out_queue_tail', r, q),
         Owners(ToSet(r), Elements(q), out_writing', allocated')
  PROVE  PacketInv' /\ QueueChains' = [c \in Slots |-> q[c]] /\ Recycled' = ToSet(r)
<1>1. Chain(output_head)' = r /\ \A c \in Slots : QueueChains'[c] = q[c]
  BY LayoutChains DEF Chain, QueueChains
<1>2. Layout(next, output_head, out_queue_head, out_queue_tail,
             Chain(output_head), QueueChains)'
  BY <1>1 DEF Layout
<1>3. Recycled' = ToSet(r) /\ Elements(QueueChains)' = Elements(q)
  BY <1>1 DEF Recycled, Elements
<1>4. QueueChains' = [c \in Slots |-> q[c]]
  BY <1>1 DEF QueueChains
<1> QED
  BY <1>2, <1>3, <1>4 DEF PacketInv

LEMMA PacketInvNow ==
  ASSUME PacketInv
  PROVE  \E r, q :
           /\ Layout(next, output_head, out_queue_head, out_queue_tail, r, q)
           /\ Owners(ToSet(r), Elements(q), out_writing, allocated)
           /\ q = QueueChains /\ ToSet(r) = Recycled
  BY DEF PacketInv, Recycled

(* It says what the two properties say.                                    *)
LEMMA PacketInvImplies == PacketInv => PacketOwnership /\ QueueShape
<1> SUFFICES ASSUME PacketInv PROVE PacketOwnership /\ QueueShape
  OBVIOUS
<1>1. \A c \in Slots : /\ QueueChains[c] = Chain(out_queue_head[c])
                       /\ Elements(QueueChains)[c] = Queued(c)
  BY DEF Queued, Elements, QueueChains
<1>2. \A c \in Slots : InFlight(c) = IF out_writing[c] = NULL THEN {} ELSE {out_writing[c]}
  BY DEF InFlight, Written, ToSet
<1>3. PacketOwnership
  BY <1>1, <1>2 DEF PacketInv, Owners, PacketOwnership
<1>4. QueueShape
  BY <1>1 DEF PacketInv, Layout, IsList, QueueShape
<1> QED
  BY <1>3, <1>4

LEMMA PacketsInitInv == PacketsInit => PacketInv
<1> SUFFICES ASSUME PacketsInit PROVE PacketInv
  OBVIOUS
<1> DEFINE q == [c \in Slots |-> <<>>]
<1>1. PacketsTypeOK
  BY OutPacketsAssumption DEF PacketsInit, PacketsTypeOK, PacketOrNull
<1>2. Layout(next, output_head, out_queue_head, out_queue_tail, <<>>, q)
  BY EmptyIsList DEF PacketsInit, Layout
<1>3. Owners(ToSet(<<>>), Elements(q), out_writing, allocated)
  BY EmptyIsList DEF PacketsInit, Owners, Elements
<1> QED
  BY <1>1, <1>2, <1>3, PacketInvFrom

-----------------------------------------------------------------------------
(***************************************************************************)
(* release_out_packet.  No operation of the code releases more than two    *)
(* packets of a client at once: the one being written, and in on_drop the  *)
(* tail, behind which there is no other.                                   *)
(***************************************************************************)
AtMostTwo(ps) ==
  \/ ps = <<>>
  \/ \E x \in Packets : ps = <<x>>
  \/ \E x, y \in Packets : x # y /\ ps = <<x, y>>

LEMMA ReleasedPlace ==
  ASSUME NEW ps, NEW i \in DOMAIN ps, \A k \in DOMAIN ps : ps[k] = ps[i] => k = i,
         ps[i] \in Packets
  PROVE  NextAfterRelease(ps)[ps[i]] = IF i = 1 THEN output_head ELSE ps[i - 1]
<1> DEFINE j == CHOOSE k \in DOMAIN ps : ps[k] = ps[i]
<1>1. j \in DOMAIN ps /\ ps[j] = ps[i]
  OBVIOUS
<1>2. j = i
  BY <1>1
<1>3. NextAfterRelease(ps)[ps[i]] = IF j = 1 THEN output_head ELSE ps[j - 1]
  BY DEF NextAfterRelease
<1> QED
  BY <1>2, <1>3

LEMMA NotReleased ==
  ASSUME NEW ps, NEW y \in Packets, \A k \in DOMAIN ps : ps[k] # y
  PROVE  NextAfterRelease(ps)[y] = next[y]
  BY DEF NextAfterRelease

LEMMA ReleaseIsList ==
  ASSUME PacketsTypeOK, NEW ps, AtMostTwo(ps), Release(ps),
         NEW r, IsList(next, r, output_head), ToSet(ps) \intersect ToSet(r) = {}
  PROVE  /\ \E r2 : /\ IsList(next', r2, output_head')
                    /\ ToSet(r2) = ToSet(r) \union ToSet(ps)
         /\ \A y \in Packets \ ToSet(ps) : next'[y] = next[y]
         /\ next' \in [Packets -> PacketOrNull]
         /\ output_head' \in PacketOrNull
<1>1. /\ next' = NextAfterRelease(ps)
      /\ output_head' = IF ps = <<>> THEN output_head ELSE ps[Len(ps)]
  BY DEF Release
<1>2. next' = [y \in Packets |-> next'[y]]
  BY <1>1 DEF NextAfterRelease
<1>3. \A y \in Packets \ ToSet(ps) : next'[y] = next[y]
  BY <1>1, NotReleased DEF ToSet
<1>4. next \in [Packets -> PacketOrNull] /\ output_head \in PacketOrNull
  BY DEF PacketsTypeOK
<1>5. r \in Seq(Packets) /\ ToSet(r) \subseteq Packets
  BY InSet DEF IsList
<1>6. CASE ps = <<>>
  <2>1. ToSet(ps) = {} /\ output_head' = output_head
    BY <1>1, <1>6 DEF ToSet
  <2>2. IsList(next', r, output_head')
    BY <1>3, <1>5, <2>1, ListElsewhere
  <2> QED
    BY <1>2, <1>3, <1>4, <2>1, <2>2
<1>7. ASSUME NEW x \in Packets, ps = <<x>>
      PROVE  /\ \E r2 : /\ IsList(next', r2, output_head')
                        /\ ToSet(r2) = ToSet(r) \union ToSet(ps)
             /\ next' \in [Packets -> PacketOrNull]
             /\ output_head' \in PacketOrNull
  <2>1. DOMAIN ps = {1} /\ ps[1] = x /\ ToSet(ps) = {x} /\ Len(ps) = 1
    BY <1>7 DEF ToSet
  <2>2. next'[x] = output_head /\ output_head' = x
    BY <1>1, <1>7, <2>1, ReleasedPlace
  <2>3. IsList(next', r, output_head)
    BY <1>3, <1>5, <2>1, ListElsewhere
  <2>4. IsList(next', <<x>> \o r, x) /\ ToSet(<<x>> \o r) = {x} \union ToSet(r)
    BY <2>1, <2>2, <2>3, ConsIsList
  <2>5. next' \in [Packets -> PacketOrNull]
    BY <1>2, <1>3, <1>4, <2>1, <2>2
  <2> QED
    BY <2>1, <2>2, <2>4, <2>5 DEF PacketOrNull
<1>8. ASSUME NEW x \in Packets, NEW y \in Packets, x # y, ps = <<x, y>>
      PROVE  /\ \E r2 : /\ IsList(next', r2, output_head')
                        /\ ToSet(r2) = ToSet(r) \union ToSet(ps)
             /\ next' \in [Packets -> PacketOrNull]
             /\ output_head' \in PacketOrNull
  <2>1. /\ DOMAIN ps = {1, 2} /\ ps[1] = x /\ ps[2] = y
        /\ ToSet(ps) = {x, y} /\ Len(ps) = 2
    BY <1>8 DEF ToSet
  <2>2. next'[x] = output_head
    BY <1>1, <1>8, <2>1, ReleasedPlace
  <2>3. next'[y] = x /\ output_head' = y
    BY <1>1, <1>8, <2>1, ReleasedPlace
  <2>4. IsList(next', r, output_head)
    BY <1>3, <1>5, <2>1, ListElsewhere
  <2>5. IsList(next', <<x>> \o r, x) /\ ToSet(<<x>> \o r) = {x} \union ToSet(r)
    BY <2>1, <2>2, <2>4, ConsIsList
  <2> DEFINE r1 == <<x>> \o r
  <2> HIDE DEF r1
  <2>6. y \notin ToSet(r1) /\ IsList(next', r1, x)
    BY <1>8, <2>1, <2>5 DEF r1
  <2>7. IsList(next', <<y>> \o r1, y) /\ ToSet(<<y>> \o r1) = {y} \union ToSet(r1)
    BY <2>3, <2>6, ConsIsList
  <2>8. next' \in [Packets -> PacketOrNull]
    BY <1>2, <1>3, <1>4, <2>1, <2>2, <2>3 DEF PacketOrNull
  <2>9. ToSet(<<y>> \o r1) = ToSet(r) \union ToSet(ps)
    BY <2>1, <2>5, <2>7 DEF r1
  <2> QED
    BY <2>3, <2>7, <2>8, <2>9 DEF PacketOrNull
<1> QED
  BY <1>3, <1>6, <1>7, <1>8 DEF AtMostTwo

-----------------------------------------------------------------------------
(***************************************************************************)
(* How packets change their owner.                                         *)
(***************************************************************************)

(* The packet written for c is recycled.                                   *)
LEMMA OwnersWritten ==
  ASSUME NEW R, NEW Q, NEW w \in [Slots -> PacketOrNull], NEW n \in Nat,
         Owners(R, Q, w, n), NEW c \in Slots,
         NEW W, W = IF w[c] = NULL THEN {} ELSE {w[c]}
  PROVE  Owners(R \union W, Q, [w EXCEPT ![c] = NULL], n)
<1> DEFINE w2 == [w EXCEPT ![c] = NULL]
<1>1. w2[c] = NULL /\ \A d \in Slots : d # c => w2[d] = w[d]
  OBVIOUS
<1>2. \A d \in Slots : w[d] \notin R /\ Q[d] \intersect R = {}
                      /\ (w[d] # NULL => w[d] \in 1 .. n)
  BY DEF Owners
<1>3. \A d, e \in Slots : w[d] \notin Q[e]
                         /\ (d # e => Q[d] \intersect Q[e] = {})
                         /\ (d # e /\ w[d] = w[e] => w[d] = NULL)
  BY DEF Owners
<1>4. R \subseteq 1 .. n /\ \A d \in Slots : Q[d] \subseteq 1 .. n
  BY DEF Owners
<1>5. NULL \notin 1 .. n
  BY DEF NULL
<1> HIDE DEF w2
<1>6. R \union W \subseteq 1 .. n
  BY <1>2, <1>4
<1>7. ASSUME NEW d \in Slots
      PROVE  /\ Q[d] \intersect (R \union W) = {}
             /\ w2[d] # NULL => w2[d] \in 1 .. n
             /\ w2[d] \notin R \union W
  <2>1. \A x \in W : x = w[c] /\ x # NULL
    OBVIOUS
  <2>2. Q[d] \intersect (R \union W) = {}
    BY <1>2, <1>3, <2>1
  <2>3. w2[d] # NULL => w2[d] \in 1 .. n
    BY <1>1, <1>2
  <2>4. w2[d] \notin R
    BY <1>1, <1>2, <1>4, <1>5
  <2>5. w2[d] \notin W
    BY <1>1, <1>3, <2>1
  <2> QED
    BY <2>2, <2>3, <2>4, <2>5
<1>8. ASSUME NEW d \in Slots, NEW e \in Slots
      PROVE  /\ w2[d] \notin Q[e]
             /\ d # e /\ w2[d] = w2[e] => w2[d] = NULL
  BY <1>1, <1>3, <1>4, <1>5
<1> QED
  BY <1>3, <1>4, <1>6, <1>7, <1>8 DEF Owners, w2

(* A packet of the queue of c is the next to be written for c.             *)
LEMMA OwnersTaken ==
  ASSUME NEW R, NEW Q, NEW w \in [Slots -> PacketOrNull], NEW n \in Nat,
         Owners(R, Q, w, n), NEW c \in Slots, w[c] = NULL, NEW p \in Q[c],
         NEW Q2, Q2[c] = Q[c] \ {p}, \A d \in Slots \ {c} : Q2[d] = Q[d]
  PROVE  Owners(R, Q2, [w EXCEPT ![c] = p], n)
<1> DEFINE w2 == [w EXCEPT ![c] = p]
<1>1. w2[c] = p /\ \A d \in Slots : d # c => w2[d] = w[d]
  OBVIOUS
<1>2. \A d \in Slots : w[d] \notin R /\ Q[d] \intersect R = {}
                      /\ (w[d] # NULL => w[d] \in 1 .. n)
  BY DEF Owners
<1>3. \A d, e \in Slots : w[d] \notin Q[e]
                         /\ (d # e => Q[d] \intersect Q[e] = {})
                         /\ (d # e /\ w[d] = w[e] => w[d] = NULL)
  BY DEF Owners
<1>4. R \subseteq 1 .. n /\ \A d \in Slots : Q[d] \subseteq 1 .. n /\ Q2[d] \subseteq Q[d]
  BY DEF Owners
<1> HIDE DEF w2
<1>5. p \in 1 .. n /\ p \notin R
  BY <1>2, <1>4
<1>6. ASSUME NEW d \in Slots, NEW e \in Slots
      PROVE  /\ w2[d] \notin Q2[e]
             /\ d # e => Q2[d] \intersect Q2[e] = {}
             /\ d # e /\ w2[d] = w2[e] => w2[d] = NULL
  <2>1. d # e => Q2[d] \intersect Q2[e] = {}
    BY <1>3, <1>4
  <2>2. w2[d] \notin Q2[e]
    BY <1>1, <1>3, <1>4
  <2>3. d # e => w2[d] # w2[e] \/ w2[d] = NULL
    BY <1>1, <1>3
  <2> QED
    BY <2>1, <2>2, <2>3
<1> QED
  BY <1>1, <1>2, <1>4, <1>5, <1>6 DEF Owners, w2

(* A client without a packet being written loses its queue, some of which  *)
(* is recycled.                                                            *)
LEMMA OwnersDropped ==
  ASSUME NEW R, NEW Q, NEW w, NEW n \in Nat,
         Owners(R, Q, w, n), NEW c \in Slots, NEW T \in SUBSET Q[c],
         NEW Q2, Q2[c] = {}, \A d \in Slots \ {c} : Q2[d] = Q[d]
  PROVE  Owners(R \union T, Q2, w, n)
<1>1. \A d \in Slots : w[d] \notin R /\ Q[d] \intersect R = {}
                      /\ (w[d] # NULL => w[d] \in 1 .. n)
  BY DEF Owners
<1>2. \A d, e \in Slots : w[d] \notin Q[e]
                         /\ (d # e => Q[d] \intersect Q[e] = {})
                         /\ (d # e /\ w[d] = w[e] => w[d] = NULL)
  BY DEF Owners
<1>3. /\ R \union T \subseteq 1 .. n
      /\ \A d \in Slots : Q[d] \subseteq 1 .. n /\ Q2[d] \subseteq Q[d]
  BY DEF Owners
<1>4. ASSUME NEW d \in Slots
      PROVE  Q2[d] \intersect (R \union T) = {} /\ w[d] \notin R \union T
  BY <1>1, <1>2, <1>3
<1> QED
  BY <1>1, <1>2, <1>3, <1>4 DEF Owners

(* The client c forgets its packets.                                       *)
LEMMA OwnersForgotten ==
  ASSUME NEW R, NEW Q, NEW w \in [Slots -> PacketOrNull], NEW n \in Nat,
         Owners(R, Q, w, n), NEW c \in Slots,
         NEW Q2, Q2[c] = {}, \A d \in Slots \ {c} : Q2[d] = Q[d]
  PROVE  Owners(R, Q2, [w EXCEPT ![c] = NULL], n)
<1> DEFINE w2 == [w EXCEPT ![c] = NULL]
<1>1. w2[c] = NULL /\ \A d \in Slots : d # c => w2[d] = w[d]
  OBVIOUS
<1>2. NULL \notin 1 .. n
  BY DEF NULL
<1>3. \A d \in Slots : w[d] \notin R /\ Q[d] \intersect R = {}
                      /\ (w[d] # NULL => w[d] \in 1 .. n)
  BY DEF Owners
<1>4. \A d, e \in Slots : w[d] \notin Q[e]
                         /\ (d # e => Q[d] \intersect Q[e] = {})
                         /\ (d # e /\ w[d] = w[e] => w[d] = NULL)
  BY DEF Owners
<1>5. R \subseteq 1 .. n /\ \A d \in Slots : Q[d] \subseteq 1 .. n /\ Q2[d] \subseteq Q[d]
  BY DEF Owners
<1> HIDE DEF w2
<1>6. ASSUME NEW d \in Slots, NEW e \in Slots
      PROVE  /\ w2[d] \notin Q2[e]
             /\ d # e => Q2[d] \intersect Q2[e] = {}
             /\ d # e /\ w2[d] = w2[e] => w2[d] = NULL
  <2>1. d # e => Q2[d] \intersect Q2[e] = {}
    BY <1>4, <1>5
  <2>2. w2[d] \notin Q2[e]
    BY <1>1, <1>2, <1>4, <1>5
  <2> QED
    BY <1>1, <1>4, <2>1, <2>2
<1>7. ASSUME NEW d \in Slots
      PROVE  w2[d] \notin R /\ (w2[d] # NULL => w2[d] \in 1 .. n)
  BY <1>1, <1>2, <1>3, <1>5
<1> QED
  BY <1>3, <1>5, <1>6, <1>7 DEF Owners, w2

(* A recycled packet, or the next of the arena, is queued for c.           *)
LEMMA OwnersFresh ==
  ASSUME NEW R, NEW Q, NEW w, NEW n \in Nat, NEW m \in Nat,
         Owners(R, Q, w, n), NEW c \in Slots, NEW p,
         (p \in R /\ m = n) \/ (p = n + 1 /\ m = p),
         NEW Q2, Q2[c] = Q[c] \union {p}, \A d \in Slots \ {c} : Q2[d] = Q[d]
  PROVE  Owners(R \ {p}, Q2, w, m)
<1>1. \A d \in Slots : w[d] \notin R /\ Q[d] \intersect R = {}
                      /\ (w[d] # NULL => w[d] \in 1 .. n)
  BY DEF Owners
<1>2. \A d, e \in Slots : w[d] \notin Q[e]
                         /\ (d # e => Q[d] \intersect Q[e] = {})
                         /\ (d # e /\ w[d] = w[e] => w[d] = NULL)
  BY DEF Owners
<1>3. R \subseteq 1 .. n /\ \A d \in Slots : Q[d] \subseteq 1 .. n
  BY DEF Owners
<1>4. 1 .. n \subseteq 1 .. m /\ p \in 1 .. m
  <2>1. CASE p \in R /\ m = n
    BY <1>3, <2>1
  <2>2. CASE p = n + 1 /\ m = p
    BY <2>2
  <2> QED
    BY <2>1, <2>2
<1>5. p \in R \/ p \notin 1 .. n
  OBVIOUS
<1>6. p # NULL
  BY <1>4 DEF NULL
<1>7. \A d \in Slots : p \notin Q[d] /\ p # w[d]
  BY <1>1, <1>3, <1>5, <1>6
<1>8. ASSUME NEW d \in Slots
      PROVE  Q2[d] \subseteq 1 .. m /\ Q2[d] \intersect (R \ {p}) = {}
  BY <1>1, <1>3, <1>4
<1>9. ASSUME NEW d \in Slots, NEW e \in Slots
      PROVE  /\ w[d] \notin Q2[e]
             /\ d # e => Q2[d] \intersect Q2[e] = {}
  BY <1>2, <1>7
<1> QED
  BY <1>1, <1>2, <1>3, <1>4, <1>8, <1>9 DEF Owners

-----------------------------------------------------------------------------
(* What is released with Written(c) is in no list.                         *)
LEMMA WrittenElements ==
  ASSUME PacketsTypeOK, NEW c \in Slots
  PROVE  /\ AtMostTwo(Written(c))
         /\ ToSet(Written(c)) = IF out_writing[c] = NULL THEN {} ELSE {out_writing[c]}
         /\ ToSet(Written(c)) \subseteq Packets
<1>1. out_writing[c] \in PacketOrNull
  BY DEF PacketsTypeOK
<1>2. CASE out_writing[c] = NULL
  BY <1>2 DEF Written, AtMostTwo, ToSet
<1>3. CASE out_writing[c] # NULL
  <2>1. out_writing[c] \in Packets /\ Written(c) = <<out_writing[c]>>
    BY <1>1, <1>3 DEF Written, PacketOrNull
  <2> QED
    BY <1>3, <2>1 DEF AtMostTwo, ToSet
<1> QED
  BY <1>2, <1>3

LEMMA WriteNothingInv ==
  ASSUME PacketInv, NEW c \in Slots, WriteNothing(c)
  PROVE  /\ PacketInv' /\ QueueChains' = QueueChains
         /\ Recycled' = Recycled \union InFlight(c)
<1>1. PICK r, q : /\ Layout(next, output_head, out_queue_head, out_queue_tail, r, q)
                  /\ Owners(ToSet(r), Elements(q), out_writing, allocated)
                  /\ q = QueueChains /\ ToSet(r) = Recycled
  BY PacketInvNow
<1>2. PacketsTypeOK /\ IsList(next, r, output_head)
  BY <1>1 DEF PacketInv, Layout
<1> DEFINE W == ToSet(Written(c))
<1>3. /\ AtMostTwo(Written(c)) /\ W \subseteq Packets
      /\ W = IF out_writing[c] = NULL THEN {} ELSE {out_writing[c]}
  BY <1>2, WrittenElements
<1>4. W \intersect ToSet(r) = {} /\ \A d \in Slots : W \intersect ToSet(q[d]) = {}
  BY <1>1, <1>3 DEF Owners, Elements
<1>5. PICK r2 : IsList(next', r2, output_head') /\ ToSet(r2) = ToSet(r) \union W
  BY <1>2, <1>3, <1>4, ReleaseIsList DEF WriteNothing
<1>6. /\ \A y \in Packets \ W : next'[y] = next[y]
      /\ next' \in [Packets -> PacketOrNull]
      /\ output_head' \in PacketOrNull
  BY <1>2, <1>3, <1>4, ReleaseIsList DEF WriteNothing
<1>7. /\ out_writing' = [out_writing EXCEPT ![c] = NULL]
      /\ UNCHANGED <<bufpos, allocated, out_queue_head, out_queue_tail>>
  BY DEF WriteNothing
<1>8. PacketsTypeOK'
  BY <1>2, <1>6, <1>7 DEF PacketsTypeOK, PacketOrNull
<1>9. \A d \in Slots : IsList(next', q[d], out_queue_head[d])
  <2> SUFFICES ASSUME NEW d \in Slots PROVE IsList(next', q[d], out_queue_head[d])
    OBVIOUS
  <2>1. IsList(next, q[d], out_queue_head[d])
    BY <1>1 DEF Layout
  <2>2. ToSet(q[d]) \subseteq Packets
    BY <2>1, InSet DEF IsList
  <2> QED
    BY <1>4, <1>6, <2>1, <2>2, ListElsewhere
<1>10. Layout(next', output_head', out_queue_head', out_queue_tail', r2, q)
  BY <1>1, <1>5, <1>7, <1>9 DEF Layout
<1>11. Owners(ToSet(r2), Elements(q), out_writing', allocated')
  <2>1. out_writing \in [Slots -> PacketOrNull] /\ allocated \in Nat
    BY <1>2, OutPacketsAssumption DEF PacketsTypeOK
  <2>2. Owners(ToSet(r) \union W, Elements(q), [out_writing EXCEPT ![c] = NULL], allocated)
    BY <1>1, <1>3, <2>1, OwnersWritten
  <2> QED
    BY <1>5, <1>7, <2>2
<1> QED
  BY <1>1, <1>5, <1>8, <1>10, <1>11, PacketInvNext DEF QueueChains, InFlight

(* Lists in which nothing is released are as before.                       *)
LEMMA KeepsLists ==
  ASSUME NEW nxt, NEW nxt2, NEW X, \A y \in Packets \ X : nxt2[y] = nxt[y]
  PROVE  \A s, p : IsList(nxt, s, p) /\ X \intersect ToSet(s) = {} => IsList(nxt2, s, p)
<1> SUFFICES ASSUME NEW s, NEW p, IsList(nxt, s, p), X \intersect ToSet(s) = {}
             PROVE  IsList(nxt2, s, p)
  OBVIOUS
<1>1. ToSet(s) \subseteq Packets
  BY InSet DEF IsList
<1> QED
  BY <1>1, ListElsewhere

LEMMA WriteHeadInv ==
  ASSUME PacketInv, NEW c \in Slots, WriteHead(c), bufpos' \in [Packets -> Nat]
  PROVE  /\ PacketInv' /\ QueueChains' = [QueueChains EXCEPT ![c] = Tail(@)]
         /\ Recycled' = Recycled \union InFlight(c)
         /\ out_queue_head[c] \in Packets
         /\ Elements(QueueChains)'[c] = Elements(QueueChains)[c] \ {out_queue_head[c]}
<1>1. PICK r, q : /\ Layout(next, output_head, out_queue_head, out_queue_tail, r, q)
                  /\ Owners(ToSet(r), Elements(q), out_writing, allocated)
                  /\ q = QueueChains /\ ToSet(r) = Recycled
  BY PacketInvNow
<1>2. PacketsTypeOK /\ IsList(next, r, output_head)
  BY <1>1 DEF PacketInv, Layout
<1> DEFINE W == ToSet(Written(c))
           p == out_queue_head[c]
           q2 == [d \in Slots |-> IF d = c THEN Tail(q[c]) ELSE q[d]]
<1>3. /\ AtMostTwo(Written(c)) /\ W \subseteq Packets
      /\ W = IF out_writing[c] = NULL THEN {} ELSE {out_writing[c]}
  BY <1>2, WrittenElements
<1>4. W \intersect ToSet(r) = {} /\ \A d \in Slots : W \intersect ToSet(q[d]) = {}
  BY <1>1, <1>3 DEF Owners, Elements
<1>5. /\ p # NULL
      /\ Release(Written(c))
      /\ out_writing' = [out_writing EXCEPT ![c] = p]
      /\ out_queue_head' = [out_queue_head EXCEPT ![c] = next[p]]
      /\ out_queue_tail' = [out_queue_tail EXCEPT ![c] =
                              IF next[p] = NULL THEN NULL ELSE out_queue_tail[c]]
      /\ allocated' = allocated
  BY DEF WriteHead
<1> HIDE DEF W, p, q2
<1>6. /\ \A y \in Packets \ W : next'[y] = next[y]
      /\ next' \in [Packets -> PacketOrNull]
      /\ output_head' \in PacketOrNull
      /\ \E r2 : IsList(next', r2, output_head') /\ ToSet(r2) = ToSet(r) \union W
  BY <1>2, <1>3, <1>4, <1>5, ReleaseIsList DEF W
<1>7. PICK r2 : IsList(next', r2, output_head') /\ ToSet(r2) = ToSet(r) \union W
  BY <1>6
<1>8. /\ IsList(next, q[c], p) /\ q[c] # <<>> /\ IsList(next, Tail(q[c]), next[p])
      /\ p \in ToSet(q[c]) /\ p \in Packets /\ ToSet(Tail(q[c])) = ToSet(q[c]) \ {p}
      /\ out_queue_tail[c] = q[c][Len(q[c])]
  <2>1. IsList(next, q[c], p)
    BY <1>1 DEF Layout, p
  <2>2. q[c] # <<>> /\ IsList(next, Tail(q[c]), next[p])
        /\ p \in ToSet(q[c]) /\ p \in Packets /\ ToSet(Tail(q[c])) = ToSet(q[c]) \ {p}
    BY <1>5, <2>1, TailIsList
  <2> QED
    BY <1>1, <2>1, <2>2 DEF Layout
<1>9. PacketsTypeOK'
  <2>1. next[p] \in PacketOrNull
    BY <1>2, <1>8 DEF PacketsTypeOK
  <2> QED
    BY <1>2, <1>5, <1>6, <1>8, <2>1 DEF PacketsTypeOK, PacketOrNull
<1>10. ASSUME NEW d \in Slots
       PROVE  IsList(next', q2[d], out_queue_head'[d])
  <2>1. \A t, x : IsList(next, t, x) /\ W \intersect ToSet(t) = {} => IsList(next', t, x)
    BY <1>6, KeepsLists
  <2>2. CASE d = c
    <3>1. q2[d] = Tail(q[c]) /\ out_queue_head'[d] = next[p]
      BY <1>2, <1>5, <2>2 DEF q2, PacketsTypeOK
    <3>2. W \intersect ToSet(Tail(q[c])) = {}
      BY <1>4, <1>8
    <3> QED
      BY <1>8, <2>1, <3>1, <3>2
  <2>3. CASE d # c
    <3>1. q2[d] = q[d] /\ out_queue_head'[d] = out_queue_head[d]
      BY <1>2, <1>5, <2>3 DEF q2, PacketsTypeOK
    <3> QED
      BY <1>1, <1>4, <2>1, <3>1 DEF Layout
  <2> QED
    BY <2>2, <2>3
<1>11. ASSUME NEW d \in Slots
       PROVE  /\ q2[d] = <<>> => out_queue_tail'[d] = NULL
              /\ q2[d] # <<>> => out_queue_tail'[d] = q2[d][Len(q2[d])]
  <2>1. CASE d = c
    <3>1. /\ q2[d] = Tail(q[c])
          /\ out_queue_tail'[d] = IF next[p] = NULL THEN NULL ELSE out_queue_tail[c]
      BY <1>2, <1>5, <2>1 DEF q2, PacketsTypeOK
    <3>2. CASE Tail(q[c]) = <<>>
      BY <1>8, <3>1, <3>2 DEF IsList
    <3>3. CASE Tail(q[c]) # <<>>
      <4> DEFINE t == Tail(q[c])
      <4>1. q[c] \in Seq(Packets)
        BY <1>8 DEF IsList
      <4>2. /\ t \in Seq(Packets) /\ Len(t) = Len(q[c]) - 1
            /\ \A i \in 1 .. Len(t) : t[i] = q[c][i + 1]
        BY <1>8, <4>1, HeadTailProperties
      <4> HIDE DEF t
      <4>3. Len(t) \in 1 .. Len(t) /\ 1 \in 1 .. Len(t) /\ Len(t) + 1 = Len(q[c])
        BY <3>3, <4>1, <4>2 DEF t
      <4>4. t[Len(t)] = q[c][Len(q[c])]
        BY <4>2, <4>3
      <4>5. t[1] \in Packets /\ next[p] = t[1]
        BY <1>8, <3>3, <4>2, <4>3, ElementOfSeq DEF t, IsList
      <4>6. next[p] # NULL
        BY <4>5, OutPacketsAssumption DEF Packets, NULL
      <4> QED
        BY <1>8, <3>1, <3>3, <4>4, <4>6 DEF t
    <3> QED
      BY <3>2, <3>3
  <2>2. CASE d # c
    <3>1. q2[d] = q[d] /\ out_queue_tail'[d] = out_queue_tail[d]
      BY <1>2, <1>5, <2>2 DEF q2, PacketsTypeOK
    <3> QED
      BY <1>1, <3>1 DEF Layout
  <2> QED
    BY <2>1, <2>2
<1>12. Layout(next', output_head', out_queue_head', out_queue_tail', r2, q2)
  BY <1>7, <1>10, <1>11 DEF Layout
<1>13. Owners(ToSet(r2), Elements(q2), out_writing', allocated')
  <2>1. out_writing \in [Slots -> PacketOrNull] /\ allocated \in Nat
    BY <1>2, OutPacketsAssumption DEF PacketsTypeOK
  <2> DEFINE w1 == [out_writing EXCEPT ![c] = NULL]
  <2>2. Owners(ToSet(r) \union W, Elements(q), w1, allocated)
    BY <1>1, <1>3, <2>1, OwnersWritten
  <2>3. w1 \in [Slots -> PacketOrNull] /\ w1[c] = NULL /\ [w1 EXCEPT ![c] = p] = out_writing'
    BY <1>5, <2>1 DEF PacketOrNull
  <2>4. /\ p \in Elements(q)[c] /\ Elements(q2)[c] = Elements(q)[c] \ {p}
        /\ \A d \in Slots \ {c} : Elements(q2)[d] = Elements(q)[d]
    BY <1>8 DEF Elements, q2
  <2> HIDE DEF w1
  <2>5. Owners(ToSet(r) \union W, Elements(q2), [w1 EXCEPT ![c] = p], allocated)
    BY <2>1, <2>2, <2>3, <2>4, OwnersTaken
  <2> QED
    BY <1>5, <1>7, <2>3, <2>5
<1> QED
  <2>1. /\ PacketInv' /\ QueueChains' = [d \in Slots |-> q2[d]]
        /\ Recycled' = ToSet(r2)
    BY <1>9, <1>12, <1>13, PacketInvNext
  <2>2. Elements(QueueChains)'[c] = Elements(QueueChains)[c] \ {p}
    BY <1>1, <1>8, <2>1 DEF q2, Elements
  <2> QED
    BY <1>1, <1>7, <1>8, <2>1, <2>2 DEF p, W, q2, QueueChains, InFlight

(* The loop of game_on_drop finds the tail and nothing behind it.          *)
LEMMA TailChain ==
  ASSUME NEW nxt, NEW p, NEW s, IsList(nxt, s, p), NEW t,
         s = <<>> => t = NULL, s # <<>> => t = s[Len(s)]
  PROVE  /\ ChainAlong(nxt, t) = IF s = <<>> THEN <<>> ELSE <<t>>
         /\ s # <<>> => t \in Packets /\ t \in ToSet(s)
<1>1. CASE s = <<>>
  BY <1>1, EmptyIsList, ChainOfList
<1>2. CASE s # <<>>
  <2>1. s \in Seq(Packets) /\ Len(s) \in 1 .. Len(s) /\ nxt[t] = NULL
    BY <1>2 DEF IsList
  <2>2. t \in Packets /\ t \in ToSet(s)
    BY <1>2, <2>1, InSet
  <2>3. IsList(nxt, <<t>>, t)
    BY <2>1, <2>2, SingleIsList
  <2> QED
    BY <1>2, <2>2, <2>3, ChainOfList
<1> QED
  BY <1>1, <1>2

LEMMA PairOfPackets ==
  ASSUME NEW x \in Packets, NEW y \in Packets
  PROVE  <<x>> \o <<y>> = <<x, y>> /\ ToSet(<<x, y>>) = {x, y}
<1> DEFINE t == <<x>> \o <<y>>
           u == <<x, y>>
<1>1. <<y>> \in Seq(Packets) /\ Len(<<y>>) = 1 /\ <<y>>[1] = y
  OBVIOUS
<1>2. t \in Seq(Packets) /\ Len(t) = 2 /\ t[1] = x /\ t[1 + 1] = y
  BY <1>1, ConsElements
<1>3. u \in Seq(Packets) /\ Len(u) = 2 /\ u[1] = x /\ u[2] = y
  OBVIOUS
<1>4. ToSet(u) = {x, y}
  BY DEF ToSet
<1> HIDE DEF t, u
<1>5. \A i \in 1 .. Len(t) : t[i] = u[i]
  BY <1>2, <1>3
<1>6. t = u
  BY <1>2, <1>3, <1>5, SeqEqual
<1> QED
  BY <1>4, <1>6 DEF t, u

LEMMA ReleaseClientInv ==
  ASSUME PacketInv, NEW c \in Slots, ReleaseClient(c)
  PROVE  /\ PacketInv' /\ QueueChains' = [QueueChains EXCEPT ![c] = <<>>]
         /\ Recycled' = Recycled \union InFlight(c)
              \union (IF Queued(c) = {} THEN {} ELSE {out_queue_tail[c]})
<1>1. PICK r, q : /\ Layout(next, output_head, out_queue_head, out_queue_tail, r, q)
                  /\ Owners(ToSet(r), Elements(q), out_writing, allocated)
                  /\ q = QueueChains /\ ToSet(r) = Recycled
  BY PacketInvNow
<1>2. PacketsTypeOK /\ IsList(next, r, output_head)
  BY <1>1 DEF PacketInv, Layout
<1> DEFINE W == ToSet(Written(c))
           t == out_queue_tail[c]
           T == IF q[c] = <<>> THEN {} ELSE {t}
           ps == Written(c) \o Chain(t)
           q2 == [d \in Slots |-> IF d = c THEN <<>> ELSE q[d]]
<1>3. /\ AtMostTwo(Written(c)) /\ W \subseteq Packets
      /\ W = IF out_writing[c] = NULL THEN {} ELSE {out_writing[c]}
  BY <1>2, WrittenElements
<1>4. W \intersect ToSet(r) = {} /\ \A d \in Slots : W \intersect ToSet(q[d]) = {}
  BY <1>1, <1>3 DEF Owners, Elements
<1>5. /\ Chain(t) = IF q[c] = <<>> THEN <<>> ELSE <<t>>
      /\ q[c] # <<>> => t \in Packets /\ t \in ToSet(q[c])
  <2>1. /\ IsList(next, q[c], out_queue_head[c])
        /\ q[c] = <<>> => t = NULL
        /\ q[c] # <<>> => t = q[c][Len(q[c])]
    BY <1>1 DEF Layout
  <2> HIDE DEF t
  <2> QED
    BY <2>1, TailChain DEF Chain
<1>6. T \subseteq ToSet(q[c]) /\ T \subseteq Packets
  BY <1>5
<1>7. AtMostTwo(ps) /\ ToSet(ps) = W \union T
  <2>1. \A x \in Packets : <<x>> \o <<>> = <<x>> /\ <<>> \o <<x>> = <<x>>
    OBVIOUS
  <2>2. \A x, y \in Packets : <<x>> \o <<y>> = <<x, y>> /\ ToSet(<<x, y>>) = {x, y}
    BY PairOfPackets
  <2>3. <<>> \o <<>> = <<>>
    OBVIOUS
  <2>4. out_writing[c] = NULL \/ out_writing[c] \in Packets
    BY <1>2 DEF PacketsTypeOK, PacketOrNull
  <2>5. CASE out_writing[c] = NULL /\ q[c] = <<>>
    BY <1>5, <2>3, <2>5 DEF Written, AtMostTwo, ToSet
  <2>6. CASE out_writing[c] = NULL /\ q[c] # <<>>
    <3>1. ps = <<t>> /\ t \in Packets
      BY <1>5, <2>1, <2>6 DEF Written
    <3> QED
      BY <1>3, <2>6, <3>1 DEF AtMostTwo, ToSet
  <2>7. CASE out_writing[c] # NULL /\ q[c] = <<>>
    <3>1. ps = <<out_writing[c]>> /\ out_writing[c] \in Packets
      BY <1>5, <2>1, <2>4, <2>7 DEF Written
    <3> QED
      BY <1>3, <2>7, <3>1 DEF AtMostTwo, ToSet
  <2>8. CASE out_writing[c] # NULL /\ q[c] # <<>>
    <3>1. ps = <<out_writing[c], t>> /\ out_writing[c] \in Packets /\ t \in Packets
      BY <1>5, <2>2, <2>4, <2>8 DEF Written
    <3>2. out_writing[c] # t
      BY <1>3, <1>4, <1>5, <2>8
    <3>3. ToSet(ps) = {out_writing[c], t}
      BY <2>2, <3>1
    <3>4. AtMostTwo(ps)
      BY <3>1, <3>2 DEF AtMostTwo
    <3> QED
      BY <1>3, <2>8, <3>3, <3>4
  <2> QED
    BY <2>5, <2>6, <2>7, <2>8
<1>8. ToSet(ps) \intersect ToSet(r) = {}
  BY <1>1, <1>4, <1>6, <1>7 DEF Owners, Elements
<1>9. /\ Release(ps)
      /\ out_writing' = [out_writing EXCEPT ![c] = NULL]
      /\ out_queue_head' = [out_queue_head EXCEPT ![c] = NULL]
      /\ out_queue_tail' = [out_queue_tail EXCEPT ![c] = NULL]
      /\ UNCHANGED <<bufpos, allocated>>
  BY DEF ReleaseClient
<1> HIDE DEF W, t, T, ps, q2
<1>10. /\ \A y \in Packets \ ToSet(ps) : next'[y] = next[y]
       /\ next' \in [Packets -> PacketOrNull]
       /\ output_head' \in PacketOrNull
       /\ \E r2 : IsList(next', r2, output_head') /\ ToSet(r2) = ToSet(r) \union ToSet(ps)
  BY <1>2, <1>7, <1>8, <1>9, ReleaseIsList
<1>11. PICK r2 : IsList(next', r2, output_head') /\ ToSet(r2) = ToSet(r) \union ToSet(ps)
  BY <1>10
<1>12. PacketsTypeOK'
  BY <1>2, <1>9, <1>10 DEF PacketsTypeOK, PacketOrNull
<1>13. ASSUME NEW d \in Slots
       PROVE  /\ IsList(next', q2[d], out_queue_head'[d])
              /\ q2[d] = <<>> => out_queue_tail'[d] = NULL
              /\ q2[d] # <<>> => out_queue_tail'[d] = q2[d][Len(q2[d])]
  <2>1. CASE d = c
    <3>1. q2[d] = <<>> /\ out_queue_head'[d] = NULL /\ out_queue_tail'[d] = NULL
      BY <1>2, <1>9, <2>1 DEF q2, PacketsTypeOK
    <3> QED
      BY <3>1, EmptyIsList
  <2>2. CASE d # c
    <3>1. /\ q2[d] = q[d] /\ out_queue_head'[d] = out_queue_head[d]
          /\ out_queue_tail'[d] = out_queue_tail[d]
      BY <1>2, <1>9, <2>2 DEF q2, PacketsTypeOK
    <3>2. ToSet(ps) \intersect ToSet(q[d]) = {}
      BY <1>1, <1>4, <1>6, <1>7, <2>2 DEF Owners, Elements
    <3>3. IsList(next, q[d], out_queue_head[d])
      BY <1>1 DEF Layout
    <3>4. IsList(next', q[d], out_queue_head[d])
      BY <1>10, <3>2, <3>3, KeepsLists
    <3> QED
      BY <1>1, <3>1, <3>4 DEF Layout
  <2> QED
    BY <2>1, <2>2
<1>14. Layout(next', output_head', out_queue_head', out_queue_tail', r2, q2)
  BY <1>11, <1>13 DEF Layout
<1>15. Owners(ToSet(r2), Elements(q2), out_writing', allocated')
  <2>1. out_writing \in [Slots -> PacketOrNull] /\ allocated \in Nat
    BY <1>2, OutPacketsAssumption DEF PacketsTypeOK
  <2>2. Owners(ToSet(r) \union W, Elements(q), out_writing', allocated)
    BY <1>1, <1>3, <1>9, <2>1, OwnersWritten
  <2>3. /\ T \in SUBSET Elements(q)[c] /\ Elements(q2)[c] = {}
        /\ \A d \in Slots \ {c} : Elements(q2)[d] = Elements(q)[d]
    BY <1>6, EmptyIsList DEF Elements, q2
  <2>4. Owners((ToSet(r) \union W) \union T, Elements(q2), out_writing', allocated)
    BY <2>1, <2>2, <2>3, OwnersDropped
  <2>5. ToSet(r2) = (ToSet(r) \union W) \union T
    BY <1>7, <1>11
  <2> QED
    BY <1>9, <2>4, <2>5
<1> QED
  <2>1. /\ PacketInv' /\ QueueChains' = [d \in Slots |-> q2[d]]
        /\ Recycled' = ToSet(r2)
    BY <1>12, <1>14, <1>15, PacketInvNext
  <2>2. T = IF Queued(c) = {} THEN {} ELSE {out_queue_tail[c]}
    <3>1. Queued(c) = ToSet(q[c])
      BY <1>1 DEF QueueChains, Queued
    <3>2. q[c] = <<>> <=> ToSet(q[c]) = {}
      BY <1>5, EmptyIsList
    <3> QED
      BY <3>1, <3>2 DEF T, t
  <2>3. Recycled' = Recycled \union InFlight(c) \union T
    BY <1>1, <1>7, <1>11, <2>1 DEF W, InFlight
  <2> QED
    BY <1>1, <2>1, <2>2, <2>3 DEF q2, QueueChains

LEMMA ForgetPacketsInv ==
  ASSUME PacketInv, NEW c \in Slots, ForgetPackets(c)
  PROVE  /\ PacketInv' /\ QueueChains' = [QueueChains EXCEPT ![c] = <<>>]
         /\ Recycled' = Recycled
<1>1. PICK r, q : /\ Layout(next, output_head, out_queue_head, out_queue_tail, r, q)
                  /\ Owners(ToSet(r), Elements(q), out_writing, allocated)
                  /\ q = QueueChains /\ ToSet(r) = Recycled
  BY PacketInvNow
<1> DEFINE q2 == [d \in Slots |-> IF d = c THEN <<>> ELSE q[d]]
<1>2. PacketsTypeOK
  BY DEF PacketInv
<1>3. PacketsTypeOK'
  BY <1>2 DEF PacketsTypeOK, ForgetPackets, PacketOrNull
<1>4. ASSUME NEW d \in Slots
      PROVE  /\ IsList(next, q2[d], out_queue_head'[d])
             /\ q2[d] = <<>> => out_queue_tail'[d] = NULL
             /\ q2[d] # <<>> => out_queue_tail'[d] = q2[d][Len(q2[d])]
  <2>1. CASE d = c
    BY <1>2, <2>1, EmptyIsList DEF ForgetPackets, PacketsTypeOK
  <2>2. CASE d # c
    BY <1>1, <1>2, <2>2 DEF ForgetPackets, PacketsTypeOK, Layout
  <2> QED
    BY <2>1, <2>2
<1>5. Layout(next', output_head', out_queue_head', out_queue_tail', r, q2)
  BY <1>1, <1>4 DEF Layout, ForgetPackets
<1>6. Owners(ToSet(r), Elements(q2), out_writing', allocated')
  <2>1. out_writing \in [Slots -> PacketOrNull] /\ allocated \in Nat
    BY <1>2, OutPacketsAssumption DEF PacketsTypeOK
  <2>2. /\ Elements(q2)[c] = {}
        /\ \A d \in Slots \ {c} : Elements(q2)[d] = Elements(q)[d]
    BY EmptyIsList DEF Elements
  <2> HIDE DEF q2
  <2>3. Owners(ToSet(r), Elements(q2), [out_writing EXCEPT ![c] = NULL], allocated)
    BY <1>1, <2>1, <2>2, OwnersForgotten
  <2> QED
    BY <2>3 DEF ForgetPackets
<1> QED
  BY <1>1, <1>3, <1>5, <1>6, PacketInvNext DEF QueueChains

LEMMA AppendToTailInv ==
  ASSUME PacketInv, NEW c \in Slots, NEW size, NEW written, AppendToTail(c, size, written),
         bufpos' \in [Packets -> Nat]
  PROVE  PacketInv' /\ QueueChains' = QueueChains /\ Recycled' = Recycled
<1>1. UNCHANGED <<next, allocated, output_head, queueVars>>
  BY DEF AppendToTail
<1>2. PICK r, q : /\ Layout(next, output_head, out_queue_head, out_queue_tail, r, q)
                  /\ Owners(ToSet(r), Elements(q), out_writing, allocated)
                  /\ q = QueueChains /\ ToSet(r) = Recycled
  BY PacketInvNow
<1>3. PacketsTypeOK'
  BY <1>1 DEF PacketInv, PacketsTypeOK, queueVars
<1> QED
  BY <1>1, <1>2, <1>3, PacketInvNext DEF queueVars, QueueChains

(* The packet get_out_packet takes has no other owner.                     *)
LEMMA FreshIsFree ==
  ASSUME PacketsTypeOK, NEW p \in Packets, FreshPacket(p),
         NEW r, IsList(next, r, output_head), NEW Q,
         Owners(ToSet(r), Q, out_writing, allocated)
  PROVE  /\ \/ p \in ToSet(r) /\ allocated' = allocated
            \/ p = allocated + 1 /\ allocated' = p
         /\ allocated' \in 0 .. MaxPackets /\ output_head' \in PacketOrNull
         /\ \A d \in Slots : p \notin Q[d]
         /\ \E r2 : IsList(next, r2, output_head') /\ ToSet(r2) = ToSet(r) \ {p}
<1>1. /\ allocated \in Nat /\ allocated \in 0 .. MaxPackets
      /\ output_head \in PacketOrNull /\ next[p] \in PacketOrNull
  BY OutPacketsAssumption DEF PacketsTypeOK
<1>2. CASE output_head # NULL
  <2>1. p = output_head /\ output_head' = next[p] /\ allocated' = allocated
    BY <1>2 DEF FreshPacket
  <2>2. IsList(next, Tail(r), next[p]) /\ p \in ToSet(r) /\ ToSet(Tail(r)) = ToSet(r) \ {p}
    BY <1>2, <2>1, TailIsList
  <2> QED
    BY <1>1, <2>1, <2>2 DEF Owners
<1>3. CASE output_head = NULL
  <2>1. p = allocated + 1 /\ allocated' = p /\ UNCHANGED output_head
    BY <1>3 DEF FreshPacket
  <2>2. p \notin 1 .. allocated
    BY <1>1, <2>1
  <2>3. p \notin ToSet(r) /\ \A d \in Slots : p \notin Q[d]
    BY <2>2 DEF Owners
  <2>4. p \in 0 .. MaxPackets
    BY OutPacketsAssumption DEF Packets
  <2> QED
    BY <1>1, <2>1, <2>3, <2>4
<1> QED
  BY <1>2, <1>3

(* A packet that no queue had is linked behind the queue of c.             *)
AppendsFresh(c) ==
  \E p \in Packets :
    /\ out_queue_tail' = [out_queue_tail EXCEPT ![c] = p]
    /\ p # out_queue_tail[c]
    /\ \A d \in Slots : p \notin ToSet(QueueChains[d])
    /\ QueueChains' = [QueueChains EXCEPT ![c] = Append(@, p)]
    /\ Elements(QueueChains)'[c] = Elements(QueueChains)[c] \union {p}
    /\ Recycled' = Recycled \ {p}
    /\ \/ p \in Recycled /\ allocated' = allocated
       \/ p = allocated + 1 /\ allocated' = p

LEMMA AppendFreshInv ==
  ASSUME PacketInv, NEW c \in Slots, NEW size, NEW written, AppendFresh(c, size, written),
         bufpos' \in [Packets -> Nat]
  PROVE  PacketInv' /\ AppendsFresh(c)
<1>1. PICK r, q : /\ Layout(next, output_head, out_queue_head, out_queue_tail, r, q)
                  /\ Owners(ToSet(r), Elements(q), out_writing, allocated)
                  /\ q = QueueChains /\ ToSet(r) = Recycled
  BY PacketInvNow
<1>2. PacketsTypeOK /\ IsList(next, r, output_head)
  BY <1>1 DEF PacketInv, Layout
<1> DEFINE t == out_queue_tail[c]
<1>3. PICK p \in Packets :
        /\ FreshPacket(p)
        /\ next' = [y \in Packets |-> IF y = p THEN NULL ELSE IF y = t THEN p ELSE next[y]]
        /\ out_queue_tail' = [out_queue_tail EXCEPT ![c] = p]
        /\ out_queue_head' = [out_queue_head EXCEPT ![c] = IF t = NULL THEN p ELSE @]
        /\ UNCHANGED out_writing
  BY DEF AppendFresh
<1> DEFINE q2 == [d \in Slots |-> IF d = c THEN Append(q[c], p) ELSE q[d]]
<1>4. /\ \/ p \in ToSet(r) /\ allocated' = allocated
         \/ p = allocated + 1 /\ allocated' = p
      /\ allocated' \in 0 .. MaxPackets /\ output_head' \in PacketOrNull
      /\ \A d \in Slots : p \notin Elements(q)[d]
      /\ \E r2 : IsList(next, r2, output_head') /\ ToSet(r2) = ToSet(r) \ {p}
  BY <1>1, <1>2, <1>3, FreshIsFree
<1>5. PICK r2 : IsList(next, r2, output_head') /\ ToSet(r2) = ToSet(r) \ {p}
  BY <1>4
<1>6. /\ IsList(next, q[c], out_queue_head[c]) /\ q[c] \in Seq(Packets)
      /\ q[c] = <<>> => t = NULL /\ out_queue_head[c] = NULL
      /\ q[c] # <<>> => t = q[c][Len(q[c])] /\ t \in ToSet(q[c]) /\ t \in Packets /\ t # NULL
  <2>1. /\ IsList(next, q[c], out_queue_head[c])
        /\ q[c] = <<>> => t = NULL
        /\ q[c] # <<>> => t = q[c][Len(q[c])]
    BY <1>1 DEF Layout
  <2> HIDE DEF t
  <2>2. q[c] # <<>> => t \in ToSet(q[c]) /\ t \in Packets
    BY <2>1, TailChain
  <2>3. NULL \notin Packets
    BY DEF Packets, NULL
  <2> QED
    BY <2>1, <2>2, <2>3 DEF IsList
<1> HIDE DEF t, q2
<1>7. \A y \in Packets \ {p, t} : next'[y] = next[y]
  BY <1>3
<1>8. t \notin ToSet(r) /\ \A d \in Slots \ {c} : t \notin ToSet(q[d])
  <2>1. CASE q[c] = <<>>
    <3>1. NULL \notin ToSet(r) /\ \A d \in Slots : NULL \notin ToSet(q[d])
      BY <1>1 DEF Owners, Elements, NULL
    <3> QED
      BY <1>6, <2>1, <3>1
  <2>2. CASE q[c] # <<>>
    BY <1>1, <1>6, <2>2 DEF Owners, Elements
  <2> QED
    BY <2>1, <2>2
<1>9. IsList(next', r2, output_head')
  <2>1. {p, t} \intersect ToSet(r2) = {}
    BY <1>5, <1>8
  <2> QED
    BY <1>5, <1>7, <2>1, KeepsLists
<1>10. PacketsTypeOK'
  BY <1>2, <1>3, <1>4 DEF PacketsTypeOK, PacketOrNull
<1>11. ASSUME NEW d \in Slots
       PROVE  /\ IsList(next', q2[d], out_queue_head'[d])
              /\ q2[d] = <<>> => out_queue_tail'[d] = NULL
              /\ q2[d] # <<>> => out_queue_tail'[d] = q2[d][Len(q2[d])]
  <2>1. CASE d = c
    <3>1. /\ q2[d] = Append(q[c], p) /\ out_queue_tail'[d] = p
          /\ out_queue_head'[d] = IF t = NULL THEN p ELSE out_queue_head[c]
      BY <1>2, <1>3, <2>1 DEF q2, PacketsTypeOK
    <3>2. Append(q[c], p) # <<>> /\ Append(q[c], p)[Len(Append(q[c], p))] = p
      BY <1>6, AppendProperties
    <3>3. CASE q[c] = <<>>
      <4>1. Append(q[c], p) = <<p>> /\ next'[p] = NULL /\ out_queue_head'[d] = p
        BY <1>3, <1>6, <3>1, <3>3
      <4>2. IsList(next', <<p>>, p)
        BY <4>1, SingleIsList
      <4> QED
        BY <3>1, <3>2, <4>1, <4>2
    <3>4. CASE q[c] # <<>>
      <4>1. out_queue_head'[d] = out_queue_head[c] /\ p \notin ToSet(q[c])
        BY <1>4, <1>6, <3>1, <3>4 DEF Elements
      <4>2. t # p /\ next'[p] = NULL /\ next'[t] = p
        BY <1>3, <1>6, <3>4, <4>1
      <4>3. \A y \in ToSet(q[c]) : y # t => next'[y] = next[y]
        BY <1>6, <1>7, <4>1, InSet
      <4>4. IsList(next', Append(q[c], p), out_queue_head[c])
        BY <1>6, <3>4, <4>1, <4>2, <4>3, AppendIsList
      <4> QED
        BY <3>1, <3>2, <4>1, <4>4
    <3> QED
      BY <3>3, <3>4
  <2>2. CASE d # c
    <3>1. /\ q2[d] = q[d] /\ out_queue_head'[d] = out_queue_head[d]
          /\ out_queue_tail'[d] = out_queue_tail[d]
      BY <1>2, <1>3, <2>2 DEF q2, PacketsTypeOK
    <3>2. {p, t} \intersect ToSet(q[d]) = {}
      BY <1>4, <1>8, <2>2 DEF Elements
    <3>3. IsList(next, q[d], out_queue_head[d])
      BY <1>1 DEF Layout
    <3>4. IsList(next', q[d], out_queue_head[d])
      BY <1>7, <3>2, <3>3, KeepsLists
    <3> QED
      BY <1>1, <3>1, <3>4 DEF Layout
  <2> QED
    BY <2>1, <2>2
<1>12. Layout(next', output_head', out_queue_head', out_queue_tail', r2, q2)
  BY <1>9, <1>11 DEF Layout
<1>13. Owners(ToSet(r2), Elements(q2), out_writing', allocated')
  <2>1. allocated \in Nat /\ allocated' \in Nat
    BY <1>2, <1>4, OutPacketsAssumption DEF PacketsTypeOK
  <2>2. /\ Elements(q2)[c] = Elements(q)[c] \union {p}
        /\ \A d \in Slots \ {c} : Elements(q2)[d] = Elements(q)[d]
    BY <1>6, AppendElements DEF Elements, q2
  <2>3. Owners(ToSet(r) \ {p}, Elements(q2), out_writing, allocated')
    BY <1>1, <1>4, <2>1, <2>2, OwnersFresh
  <2> QED
    BY <1>3, <1>5, <2>3
<1>14. PacketInv' /\ QueueChains' = [d \in Slots |-> q2[d]] /\ Recycled' = ToSet(r2)
  BY <1>10, <1>12, <1>13, PacketInvNext
<1>15. AppendsFresh(c)
  <2>1. p # out_queue_tail[c] /\ \A d \in Slots : p \notin ToSet(QueueChains[d])
    <3>1. \A d \in Slots : p \notin ToSet(q[d])
      BY <1>4 DEF Elements
    <3>2. p # NULL
      BY OutPacketsAssumption DEF Packets, NULL
    <3> QED
      BY <1>1, <1>6, <3>1, <3>2 DEF t
  <2>2. QueueChains' = [QueueChains EXCEPT ![c] = Append(@, p)]
    BY <1>1, <1>14 DEF q2, QueueChains
  <2>3. Elements(QueueChains)'[c] = Elements(QueueChains)[c] \union {p}
    BY <1>1, <1>6, <1>14, AppendElements DEF q2, Elements
  <2> QED
    BY <1>1, <1>3, <1>4, <1>5, <1>14, <2>1, <2>2, <2>3 DEF AppendsFresh
<1> QED
  BY <1>14, <1>15

-----------------------------------------------------------------------------
(***************************************************************************)
(* The bytes in the packets.  What packet_wrap makes of a packet ends 2    *)
(* bytes before a multiple of 8, so there is room for it as long as the    *)
(* last 2 bytes of the buffer are free.                                    *)
(***************************************************************************)
RoomInv == bufpos \in [Packets -> 0 .. BufSize - 2]

LEMMA PaddingFits ==
  ASSUME RoomInv, NEW p \in Packets
  PROVE  WrapFits(p) /\ bufpos[p] + Padding(p) \in 0 .. BufSize - 2
<1>1. bufpos[p] \in Nat /\ bufpos[p] <= BufSize - 2 /\ BufSize \in Nat /\ BufSize % 8 = 0
  BY OutPacketsAssumption DEF RoomInv
<1> DEFINE b == bufpos[p]
           B == BufSize
           pad == (6 - b) % 8
<1>2. b \in Nat /\ b <= B - 2 /\ B \in Nat /\ B % 8 = 0
  BY <1>1
<1>3. Padding(p) = pad
  BY <1>1 DEF Padding, HeaderSize
<1> HIDE DEF b, B
<1>4. pad \in 0 .. 7 /\ (b + pad) % 8 = 6 /\ (B - 2) % 8 = 6
  BY <1>2
<1>5. b + pad <= B - 2
  BY <1>2, <1>4
<1> HIDE DEF pad
<1>6. B - b >= pad /\ b + pad \in 0 .. B - 2
  BY <1>2, <1>4, <1>5
<1>7. CanWrite(p, pad)
  BY <1>6 DEF CanWrite, b, B
<1> QED
  BY <1>3, <1>6, <1>7 DEF WrapFits, b, B

(* Whatever the packets hold, they can be wrapped.                         *)
LEMMA RoomInvImplies == RoomInv => WrapAlwaysFits
  BY PaddingFits DEF WrapAlwaysFits

(* A message that a packet of its own has room for, and that is not much   *)
(* longer than what get_out_packet was asked for: the bytes kept for the   *)
(* padding take the rest.                                                  *)
Fits(size, written) ==
  /\ size \in Nat /\ written \in Nat \ {0}
  /\ HeaderSize + written <= BufSize - 2
  /\ size = 0 \/ written <= size + 5

LEMMA PutMessageInv ==
  ASSUME PacketInv, RoomInv, NEW c \in Slots, NEW size, NEW written,
         Fits(size, written), PutMessage(c, size, written)
  PROVE  PacketInv' /\ RoomInv'
<1>1. BufSize \in Nat /\ size \in Nat /\ written \in Nat
  BY OutPacketsAssumption DEF Fits
<1>2. CASE AppendToTail(c, size, written)
  <2> DEFINE t == out_queue_tail[c]
  <2>1. /\ t # NULL /\ size > 0 /\ BufSize - bufpos[t] >= size + 7
        /\ bufpos' = [bufpos EXCEPT ![t] = bufpos[t] + written]
    BY <1>2 DEF AppendToTail, FitsTail, CanWrite
  <2>2. t \in Packets
    BY <2>1 DEF PacketInv, PacketsTypeOK, PacketOrNull
  <2>3. bufpos[t] \in 0 .. BufSize - 2
    BY <2>2 DEF RoomInv
  <2>4. bufpos[t] + written \in 0 .. BufSize - 2
    BY <1>1, <2>1, <2>3 DEF Fits
  <2>5. RoomInv'
    BY <2>1, <2>4 DEF RoomInv
  <2>6. bufpos' \in [Packets -> Nat]
    BY <1>1, <2>5 DEF RoomInv
  <2> QED
    BY <1>2, <2>5, <2>6, AppendToTailInv
<1>3. CASE AppendFresh(c, size, written)
  <2>1. HeaderSize + written \in 0 .. BufSize - 2
    BY <1>1 DEF Fits, HeaderSize
  <2>2. RoomInv'
    BY <1>3, <2>1 DEF AppendFresh, RoomInv
  <2>3. bufpos' \in [Packets -> Nat]
    BY <1>1, <2>2 DEF RoomInv
  <2> QED
    BY <1>3, <2>2, <2>3, AppendFreshInv
<1> QED
  BY <1>2, <1>3 DEF PutMessage

LEMMA WriteInv ==
  ASSUME PacketInv, RoomInv, NEW c \in Slots, WriteHead(c) \/ WriteNothing(c)
  PROVE  PacketInv' /\ RoomInv'
<1>1. CASE WriteNothing(c)
  BY <1>1, WriteNothingInv DEF WriteNothing, RoomInv
<1>2. CASE WriteHead(c)
  <2> DEFINE p == out_queue_head[c]
  <2>1. p # NULL /\ bufpos' = [bufpos EXCEPT ![p] = bufpos[p] + Padding(p)]
    BY <1>2 DEF WriteHead
  <2>2. p \in Packets
    BY <2>1 DEF PacketInv, PacketsTypeOK, PacketOrNull
  <2>3. RoomInv'
    <3>1. bufpos[p] + Padding(p) \in 0 .. BufSize - 2
      BY <2>2, PaddingFits
    <3> QED
      BY <2>1, <3>1 DEF RoomInv
  <2>4. bufpos' \in [Packets -> Nat]
    BY <2>3, OutPacketsAssumption DEF RoomInv
  <2> QED
    BY <1>2, <2>3, <2>4, WriteHeadInv
<1> QED
  BY <1>1, <1>2

LEMMA DropInv ==
  ASSUME PacketInv, RoomInv, NEW c \in Slots, ReleaseClient(c) \/ ForgetPackets(c)
  PROVE  PacketInv' /\ RoomInv'
<1>1. RoomInv'
  BY DEF ReleaseClient, ForgetPackets, RoomInv
<1> QED
  BY <1>1, ReleaseClientInv, ForgetPacketsInv

LEMMA UnchangedPackets ==
  ASSUME PacketInv, RoomInv, UNCHANGED packetVars
  PROVE  PacketInv' /\ RoomInv'
<1>1. PICK r, q : /\ Layout(next, output_head, out_queue_head, out_queue_tail, r, q)
                  /\ Owners(ToSet(r), Elements(q), out_writing, allocated)
                  /\ q = QueueChains /\ ToSet(r) = Recycled
  BY PacketInvNow
<1>2. PacketsTypeOK' /\ RoomInv'
  BY DEF PacketInv, PacketsTypeOK, packetVars, queueVars, RoomInv
<1> QED
  BY <1>1, <1>2, PacketInvNext DEF packetVars, queueVars

LEMMA RoomInit == PacketsInit => RoomInv
  BY OutPacketsAssumption DEF PacketsInit, RoomInv, HeaderSize
-----------------------------------------------------------------------------
(***************************************************************************)
(* The packets nobody has: those of the arena outside R, Q and w.          *)
(***************************************************************************)
Gone(R, Q, w, n) ==
  {p \in 1 .. n : p \notin R /\ \A c \in Slots : p \notin Q[c] /\ p # w[c]}

LEMMA LostIsGone ==
  /\ Lost = Gone(Recycled, Elements(QueueChains), out_writing, allocated)
  /\ Lost' = Gone(Recycled', Elements(QueueChains)', out_writing', allocated')
<1>1. \A c \in Slots : /\ Elements(QueueChains)[c] = Queued(c)
                       /\ Elements(QueueChains)'[c] = Queued(c)'
  BY DEF Elements, QueueChains, Queued
<1>2. \A c \in Slots :
        /\ InFlight(c) = IF out_writing[c] = NULL THEN {} ELSE {out_writing[c]}
        /\ InFlight(c)' = IF out_writing'[c] = NULL THEN {} ELSE {out_writing'[c]}
  BY DEF InFlight, Written, ToSet
<1>3. \A n, p : p \in 1 .. n => p # NULL
  BY DEF NULL
<1>4. Lost = Gone(Recycled, Elements(QueueChains), out_writing, allocated)
  BY <1>1, <1>2, <1>3 DEF Lost, Gone
<1>5. Lost' = Gone(Recycled', Elements(QueueChains)', out_writing', allocated')
  BY <1>1, <1>2, <1>3 DEF Lost, Gone
<1> QED
  BY <1>4, <1>5

(* Packets of the client c change hands, and none is lost.                 *)
HandedOver(R, Q, w, R2, Q2, w2, n, c) ==
  /\ \A d \in Slots \ {c} : Q2[d] = Q[d] /\ w2[d] = w[d]
  /\ \A p \in 1 .. n : p \in R2 \/ p \in Q2[c] \/ p = w2[c]
                          <=> p \in R \/ p \in Q[c] \/ p = w[c]

LEMMA NoneGone ==
  ASSUME NEW R, NEW Q, NEW w, NEW R2, NEW Q2, NEW w2, NEW n, NEW c \in Slots,
         HandedOver(R, Q, w, R2, Q2, w2, n, c)
  PROVE  Gone(R2, Q2, w2, n) = Gone(R, Q, w, n)
<1>1. ASSUME NEW p \in 1 .. n
      PROVE  p \in R2 \/ (\E d \in Slots : p \in Q2[d] \/ p = w2[d])
               <=> p \in R \/ (\E d \in Slots : p \in Q[d] \/ p = w[d])
  BY DEF HandedOver
<1> QED
  BY <1>1 DEF Gone

LEMMA WriteLosesNone ==
  ASSUME PacketInv, RoomInv, NEW c \in Slots, WriteHead(c) \/ WriteNothing(c)
  PROVE  Lost' = Lost
<1> DEFINE Q == Elements(QueueChains)
<1>1. PacketsTypeOK /\ DOMAIN QueueChains = Slots
  BY DEF PacketInv, QueueChains
<1>2. InFlight(c) = IF out_writing[c] = NULL THEN {} ELSE {out_writing[c]}
  BY DEF InFlight, Written, ToSet
<1>3. \A p : p \in 1 .. allocated => p # NULL
  BY DEF NULL
<1>4. allocated' = allocated
  BY DEF WriteHead, WriteNothing
<1>5. CASE WriteNothing(c)
  <2>1. Recycled' = Recycled \union InFlight(c) /\ QueueChains' = QueueChains
    BY <1>5, WriteNothingInv
  <2>2. /\ Q' = Q
        /\ out_writing'[c] = NULL /\ \A d \in Slots \ {c} : out_writing'[d] = out_writing[d]
    BY <1>1, <1>5, <2>1 DEF WriteNothing, PacketsTypeOK, Elements
  <2>3. \A p \in 1 .. allocated :
          p \in Recycled' \/ p \in Q'[c] \/ p = out_writing'[c]
            <=> p \in Recycled \/ p \in Q[c] \/ p = out_writing[c]
    BY <1>2, <1>3, <2>1, <2>2
  <2> HIDE DEF Q
  <2>4. HandedOver(Recycled, Q, out_writing, Recycled', Q', out_writing', allocated, c)
    BY <2>2, <2>3 DEF HandedOver
  <2>5. Gone(Recycled', Q', out_writing', allocated)
          = Gone(Recycled, Q, out_writing, allocated)
    BY <2>4, NoneGone
  <2> QED
    BY <1>4, <2>5, LostIsGone DEF Q
<1>6. CASE WriteHead(c)
  <2> DEFINE h == out_queue_head[c]
  <2>1. bufpos' \in [Packets -> Nat]
    <3>1. h # NULL /\ bufpos' = [bufpos EXCEPT ![h] = bufpos[h] + Padding(h)]
      BY <1>6 DEF WriteHead
    <3>2. h \in Packets
      BY <1>1, <3>1 DEF PacketsTypeOK, PacketOrNull
    <3>3. bufpos[h] + Padding(h) \in Nat
      BY <3>2, PaddingFits
    <3> QED
      BY <1>1, <3>1, <3>2, <3>3 DEF PacketsTypeOK
  <2>2. /\ QueueChains' = [QueueChains EXCEPT ![c] = Tail(QueueChains[c])]
        /\ Recycled' = Recycled \union InFlight(c)
        /\ Q'[c] = Q[c] \ {h}
    BY <1>6, <2>1, WriteHeadInv
  <2>3. h \in Q[c]
    <3>1. IsList(next, QueueChains[c], h) /\ h # NULL
      BY <1>6 DEF WriteHead, PacketInv, Layout
    <3> QED
      BY <3>1, TailIsList DEF Elements
  <2>4. \A d \in Slots \ {c} : Q'[d] = Q[d]
    BY <1>1, <2>2 DEF Elements
  <2>5. out_writing'[c] = h /\ \A d \in Slots \ {c} : out_writing'[d] = out_writing[d]
    BY <1>1, <1>6 DEF WriteHead, PacketsTypeOK
  <2>6. \A p \in 1 .. allocated :
          p \in Recycled' \/ p \in Q'[c] \/ p = out_writing'[c]
            <=> p \in Recycled \/ p \in Q[c] \/ p = out_writing[c]
    BY <1>2, <1>3, <2>2, <2>3, <2>5
  <2> HIDE DEF Q, h
  <2>7. HandedOver(Recycled, Q, out_writing, Recycled', Q', out_writing', allocated, c)
    BY <2>4, <2>5, <2>6 DEF HandedOver
  <2>8. Gone(Recycled', Q', out_writing', allocated)
          = Gone(Recycled, Q, out_writing, allocated)
    BY <2>7, NoneGone
  <2> QED
    BY <1>4, <2>8, LostIsGone DEF Q
<1> QED
  BY <1>5, <1>6

LEMMA PutLosesNone ==
  ASSUME PacketInv, RoomInv, NEW c \in Slots, NEW size, NEW written,
         Fits(size, written), PutMessage(c, size, written)
  PROVE  Lost' = Lost
<1>1. PacketsTypeOK /\ DOMAIN QueueChains = Slots /\ bufpos' \in [Packets -> Nat]
  <2>1. RoomInv'
    BY PutMessageInv
  <2> QED
    BY <2>1, OutPacketsAssumption DEF PacketInv, QueueChains, RoomInv
<1>2. CASE AppendToTail(c, size, written)
  <2>1. /\ Recycled' = Recycled /\ Elements(QueueChains)' = Elements(QueueChains)
        /\ UNCHANGED <<out_writing, allocated>>
    BY <1>1, <1>2, AppendToTailInv DEF AppendToTail, queueVars, Elements
  <2> QED
    BY <2>1, LostIsGone
<1>3. CASE AppendFresh(c, size, written)
  <2>1. AppendsFresh(c) /\ out_writing' = out_writing
    BY <1>1, <1>3, AppendFreshInv DEF AppendFresh
  <2>2. PICK p \in Packets :
          /\ QueueChains' = [QueueChains EXCEPT ![c] = Append(@, p)]
          /\ Elements(QueueChains)'[c] = Elements(QueueChains)[c] \union {p}
          /\ Recycled' = Recycled \ {p}
          /\ \/ p \in Recycled /\ allocated' = allocated
             \/ p = allocated + 1 /\ allocated' = p
    BY <2>1 DEF AppendsFresh
  <2>3. \A d \in Slots \ {c} : Elements(QueueChains)'[d] = Elements(QueueChains)[d]
    BY <1>1, <2>2 DEF Elements
  <2>4. 1 .. allocated' = (1 .. allocated) \union {p} /\ (p \in 1 .. allocated => p \in Recycled)
    <3>1. allocated \in Nat /\ Recycled \subseteq 1 .. allocated
      BY <1>1, OutPacketsAssumption DEF PacketsTypeOK, PacketInv, Owners
    <3>2. CASE p \in Recycled /\ allocated' = allocated
      BY <3>1, <3>2
    <3>3. CASE p = allocated + 1 /\ allocated' = p
      <4>1. \A x : x \in 1 .. p <=> x \in 1 .. allocated \/ x = p
        BY <3>1, <3>3
      <4>2. p \notin 1 .. allocated
        BY <3>1, <3>3
      <4> QED
        BY <3>3, <4>1, <4>2
    <3> QED
      BY <2>2, <3>2, <3>3
  <2>5. \A x \in 1 .. allocated' : x # p =>
          (x \in Recycled' \/ (\E d \in Slots : x \in Elements(QueueChains)'[d] \/ x = out_writing'[d])
            <=> x \in Recycled \/ (\E d \in Slots : x \in Elements(QueueChains)[d] \/ x = out_writing[d]))
    BY <2>1, <2>2, <2>3
  <2>6. Gone(Recycled', Elements(QueueChains)', out_writing', allocated')
          = Gone(Recycled, Elements(QueueChains), out_writing, allocated)
    BY <2>2, <2>4, <2>5 DEF Gone
  <2> QED
    BY <2>6, LostIsGone
<1> QED
  BY <1>2, <1>3 DEF PutMessage

(* What a dropped client had queued is lost but for the last packet.       *)
LEMMA DropLosesQueue ==
  ASSUME PacketInv, NEW c \in Slots, ReleaseClient(c)
  PROVE  Lost' = Lost \union (Queued(c) \ {out_queue_tail[c]})
<1> DEFINE Q == Elements(QueueChains)
           t == out_queue_tail[c]
<1>1. PacketsTypeOK /\ DOMAIN QueueChains = Slots
      /\ Owners(Recycled, Q, out_writing, allocated)
  BY DEF PacketInv, QueueChains
<1>2. InFlight(c) = IF out_writing[c] = NULL THEN {} ELSE {out_writing[c]}
  BY DEF InFlight, Written, ToSet
<1>3. \A p : p \in 1 .. allocated => p # NULL
  BY DEF NULL
<1>4. /\ QueueChains' = [QueueChains EXCEPT ![c] = <<>>]
      /\ Recycled' = Recycled \union InFlight(c) \union (IF Queued(c) = {} THEN {} ELSE {t})
      /\ allocated' = allocated
  BY ReleaseClientInv DEF ReleaseClient
<1>5. Q'[c] = {} /\ \A d \in Slots \ {c} : Q'[d] = Q[d]
  BY <1>1, <1>4, EmptyIsList DEF Elements
<1>6. out_writing'[c] = NULL /\ \A d \in Slots \ {c} : out_writing'[d] = out_writing[d]
  BY <1>1 DEF ReleaseClient, PacketsTypeOK
<1>7. Q[c] = Queued(c) /\ (Queued(c) # {} => t \in Queued(c))
  <2>1. /\ IsList(next, QueueChains[c], out_queue_head[c])
        /\ QueueChains[c] = <<>> => t = NULL
        /\ QueueChains[c] # <<>> => t = QueueChains[c][Len(QueueChains[c])]
    BY DEF PacketInv, Layout
  <2> HIDE DEF t
  <2>2. QueueChains[c] # <<>> => t \in ToSet(QueueChains[c])
    BY <2>1, TailChain
  <2> QED
    BY <2>2, EmptyIsList DEF Elements, QueueChains, Queued
<1>8. /\ Q[c] \subseteq 1 .. allocated /\ Q[c] \intersect Recycled = {}
      /\ \A d \in Slots : out_writing[d] \notin Q[c] /\ (d # c => Q[c] \intersect Q[d] = {})
  BY <1>1 DEF Owners
<1> HIDE DEF Q, t
<1>9. ASSUME NEW p \in 1 .. allocated
      PROVE  p \in Gone(Recycled', Q', out_writing', allocated)
               <=> p \in Gone(Recycled, Q, out_writing, allocated) \union (Queued(c) \ {t})
  <2>1. CASE p \in Queued(c)
    <3>1. p \notin Gone(Recycled, Q, out_writing, allocated)
      BY <1>7, <2>1 DEF Gone
    <3>2. p # out_writing[c] /\ p \notin Recycled
      BY <1>7, <1>8, <2>1
    <3>3. \A d \in Slots : p \notin Q'[d] /\ p # out_writing'[d]
      BY <1>3, <1>5, <1>6, <1>7, <1>8, <2>1
    <3>4. p \in Recycled' <=> p = t
      BY <1>2, <1>4, <2>1, <3>2
    <3> QED
      BY <2>1, <3>1, <3>3, <3>4 DEF Gone
  <2>2. CASE p \notin Queued(c)
    <3>1. p \in Recycled' <=> p \in Recycled \/ p = out_writing[c]
      BY <1>2, <1>3, <1>4, <1>7, <2>2
    <3>2. \A d \in Slots \ {c} : Q'[d] = Q[d] /\ out_writing'[d] = out_writing[d]
      BY <1>5, <1>6
    <3>3. p \notin Q'[c] /\ p \notin Q[c] /\ p # out_writing'[c]
      BY <1>3, <1>5, <1>6, <1>7, <2>2
    <3> QED
      BY <2>2, <3>1, <3>2, <3>3 DEF Gone
  <2> QED
    BY <2>1, <2>2
<1>10. Queued(c) \subseteq 1 .. allocated
  BY <1>7, <1>8
<1>11. Gone(Recycled', Q', out_writing', allocated)
         = Gone(Recycled, Q, out_writing, allocated) \union (Queued(c) \ {t})
  BY <1>9, <1>10 DEF Gone
<1> QED
  BY <1>4, <1>11, LostIsGone DEF Q, t

(* A client that has no packets forgets none.                              *)
LEMMA ForgetLosesNone ==
  ASSUME PacketInv, NEW c \in Slots, ForgetPackets(c),
         out_writing[c] = NULL, out_queue_head[c] = NULL
  PROVE  Lost' = Lost
<1>1. PacketsTypeOK
  BY DEF PacketInv
<1>2. UNCHANGED <<next, allocated, output_head, out_writing, out_queue_head>>
  BY <1>1 DEF ForgetPackets, PacketsTypeOK
<1>3. Recycled' = Recycled /\ \A d \in Slots : Queued(d)' = Queued(d) /\ InFlight(d)' = InFlight(d)
  BY <1>2 DEF Recycled, Queued, InFlight, Written, Chain
<1> QED
  BY <1>2, <1>3 DEF Lost

-----------------------------------------------------------------------------
(* THE CALLBACKS *)

ClientTypes ==
  /\ state \in [Slots -> ClientState]
  /\ open \in [Slots -> BOOLEAN]
  /\ writing \in [Slots -> BOOLEAN]
  /\ doomed \in [Slots -> BOOLEAN]

(* A slot without a connection is as game_on_drop leaves it.               *)
SlotInv ==
  \A c \in Slots :
    ~open[c] =>
      /\ state[c] = "HANDSHAKE_WRITING" /\ ~writing[c] /\ ~doomed[c]
      /\ out_writing[c] = NULL /\ out_queue_head[c] = NULL /\ out_queue_tail[c] = NULL

GameInv == ClientTypes /\ SlotInv /\ PacketInv /\ RoomInv

LEMMA GameInitInv == GameInit => GameInv
<1> SUFFICES ASSUME GameInit PROVE GameInv
  OBVIOUS
<1>1. PacketInv /\ RoomInv
  BY PacketsInitInv, RoomInit DEF GameInit
<1>2. ClientTypes /\ SlotInv
  BY DEF GameInit, CbInit, PacketsInit, ClientTypes, SlotInv, ClientState
<1> QED
  BY <1>1, <1>2 DEF GameInv

-----------------------------------------------------------------------------
(***************************************************************************)
(* What the callbacks do to the packets.                                   *)
(***************************************************************************)
LEMMA MessagesFit ==
  /\ Fits(NoticeRequest, NoticeSize) /\ Fits(0, LoginSize)
  /\ Fits(4, 4) /\ Fits(1, 1) /\ Fits(1, 2)
<1>1. BufSize \in Nat /\ BufSize >= 16
  BY OutPacketsAssumption DEF HeaderSize
<1> QED
  BY <1>1, GameServerAssumption DEF Fits, HeaderSize

Puts(c) == \E size, written : Fits(size, written) /\ PutMessage(c, size, written)

LEMMA ReadPuts ==
  ASSUME NEW c \in Slots, GameOnRead(c)
  PROVE  UNCHANGED packetVars \/ Puts(c)
<1>1. SendDisconnect(c) \/ SendLogin(c) \/ SendInventoryItem(c) \/ SendReloginWindow(c)
      \/ SendCancelWalk(c) => Puts(c)
  BY MessagesFit
     DEF SendDisconnect, SendLogin, SendInventoryItem, SendReloginWindow, SendCancelWalk,
         Puts
<1>2. ASSUME NEW m \in LoginMessages, ReadLogin(c, m)
      PROVE  UNCHANGED packetVars \/ Puts(c)
  BY <1>1, <1>2 DEF ReadLogin, Disconnect
<1>3. ASSUME NEW m \in GameMessages, ReadMessage(c, m)
      PROVE  UNCHANGED packetVars \/ Puts(c)
  BY <1>1, <1>3 DEF ReadMessage, Disconnect
<1>4. ReadUnexpected(c) => UNCHANGED packetVars
  BY DEF ReadUnexpected, Disconnect
<1> QED
  BY <1>2, <1>3, <1>4 DEF GameOnRead

LEMMA OutputWrites ==
  ASSUME NEW c \in Slots, GameRequestOutput(c)
  PROVE  UNCHANGED packetVars \/ WriteHead(c) \/ WriteNothing(c)
  BY DEF GameRequestOutput, GiveChallenge, ChallengeWritten, GivePacket, GiveNothing,
         NoticeWritten, StayQuiet, Disconnect

GameStep(c) ==
  \/ GameOnAccept(c) \/ GameOnRead(c) \/ GameRequestOutput(c)
  \/ GameRequestStatus(c) \/ GameOutputSent(c) \/ GameOnDrop(c)

LEMMA StepPackets ==
  ASSUME PacketInv, RoomInv, NEW c \in Slots, GameStep(c)
  PROVE  PacketInv' /\ RoomInv'
<1>1. CASE UNCHANGED packetVars
  BY <1>1, UnchangedPackets
<1>2. CASE Puts(c)
  BY <1>2, PutMessageInv DEF Puts
<1>3. CASE WriteHead(c) \/ WriteNothing(c)
  BY <1>3, WriteInv
<1>4. CASE ReleaseClient(c) \/ ForgetPackets(c)
  BY <1>4, DropInv
<1> QED
  BY <1>1, <1>2, <1>3, <1>4, ReadPuts, OutputWrites
     DEF GameStep, GameOnAccept, GameOnDrop, GameRequestStatus, GameOutputSent

(* The packets of other clients stay theirs.                               *)
LEMMA OthersKeepPackets ==
  ASSUME PacketInv, NEW c \in Slots,
         Puts(c) \/ WriteHead(c) \/ WriteNothing(c) \/ ReleaseClient(c) \/ ForgetPackets(c)
         \/ UNCHANGED packetVars,
         NEW d \in Slots, d # c
  PROVE  /\ out_writing'[d] = out_writing[d]
         /\ out_queue_head'[d] = out_queue_head[d]
         /\ out_queue_tail'[d] = out_queue_tail[d]
<1> USE DEF PacketInv, PacketsTypeOK
<1>1. CASE Puts(c)
  BY <1>1 DEF Puts, PutMessage, AppendToTail, AppendFresh, queueVars
<1>2. CASE WriteHead(c)
  BY <1>2 DEF WriteHead
<1>3. CASE WriteNothing(c)
  BY <1>3 DEF WriteNothing
<1>4. CASE ReleaseClient(c) \/ ForgetPackets(c)
  BY <1>4 DEF ReleaseClient, ForgetPackets
<1>5. CASE UNCHANGED packetVars
  BY <1>5 DEF packetVars, queueVars
<1> QED
  BY <1>1, <1>2, <1>3, <1>4, <1>5

-----------------------------------------------------------------------------
(***************************************************************************)
(* What the callbacks do to the clients: those of the others are left      *)
(* alone, and a client is open after every callback but on_drop.           *)
(***************************************************************************)
LEMMA ReadStates ==
  ASSUME ClientTypes, NEW c \in Slots, GameOnRead(c)
  PROVE  /\ open[c] /\ UNCHANGED <<open, writing, doomed>>
         /\ \E st \in ClientState : state' = [state EXCEPT ![c] = st]
         /\ state[c] = "DISCONNECTING" => state'[c] = "DISCONNECTING"
<1> DEFINE Effect ==
      /\ open[c] /\ UNCHANGED <<open, writing, doomed>>
      /\ \/ state' = state
         \/ \E st \in ClientState : state' = [state EXCEPT ![c] = st]
      /\ state[c] = "DISCONNECTING" => state' = [state EXCEPT ![c] = "DISCONNECTING"]
<1>1. Effect
  <2> USE DEF OnRead, SetState, Disconnect, SendDisconnect, SendLogin, SendInventoryItem,
              SendReloginWindow, SendCancelWalk, ClientState
  <2>1. ASSUME NEW m \in LoginMessages, ReadLogin(c, m) PROVE Effect
    BY <2>1 DEF ReadLogin
  <2>2. ASSUME NEW m \in GameMessages, ReadMessage(c, m) PROVE Effect
    BY <2>2 DEF ReadMessage
  <2>3. CASE ReadUnexpected(c)
    BY <2>3 DEF ReadUnexpected
  <2> QED
    BY <2>1, <2>2, <2>3 DEF GameOnRead
<1>2. state = [state EXCEPT ![c] = state[c]] /\ state[c] \in ClientState
  BY DEF ClientTypes
<1> QED
  BY <1>1, <1>2 DEF ClientTypes

LEMMA OutputStates ==
  ASSUME ClientTypes, NEW c \in Slots, GameRequestOutput(c)
  PROVE  /\ open[c] /\ ~writing[c] /\ UNCHANGED <<open, doomed>>
         /\ \E some \in BOOLEAN : writing' = [writing EXCEPT ![c] = some]
         /\ \E st \in ClientState : state' = [state EXCEPT ![c] = st]
         /\ state[c] = "DISCONNECTING" => state'[c] = "DISCONNECTING" /\ ~writing'[c]
<1> USE DEF ClientTypes, RequestOutput, SetState, ClientState
<1>1. CASE GiveChallenge(c)
  BY <1>1 DEF GiveChallenge
<1>2. CASE ChallengeWritten(c)
  BY <1>2 DEF ChallengeWritten
<1>3. CASE GivePacket(c)
  BY <1>3 DEF GivePacket, WritesQueue
<1>4. CASE GiveNothing(c)
  BY <1>4 DEF GiveNothing, WritesQueue
<1>5. CASE NoticeWritten(c)
  BY <1>5 DEF NoticeWritten, Disconnect
<1>6. CASE StayQuiet(c)
  <2>1. state = [state EXCEPT ![c] = state[c]] /\ state[c] \in ClientState
    OBVIOUS
  <2> QED
    BY <1>6, <2>1 DEF StayQuiet
<1> QED
  BY <1>1, <1>2, <1>3, <1>4, <1>5, <1>6 DEF GameRequestOutput

LEMMA StepClients ==
  ASSUME GameInv, NEW c \in Slots, GameStep(c)
  PROVE  ClientTypes' /\ SlotInv'
<1> USE DEF GameInv
<1>1. ASSUME NEW d \in Slots, d # c
      PROVE  /\ out_writing'[d] = out_writing[d]
             /\ out_queue_head'[d] = out_queue_head[d]
             /\ out_queue_tail'[d] = out_queue_tail[d]
  BY <1>1, OthersKeepPackets, ReadPuts, OutputWrites
     DEF GameStep, GameOnAccept, GameOnDrop, GameRequestStatus, GameOutputSent
<1>2. CASE GameOnAccept(c)
  BY <1>1, <1>2 DEF GameOnAccept, OnAccept, SetState, ClientTypes, SlotInv, ClientState
<1>3. CASE GameOnRead(c)
  BY <1>1, <1>3, ReadStates DEF ClientTypes, SlotInv
<1>4. CASE GameRequestOutput(c)
  BY <1>1, <1>4, OutputStates DEF ClientTypes, SlotInv
<1>5. CASE GameRequestStatus(c)
  BY <1>1, <1>5 DEF GameRequestStatus, RequestStatus, ClientTypes, SlotInv
<1>6. CASE GameOutputSent(c)
  BY <1>1, <1>6 DEF GameOutputSent, OutputSent, ClientTypes, SlotInv
<1>7. CASE GameOnDrop(c)
  <2>1. /\ out_writing'[c] = NULL /\ out_queue_head'[c] = NULL /\ out_queue_tail'[c] = NULL
    BY <1>7 DEF GameOnDrop, ReleaseClient, PacketInv, PacketsTypeOK
  <2> QED
    BY <1>1, <1>7, <2>1 DEF GameOnDrop, OnDrop, SetState, ClientTypes, SlotInv, ClientState
<1> QED
  BY <1>2, <1>3, <1>4, <1>5, <1>6, <1>7 DEF GameStep

LEMMA GameStepInv == GameInv /\ [GameNext]_gameVars => GameInv'
<1> SUFFICES ASSUME GameInv, [GameNext]_gameVars PROVE GameInv'
  OBVIOUS
<1>1. CASE UNCHANGED gameVars
  <2>1. UNCHANGED <<open, writing, doomed, state>> /\ UNCHANGED packetVars
    BY <1>1 DEF gameVars, cbVars
  <2>2. PacketInv' /\ RoomInv'
    BY <2>1, UnchangedPackets DEF GameInv
  <2> QED
    BY <2>1, <2>2 DEF GameInv, ClientTypes, SlotInv, packetVars, queueVars
<1>2. CASE GameNext
  BY <1>2, StepPackets, StepClients DEF GameNext, GameStep, GameInv
<1> QED
  BY <1>1, <1>2

(* The inductive invariant holds of every game: clients, empty slots,      *)
(* lists of packets, their owners and the room in them.                    *)
THEOREM GameInvariant == GameSpec => []GameInv
  BY GameInitInv, GameStepInv, PTL DEF GameSpec

(* The clients, their packets and the callbacks keep their types.          *)
THEOREM GameTypeCorrect == GameSpec => []GameTypeOK
<1>1. GameInv => GameTypeOK
  BY DEF GameInv, GameTypeOK, ClientTypes, PacketInv
<1> QED
  BY <1>1, GameInvariant, PTL

(* A packet has one owner, however the clients' queues, what is written    *)
(* and the list of recycled packets exchange them.                         *)
THEOREM PacketsOwned == GameSpec => []PacketOwnership
<1>1. GameInv => PacketOwnership
  BY PacketInvImplies DEF GameInv
<1> QED
  BY <1>1, GameInvariant, PTL

(* Every queue is a linked list that ends at its tail.                     *)
THEOREM QueuesShaped == GameSpec => []QueueShape
<1>1. GameInv => QueueShape
  BY PacketInvImplies DEF GameInv
<1> QED
  BY <1>1, GameInvariant, PTL

(* packet_wrap never fails for want of room.                               *)
THEOREM WrapFitsAlways == GameSpec => []WrapAlwaysFits
<1>1. GameInv => WrapAlwaysFits
  BY RoomInvImplies DEF GameInv
<1> QED
  BY <1>1, GameInvariant, PTL

-----------------------------------------------------------------------------
(***************************************************************************)
(* The packet being written.                                               *)
(***************************************************************************)

(* It is in no list.                                                       *)
LEMMA WrittenApart ==
  ASSUME PacketInv', NEW c \in Slots, out_writing'[c] # NULL
  PROVE  out_writing'[c] \notin Recycled' \union UNION {Queued(d)' : d \in Slots}
<1>1. Owners(Recycled, Elements(QueueChains), out_writing, allocated)'
  BY DEF PacketInv
<1>2. out_writing'[c] \notin Recycled'
  BY <1>1 DEF Owners
<1>3. ASSUME NEW d \in Slots PROVE out_writing'[c] \notin Queued(d)'
  BY <1>1 DEF Owners, Elements, QueueChains, Queued
<1> QED
  BY <1>2, <1>3

(* Messages for any client leave its bytes alone.                          *)
LEMMA PutsKeepWritten ==
  ASSUME PacketInv, NEW c \in Slots, Puts(c), NEW d \in Slots, out_writing[d] # NULL
  PROVE  out_writing' = out_writing /\ bufpos'[out_writing[d]] = bufpos[out_writing[d]]
<1> DEFINE p == out_writing[d]
<1>1. PICK r, q : /\ Layout(next, output_head, out_queue_head, out_queue_tail, r, q)
                  /\ Owners(ToSet(r), Elements(q), out_writing, allocated)
  BY PacketInvNow
<1>2. PacketsTypeOK /\ IsList(next, r, output_head)
  BY <1>1 DEF PacketInv, Layout
<1>3. p \in Packets /\ p \in 1 .. allocated /\ p \notin ToSet(r)
      /\ \A e \in Slots : p \notin ToSet(q[e])
  BY <1>1, <1>2 DEF PacketsTypeOK, PacketOrNull, Owners, Elements
<1>4. PICK size, written : PutMessage(c, size, written)
  BY DEF Puts
<1>5. CASE AppendToTail(c, size, written)
  <2> DEFINE t == out_queue_tail[c]
  <2>1. /\ t # NULL /\ out_writing' = out_writing
        /\ bufpos' = [bufpos EXCEPT ![t] = bufpos[t] + written]
    BY <1>5 DEF AppendToTail, FitsTail, queueVars
  <2>2. t \in ToSet(q[c])
    <3>1. /\ IsList(next, q[c], out_queue_head[c])
          /\ q[c] = <<>> => t = NULL
          /\ q[c] # <<>> => t = q[c][Len(q[c])]
      BY <1>1 DEF Layout
    <3> HIDE DEF t
    <3> QED
      BY <2>1, <3>1, TailChain
  <2> QED
    BY <1>2, <1>3, <2>1, <2>2 DEF PacketsTypeOK
<1>6. CASE AppendFresh(c, size, written)
  <2>1. PICK f \in Packets : /\ FreshPacket(f) /\ out_writing' = out_writing
                             /\ bufpos' = [bufpos EXCEPT ![f] = HeaderSize + written]
    BY <1>6 DEF AppendFresh
  <2>2. f \in ToSet(r) \/ f = allocated + 1
    BY <1>1, <1>2, <2>1, FreshIsFree
  <2>3. f # p
    BY <1>2, <1>3, <2>2, OutPacketsAssumption DEF PacketsTypeOK
  <2> QED
    BY <1>2, <1>3, <2>1, <2>3 DEF PacketsTypeOK
<1> QED
  BY <1>4, <1>5, <1>6 DEF PutMessage

(* And so do the packets that other clients get written.                   *)
LEMMA OutputKeepsWritten ==
  ASSUME PacketInv, NEW c \in Slots, WriteHead(c) \/ WriteNothing(c),
         NEW d \in Slots, d # c, out_writing[d] # NULL
  PROVE  out_writing'[d] = out_writing[d] /\ bufpos'[out_writing[d]] = bufpos[out_writing[d]]
<1>1. PICK r, q : /\ Layout(next, output_head, out_queue_head, out_queue_tail, r, q)
                  /\ Owners(ToSet(r), Elements(q), out_writing, allocated)
  BY PacketInvNow
<1>2. PacketsTypeOK
  BY DEF PacketInv
<1>3. out_writing'[d] = out_writing[d]
  BY OthersKeepPackets
<1>4. CASE WriteNothing(c)
  BY <1>3, <1>4 DEF WriteNothing
<1>5. CASE WriteHead(c)
  <2> DEFINE p == out_queue_head[c]
  <2>1. p # NULL /\ bufpos' = [bufpos EXCEPT ![p] = bufpos[p] + Padding(p)]
    BY <1>5 DEF WriteHead
  <2>2. IsList(next, q[c], p)
    BY <1>1 DEF Layout
  <2>3. p \in ToSet(q[c])
    BY <2>1, <2>2, TailIsList
  <2>4. p # out_writing[d]
    BY <1>1, <2>3 DEF Owners, Elements
  <2> QED
    BY <1>2, <1>3, <2>1, <2>4 DEF PacketsTypeOK, PacketOrNull
<1> QED
  BY <1>4, <1>5

StableStep ==
  \A c \in Slots :
    LET p == out_writing[c]
    IN  writing[c] /\ writing'[c] /\ p # NULL =>
          /\ out_writing'[c] = p
          /\ bufpos'[p] = bufpos[p]
          /\ p \notin Recycled' \union UNION {Queued(d)' : d \in Slots}

LEMMA StepKeepsWritten ==
  ASSUME GameInv, GameInv', NEW c \in Slots, GameStep(c)
  PROVE  StableStep
<1> SUFFICES ASSUME NEW d \in Slots, writing[d], writing'[d], out_writing[d] # NULL
             PROVE  /\ out_writing'[d] = out_writing[d]
                    /\ bufpos'[out_writing[d]] = bufpos[out_writing[d]]
  BY WrittenApart DEF StableStep, GameInv
<1>1. open[d]
  BY DEF GameInv, SlotInv
<1>2. CASE UNCHANGED packetVars
  BY <1>2 DEF packetVars, queueVars
<1>3. CASE Puts(c)
  BY <1>3, PutsKeepWritten DEF GameInv
<1>4. CASE GameRequestOutput(c)
  <2>1. d # c
    BY <1>4, OutputStates DEF GameInv
  <2> QED
    BY <1>2, <1>4, <2>1, OutputWrites, OutputKeepsWritten DEF GameInv
<1>5. CASE GameOnAccept(c)
  <2>1. d # c /\ ForgetPackets(c)
    BY <1>1, <1>5 DEF GameOnAccept, OnAccept
  <2> QED
    BY <2>1, OthersKeepPackets DEF GameInv, ForgetPackets
<1>6. CASE GameOnDrop(c)
  <2>1. d # c /\ ReleaseClient(c)
    BY <1>6 DEF GameOnDrop, OnDrop, GameInv, ClientTypes
  <2> QED
    BY <2>1, OthersKeepPackets DEF GameInv, ReleaseClient
<1> QED
  BY <1>2, <1>3, <1>4, <1>5, <1>6, ReadPuts
     DEF GameStep, GameRequestStatus, GameOutputSent

LEMMA EveryStepKeepsWritten ==
  GameInv /\ GameInv' /\ [GameNext]_gameVars => [StableStep]_gameVars
  BY StepKeepsWritten DEF GameNext, GameStep

(* While the server writes a packet nobody changes, recycles or queues it. *)
THEOREM WrittenIsStable == GameSpec => WriteBufferStable
  BY GameInvariant, EveryStepKeepsWritten, PTL DEF GameSpec, WriteBufferStable, StableStep

-----------------------------------------------------------------------------
FinalStep ==
  \A c \in Slots :
    /\ state[c] = "DISCONNECTING" /\ open'[c] =>
         state'[c] = "DISCONNECTING" /\ (writing'[c] => writing[c])
    /\ ~open[c] /\ open'[c] =>
         out_writing[c] = NULL /\ out_queue_head[c] = NULL /\ out_queue_tail[c] = NULL

LEMMA StepIsFinal ==
  ASSUME GameInv, NEW c \in Slots, GameStep(c)
  PROVE  FinalStep
<1> SUFFICES ASSUME NEW d \in Slots, state[d] = "DISCONNECTING", open'[d]
             PROVE  state'[d] = "DISCONNECTING" /\ (writing'[d] => writing[d])
  BY DEF FinalStep, GameInv, SlotInv
<1>1. ClientTypes /\ SlotInv
  BY DEF GameInv
<1>2. CASE GameOnAccept(c)
  BY <1>1, <1>2 DEF GameOnAccept, OnAccept, SetState, ClientTypes, SlotInv
<1>3. CASE GameOnRead(c)
  BY <1>1, <1>3, ReadStates DEF ClientTypes
<1>4. CASE GameRequestOutput(c)
  BY <1>1, <1>4, OutputStates DEF ClientTypes
<1>5. CASE GameRequestStatus(c) \/ GameOutputSent(c)
  BY <1>1, <1>5 DEF GameRequestStatus, RequestStatus, GameOutputSent, OutputSent, ClientTypes
<1>6. CASE GameOnDrop(c)
  BY <1>1, <1>6 DEF GameOnDrop, OnDrop, SetState, ClientTypes
<1> QED
  BY <1>2, <1>3, <1>4, <1>5, <1>6 DEF GameStep

LEMMA EveryStepIsFinal == GameInv /\ [GameNext]_gameVars => [FinalStep]_gameVars
  BY StepIsFinal DEF GameNext, GameStep

(* A client that was given up stays so and gets nothing new, and a dropped *)
(* one leaves no packet behind in its slot.                                *)
THEOREM GivenUpStaysSo == GameSpec => GivenUpIsFinal
  BY GameInvariant, EveryStepIsFinal, PTL DEF GameSpec, GivenUpIsFinal, FinalStep

-----------------------------------------------------------------------------
(***************************************************************************)
(* The packets that get lost.                                              *)
(***************************************************************************)
LossStep ==
  Lost' = Lost \union
    UNION {Queued(c) \ {out_queue_tail[c]} : c \in {d \in Slots : open[d] /\ ~open'[d]}}

LEMMA StepLosses ==
  ASSUME GameInv, NEW c \in Slots, GameStep(c)
  PROVE  LossStep
<1>1. ClientTypes /\ SlotInv /\ PacketInv /\ RoomInv
  BY DEF GameInv
<1>2. CASE GameOnDrop(c)
  <2>1. {d \in Slots : open[d] /\ ~open'[d]} = {c}
    BY <1>1, <1>2 DEF GameOnDrop, OnDrop, ClientTypes
  <2>2. Lost' = Lost \union (Queued(c) \ {out_queue_tail[c]})
    BY <1>1, <1>2, DropLosesQueue DEF GameOnDrop
  <2> QED
    BY <2>1, <2>2 DEF LossStep
<1>3. CASE ~GameOnDrop(c)
  <2>1. {d \in Slots : open[d] /\ ~open'[d]} = {}
    BY <1>1, <1>3, ReadStates, OutputStates
       DEF GameStep, GameOnAccept, OnAccept, GameRequestStatus, RequestStatus,
           GameOutputSent, OutputSent, ClientTypes
  <2>2. UNCHANGED packetVars => Lost' = Lost
    BY DEF packetVars, queueVars, Lost, Recycled, Queued, InFlight, Written, Chain
  <2>3. Puts(c) => Lost' = Lost
    BY <1>1, PutLosesNone DEF Puts
  <2>4. WriteHead(c) \/ WriteNothing(c) => Lost' = Lost
    BY <1>1, WriteLosesNone
  <2>5. GameOnAccept(c) => Lost' = Lost
    BY <1>1, ForgetLosesNone DEF GameOnAccept, OnAccept, SlotInv
  <2>6. Lost' = Lost
    BY <1>3, <2>2, <2>3, <2>4, <2>5, ReadPuts, OutputWrites
       DEF GameStep, GameRequestStatus, GameOutputSent
  <2> QED
    BY <2>1, <2>6 DEF LossStep
<1> QED
  BY <1>2, <1>3

LEMMA EveryStepLosses == GameInv /\ [GameNext]_gameVars => [LossStep]_gameVars
  BY StepLosses DEF GameNext, GameStep

(* Packets are lost when a client is dropped with more than one of them    *)
(* queued, and at no other time; none that is lost comes back.             *)
THEOREM OnlyDropsLose == GameSpec => LossesAreDrops
  BY GameInvariant, EveryStepLosses, PTL DEF GameSpec, LossesAreDrops, LossStep

-----------------------------------------------------------------------------
(* THE STREAM *)

-----------------------------------------------------------------------------
(***************************************************************************)
(* FlattenSeq, whose recursive function is shown to exist and to depend on *)
(* nothing but the sequences it joins.                                     *)
(***************************************************************************)
IsFlat(ss, f, n) ==
  f = [i \in 1 .. n |-> IF i = 1 THEN ss[i] ELSE f[i - 1] \o ss[i]]

LEMMA FlatExists ==
  ASSUME NEW ss, NEW m \in Nat
  PROVE  \E f : IsFlat(ss, f, m)
<1> DEFINE Bad == {n \in Nat : ~ \E f : IsFlat(ss, f, n)}
<1> SUFFICES ASSUME Bad # {} PROVE FALSE
  OBVIOUS
<1>1. PICK n \in Bad : \A k \in Bad : n <= k
  BY Least
<1>2. n # 0
  <2> DEFINE f == [i \in 1 .. 0 |-> <<>>]
  <2>1. IsFlat(ss, f, 0)
    BY DEF IsFlat
  <2> QED
    BY <2>1, <1>1
<1>3. n - 1 \in Nat /\ n - 1 \notin Bad
  BY <1>1, <1>2
<1>4. PICK f : IsFlat(ss, f, n - 1)
  BY <1>3
<1> DEFINE g == [i \in 1 .. n |->
                   IF i = n THEN IF n = 1 THEN ss[n] ELSE f[n - 1] \o ss[n] ELSE f[i]]
<1>5. \A i \in 1 .. n - 1 : f[i] = IF i = 1 THEN ss[i] ELSE f[i - 1] \o ss[i]
  BY <1>4 DEF IsFlat
<1>6. \A i \in 1 .. n : g[i] = IF i = 1 THEN ss[i] ELSE g[i - 1] \o ss[i]
  <2> SUFFICES ASSUME NEW i \in 1 .. n
               PROVE  g[i] = IF i = 1 THEN ss[i] ELSE g[i - 1] \o ss[i]
    OBVIOUS
  <2>1. i # 1 => i - 1 \in 1 .. n - 1 /\ g[i - 1] = f[i - 1]
    BY <1>1
  <2>2. CASE i = n
    BY <1>1, <1>2, <2>1, <2>2
  <2>3. CASE i # n
    <3>1. i \in 1 .. n - 1 /\ g[i] = f[i]
      BY <1>1, <2>3
    <3> HIDE DEF g
    <3> QED
      BY <1>5, <2>1, <3>1
  <2> QED
    BY <2>2, <2>3
<1>7. g = [i \in 1 .. n |-> g[i]]
  OBVIOUS
<1> HIDE DEF g
<1>8. IsFlat(ss, g, n)
  BY <1>6, <1>7 DEF IsFlat
<1> QED
  BY <1>1, <1>8

LEMMA FlatSame ==
  ASSUME NEW ss, NEW tt, NEW f, NEW g, NEW n \in Nat, NEW m \in Nat,
         IsFlat(ss, f, n), IsFlat(tt, g, m), NEW k \in Nat, k <= n, k <= m,
         \A i \in 1 .. k : ss[i] = tt[i]
  PROVE  \A i \in 1 .. k : f[i] = g[i]
<1> DEFINE Bad == {i \in 1 .. k : f[i] # g[i]}
<1> SUFFICES ASSUME Bad # {} PROVE FALSE
  OBVIOUS
<1>1. Bad \in SUBSET Nat
  OBVIOUS
<1> HIDE DEF Bad
<1>2. PICK i \in Bad : \A j \in Bad : i <= j
  BY <1>1, Least
<1> USE DEF Bad
<1>3. i \in 1 .. k /\ i \in 1 .. n /\ i \in 1 .. m /\ f[i] # g[i] /\ ss[i] = tt[i]
  BY <1>2
<1>4. /\ f[i] = IF i = 1 THEN ss[i] ELSE f[i - 1] \o ss[i]
      /\ g[i] = IF i = 1 THEN tt[i] ELSE g[i - 1] \o tt[i]
  BY <1>3 DEF IsFlat
<1>5. i # 1 => f[i - 1] = g[i - 1]
  <2> SUFFICES ASSUME i # 1 PROVE f[i - 1] = g[i - 1]
    OBVIOUS
  <2>1. i - 1 \in 1 .. k /\ ~(i <= i - 1)
    BY <1>3
  <2> QED
    BY <1>2, <2>1
<1> QED
  BY <1>3, <1>4, <1>5

LEMMA FlattenByTable ==
  ASSUME NEW ss, Len(ss) \in Nat \ {0}
  PROVE  \E f : IsFlat(ss, f, Len(ss)) /\ FlattenSeq(ss) = f[Len(ss)]
<1> DEFINE flat == CHOOSE f : IsFlat(ss, f, Len(ss))
<1>1. IsFlat(ss, flat, Len(ss))
  BY FlatExists
<1>2. FlattenSeq(ss) = flat[Len(ss)]
  BY DEF FlattenSeq, IsFlat
<1> QED
  BY <1>1, <1>2

LEMMA FlattenNone ==
  ASSUME NEW ss, ss = <<>> PROVE FlattenSeq(ss) = <<>>
  BY DEF FlattenSeq

LEMMA FlattenLonger ==
  ASSUME NEW ss, NEW tt, NEW n \in Nat \ {0}, Len(ss) = n, Len(tt) = n + 1,
         \A i \in 1 .. n : ss[i] = tt[i]
  PROVE  FlattenSeq(tt) = FlattenSeq(ss) \o tt[n + 1]
<1>1. PICK f : IsFlat(ss, f, n) /\ FlattenSeq(ss) = f[n]
  BY FlattenByTable
<1>2. n + 1 \in Nat \ {0}
  OBVIOUS
<1>3. PICK g : IsFlat(tt, g, n + 1) /\ FlattenSeq(tt) = g[n + 1]
  BY <1>2, FlattenByTable
<1>4. n <= n /\ n <= n + 1 /\ n \in Nat /\ n + 1 \in Nat /\ n + 1 \in 1 .. n + 1
  OBVIOUS
<1>5. \A i \in 1 .. n : f[i] = g[i]
  BY <1>1, <1>3, <1>4, FlatSame
<1>6. g[n + 1] = IF n + 1 = 1 THEN tt[n + 1] ELSE g[(n + 1) - 1] \o tt[n + 1]
  BY <1>3, <1>4 DEF IsFlat
<1>7. n \in 1 .. n /\ (n + 1) - 1 = n /\ n + 1 # 1
  OBVIOUS
<1> QED
  BY <1>1, <1>3, <1>5, <1>6, <1>7

LEMMA FlattenOne ==
  ASSUME NEW ss, Len(ss) = 1 PROVE FlattenSeq(ss) = ss[1]
<1>1. PICK f : IsFlat(ss, f, 1) /\ FlattenSeq(ss) = f[1]
  <2>1. Len(ss) \in Nat \ {0}
    OBVIOUS
  <2> QED
    BY <2>1, FlattenByTable
<1> QED
  BY <1>1 DEF IsFlat

LEMMA FlattenAppend ==
  ASSUME NEW S, NEW ss \in Seq(Seq(S)), NEW x \in Seq(S)
  PROVE  FlattenSeq(Append(ss, x)) = FlattenSeq(ss) \o x
<1> DEFINE tt == Append(ss, x)
           n == Len(ss)
<1>1. /\ Len(tt) = n + 1 /\ n \in Nat
      /\ \A i \in 1 .. n : ss[i] = tt[i]
      /\ tt[n + 1] = x
  BY AppendProperties
<1>2. CASE n = 0
  <2>1. ss = <<>> /\ FlattenSeq(ss) = <<>> /\ FlattenSeq(tt) = x
    BY <1>1, <1>2, FlattenNone, FlattenOne
  <2> QED
    BY <2>1, ConcatEmptySeq
<1>3. CASE n # 0
  <2>1. n \in Nat \ {0} /\ Len(ss) = n /\ Len(tt) = n + 1
    BY <1>1, <1>3
  <2> HIDE DEF tt, n
  <2>2. FlattenSeq(tt) = FlattenSeq(ss) \o tt[n + 1]
    BY <1>1, <2>1, FlattenLonger
  <2> QED
    BY <1>1, <2>2 DEF tt
<1> QED
  BY <1>2, <1>3

(* A sequence that is not empty is its front and its last element.         *)
LEMMA FrontLast ==
  ASSUME NEW S, NEW ss \in Seq(S), ss # <<>>
  PROVE  \E front \in Seq(S), x \in S :
           /\ ss = Append(front, x) /\ Len(front) = Len(ss) - 1
           /\ x = ss[Len(ss)]
<1>1. PICK front \in Seq(S), x \in S : ss = Append(front, x)
  BY SequenceEmptyOrAppend
<1>2. Len(front) \in Nat /\ Len(ss) = Len(front) + 1 /\ ss[Len(front) + 1] = x
  BY <1>1, AppendProperties
<1> QED
  BY <1>1, <1>2

LEMMA FlattenType ==
  ASSUME NEW S
  PROVE  \A ss \in Seq(Seq(S)) : FlattenSeq(ss) \in Seq(S)
<1> DEFINE Bad == {n \in Nat : \E ss \in Seq(Seq(S)) : Len(ss) = n /\ FlattenSeq(ss) \notin Seq(S)}
<1>1. Bad = {}
  <2> SUFFICES ASSUME Bad # {} PROVE FALSE
    OBVIOUS
  <2>1. PICK n \in Bad : \A k \in Bad : n <= k
    BY Least
  <2>2. PICK ss \in Seq(Seq(S)) : Len(ss) = n /\ FlattenSeq(ss) \notin Seq(S)
    BY <2>1
  <2>3. ss # <<>>
    BY <2>2, FlattenNone
  <2>4. PICK front \in Seq(Seq(S)), x \in Seq(S) :
          ss = Append(front, x) /\ Len(front) = Len(ss) - 1
    BY ZenonT(40), <2>3, FrontLast
  <2>5. Len(front) \in Nat /\ ~(n <= Len(front))
    BY <2>2, <2>4
  <2>6. FlattenSeq(front) \in Seq(S)
    BY <2>1, <2>5
  <2>7. FlattenSeq(ss) = FlattenSeq(front) \o x
    BY <2>4, FlattenAppend
  <2> QED
    BY <2>2, <2>6, <2>7
<1> QED
  BY <1>1

LEMMA JoinAssociative ==
  ASSUME NEW S, NEW s \in Seq(S), NEW t \in Seq(S), NEW u \in Seq(S)
  PROVE  (s \o t) \o u = s \o (t \o u)
  BY SMTT(40), ConcatAssociative

LEMMA JoinAssociativeNat ==
  \A s, t, u \in Seq(Nat) : (s \o t) \o u = s \o (t \o u)
<1> DEFINE N == Nat
<1> HIDE DEF N
<1>1. ASSUME NEW s \in Seq(N), NEW t \in Seq(N), NEW u \in Seq(N)
      PROVE  (s \o t) \o u = s \o (t \o u)
  BY SMTT(40), JoinAssociative
<1> QED
  BY <1>1 DEF N

(* Sequences with the same elements are the same.                          *)
LEMMA SameElements ==
  ASSUME NEW S, NEW s \in Seq(S), NEW t \in Seq(S), NEW n, Len(s) = n, Len(t) = n,
         \A i \in 1 .. n : s[i] = t[i]
  PROVE  s = t
  OBVIOUS

LEMMA FlattenFirst ==
  ASSUME NEW S
  PROVE  \A ss \in Seq(Seq(S)) :
           ss # <<>> => FlattenSeq(ss) = ss[1] \o FlattenSeq(Tail(ss))
<1> DEFINE Good(ss) == FlattenSeq(ss) = ss[1] \o FlattenSeq(Tail(ss))
           Bad == {n \in Nat : \E ss \in Seq(Seq(S)) : Len(ss) = n /\ ss # <<>> /\ ~Good(ss)}
<1>1. Bad = {}
  <2> SUFFICES ASSUME Bad # {} PROVE FALSE
    OBVIOUS
  <2>1. PICK n \in Bad : \A k \in Bad : n <= k
    BY Least
  <2>2. PICK ss \in Seq(Seq(S)) : Len(ss) = n /\ ss # <<>> /\ ~Good(ss)
    BY <2>1
  <2>3. PICK front \in Seq(Seq(S)), x \in Seq(S) :
          ss = Append(front, x) /\ Len(front) = Len(ss) - 1
    BY ZenonT(40), <2>2, FrontLast
  <2>4. FlattenSeq(ss) = FlattenSeq(front) \o x
    BY <2>3, FlattenAppend
  <2>5. CASE front = <<>>
    <3>1. ss = <<x>> /\ ss[1] = x /\ Tail(ss) = <<>>
      BY <2>3, <2>5
    <3>2. FlattenSeq(front) = <<>> /\ FlattenSeq(Tail(ss)) = <<>>
      BY <2>5, <3>1, FlattenNone
    <3>3. <<>> \o x = x /\ x \o <<>> = x
      BY ConcatEmptySeq
    <3> QED
      BY <2>2, <2>4, <3>1, <3>2, <3>3
  <2>6. CASE front # <<>>
    <3>1. Len(front) \in Nat \ {0} /\ ~(n <= Len(front))
      <4> DEFINE m == Len(front)
      <4>1. m \in Nat /\ m # 0
        BY <2>6
      <4>2. n \in Nat /\ m = n - 1
        BY <2>1, <2>2, <2>3
      <4> HIDE DEF m
      <4>3. m \in Nat \ {0} /\ ~(n <= m)
        BY <4>1, <4>2
      <4> QED
        BY <4>3 DEF m
    <3>2. Good(front)
      BY <2>1, <2>6, <3>1
    <3>3. ss[1] = front[1] /\ front[1] \in Seq(S)
      <4>1. 1 \in 1 .. Len(front)
        BY <3>1
      <4> QED
        BY <2>3, <4>1, AppendProperties, ElementOfSeq
    <3>4. Tail(ss) = Append(Tail(front), x) /\ Tail(front) \in Seq(Seq(S))
      BY <2>3, <2>6, HeadTailAppend, HeadTailProperties
    <3>5. FlattenSeq(Tail(ss)) = FlattenSeq(Tail(front)) \o x
      BY <3>4, FlattenAppend
    <3>6. FlattenSeq(Tail(front)) \in Seq(S)
      BY <3>4, FlattenType
    <3>7. (front[1] \o FlattenSeq(Tail(front))) \o x = front[1] \o (FlattenSeq(Tail(front)) \o x)
      <4> DEFINE a == front[1]
                 b == FlattenSeq(Tail(front))
      <4>1. a \in Seq(S) /\ b \in Seq(S)
        BY <3>3, <3>6
      <4>3. x \in Seq(S)
        OBVIOUS
      <4> HIDE DEF a, b, Bad
      <4>2. (a \o b) \o x = a \o (b \o x)
        BY SMTT(40), <4>1, <4>3, JoinAssociative
      <4> QED
        BY <4>2 DEF a, b
    <3> QED
      BY <2>2, <2>4, <3>2, <3>3, <3>5, <3>7
  <2> QED
    BY <2>5, <2>6
<1>2. ASSUME NEW ss \in Seq(Seq(S)), ss # <<>> PROVE Good(ss)
  <2>1. Len(ss) \in Nat /\ Len(ss) \notin Bad
    BY SMTT(40), <1>1
  <2> QED
    BY <1>2, <2>1
<1> QED
  BY <1>2

-----------------------------------------------------------------------------
(***************************************************************************)
(* The contents k of the packets of a list s, one after the other.         *)
(***************************************************************************)
Pieces(s, k) == [i \in DOMAIN s |-> k[s[i]]]
Joined(s, k) == FlattenSeq(Pieces(s, k))

Contents == [Packets -> Seq(Nat)]

LEMMA PiecesType ==
  ASSUME NEW s \in Seq(Packets), NEW k \in Contents
  PROVE  /\ Pieces(s, k) \in Seq(Seq(Nat)) /\ Len(Pieces(s, k)) = Len(s)
         /\ \A i \in 1 .. Len(s) : Pieces(s, k)[i] = k[s[i]]
<1>1. DOMAIN s = 1 .. Len(s) /\ Len(s) \in Nat /\ \A i \in 1 .. Len(s) : s[i] \in Packets
  OBVIOUS
<1>2. \A i \in 1 .. Len(s) : k[s[i]] \in Seq(Nat)
  BY <1>1 DEF Contents
<1>3. Pieces(s, k) = [i \in 1 .. Len(s) |-> k[s[i]]]
  BY <1>1 DEF Pieces
<1> QED
  BY <1>1, <1>2, <1>3

LEMMA JoinedType ==
  ASSUME NEW s \in Seq(Packets), NEW k \in Contents
  PROVE  Joined(s, k) \in Seq(Nat)
  BY PiecesType, FlattenType DEF Joined

LEMMA JoinedNone ==
  ASSUME NEW k \in Contents PROVE Joined(<<>>, k) = <<>>
<1>1. Pieces(<<>>, k) = <<>>
  BY DEF Pieces
<1> QED
  BY <1>1, FlattenNone DEF Joined

LEMMA JoinedAppend ==
  ASSUME NEW s \in Seq(Packets), NEW k \in Contents, NEW x \in Packets
  PROVE  Joined(Append(s, x), k) = Joined(s, k) \o k[x]
<1> DEFINE ps == Pieces(s, k)
           qs == Pieces(Append(s, x), k)
<1>1. ps \in Seq(Seq(Nat)) /\ Len(ps) = Len(s) /\ \A i \in 1 .. Len(s) : ps[i] = k[s[i]]
  BY PiecesType
<1>2. Append(s, x) \in Seq(Packets) /\ Len(Append(s, x)) = Len(s) + 1
  OBVIOUS
<1>3. /\ qs \in Seq(Seq(Nat)) /\ Len(qs) = Len(s) + 1
      /\ \A i \in 1 .. Len(s) + 1 : qs[i] = k[Append(s, x)[i]]
  BY <1>2, PiecesType
<1>4. k[x] \in Seq(Nat)
  BY DEF Contents
<1>5. qs = Append(ps, k[x])
  <2> DEFINE rs == Append(ps, k[x])
  <2>1. rs \in Seq(Seq(Nat)) /\ Len(rs) = Len(s) + 1
    BY <1>1, <1>4
  <2>2. ASSUME NEW i \in 1 .. Len(s) + 1 PROVE qs[i] = rs[i]
    <3>1. CASE i = Len(s) + 1
      <4>1. Append(s, x)[i] = x /\ rs[i] = k[x]
        BY <1>1, <1>4, <3>1, AppendProperties
      <4> QED
        BY <1>3, <4>1
    <3>2. CASE i # Len(s) + 1
      <4>1. i \in 1 .. Len(s)
        BY <3>2
      <4>2. Append(s, x)[i] = s[i] /\ rs[i] = ps[i]
        BY <1>1, <1>4, <4>1, AppendProperties
      <4> QED
        BY <1>1, <1>3, <4>1, <4>2
    <3> QED
      BY <3>1, <3>2
  <2> HIDE DEF qs, rs
  <2> QED
    BY SMTT(40), <1>3, <2>1, <2>2, SameElements DEF rs
<1> HIDE DEF ps, qs
<1>6. FlattenSeq(qs) = FlattenSeq(ps) \o k[x]
  BY <1>1, <1>4, <1>5, FlattenAppend
<1> QED
  BY <1>6 DEF Joined, ps, qs

LEMMA JoinedFirst ==
  ASSUME NEW s \in Seq(Packets), NEW k \in Contents, s # <<>>
  PROVE  Joined(s, k) = k[s[1]] \o Joined(Tail(s), k)
<1> DEFINE ps == Pieces(s, k)
           qs == Pieces(Tail(s), k)
<1>1. ps \in Seq(Seq(Nat)) /\ Len(ps) = Len(s) /\ \A i \in 1 .. Len(s) : ps[i] = k[s[i]]
  BY PiecesType
<1>2. /\ Tail(s) \in Seq(Packets) /\ Len(Tail(s)) = Len(s) - 1 /\ Len(s) \in Nat \ {0}
      /\ \A i \in 1 .. Len(s) - 1 : Tail(s)[i] = s[i + 1]
  OBVIOUS
<1>3. /\ qs \in Seq(Seq(Nat)) /\ Len(qs) = Len(s) - 1
      /\ \A i \in 1 .. Len(s) - 1 : qs[i] = k[Tail(s)[i]]
  BY ZenonT(40), <1>2, PiecesType
<1>4. qs = Tail(ps) /\ ps # <<>> /\ ps[1] = k[s[1]]
  <2> HIDE DEF ps, qs
  <2>1. ps # <<>> /\ ps[1] = k[s[1]]
    BY <1>1, <1>2
  <2>2. /\ Tail(ps) \in Seq(Seq(Nat)) /\ Len(Tail(ps)) = Len(s) - 1
        /\ \A i \in 1 .. Len(s) - 1 : Tail(ps)[i] = ps[i + 1]
    BY <1>1, <2>1
  <2>3. ASSUME NEW i \in 1 .. Len(s) - 1 PROVE qs[i] = Tail(ps)[i]
    <3>1. i + 1 \in 1 .. Len(s) /\ Tail(s)[i] = s[i + 1]
      BY <1>2
    <3> QED
      BY <1>1, <1>3, <2>2, <3>1
  <2>4. qs = Tail(ps)
    BY <1>3, <2>2, <2>3, SameElements
  <2> QED
    BY <2>1, <2>4
<1> HIDE DEF ps, qs
<1>5. FlattenSeq(ps) = ps[1] \o FlattenSeq(Tail(ps))
  BY <1>1, <1>4, FlattenFirst
<1> QED
  BY <1>4, <1>5 DEF Joined, ps, qs

LEMMA JoinedSame ==
  ASSUME NEW s \in Seq(Packets), NEW k, NEW k2, \A y \in ToSet(s) : k2[y] = k[y]
  PROVE  Joined(s, k2) = Joined(s, k)
<1>1. \A i \in DOMAIN s : k2[s[i]] = k[s[i]]
  BY InSet
<1> QED
  BY <1>1 DEF Joined, Pieces

(* Something is added to the last packet.                                  *)
Extended(k, t, x) == [k EXCEPT ![t] = k[t] \o x]

LEMMA JoinedLast ==
  ASSUME NEW nxt, NEW p, NEW s, IsList(nxt, s, p), s # <<>>,
         NEW k \in Contents, NEW x \in Seq(Nat)
  PROVE  Joined(s, Extended(k, s[Len(s)], x)) = Joined(s, k) \o x
<1> DEFINE k2 == Extended(k, s[Len(s)], x)
<1>1. s \in Seq(Packets) /\ \A i, j \in 1 .. Len(s) : s[i] = s[j] => i = j
  BY DEF IsList
<1>2. PICK front \in Seq(Packets), t \in Packets :
        s = Append(front, t) /\ Len(front) = Len(s) - 1 /\ t = s[Len(s)]
  BY <1>1, FrontLast
<1>3. /\ k2 \in Contents /\ k2[t] = k[t] \o x
      /\ \A y \in Packets : y # t => k2[y] = k[y]
  <2>1. k[t] \in Seq(Nat) /\ k[t] \o x \in Seq(Nat)
    BY <1>2 DEF Contents
  <2>2. k2 = [k EXCEPT ![t] = k[t] \o x]
    BY <1>2 DEF Extended
  <2> HIDE DEF k2
  <2> QED
    BY <1>2, <2>1, <2>2 DEF Contents
<1> HIDE DEF k2
<1>4. ASSUME NEW y \in ToSet(front) PROVE y \in Packets /\ y # t
  <2>1. PICK i \in 1 .. Len(front) : y = front[i]
    BY <1>2, InSet
  <2>2. Len(s) \in Nat /\ i \in 1 .. Len(s) /\ i # Len(s) /\ Len(s) \in 1 .. Len(s)
    BY <1>1, <1>2
  <2>3. y = s[i] /\ y \in Packets
    BY <1>2, <2>1
  <2> QED
    BY <1>1, <1>2, <2>2, <2>3
<1>5. Joined(front, k2) = Joined(front, k)
  BY <1>4, <1>3, JoinedSame
<1>6. /\ Joined(s, k2) = Joined(front, k2) \o k2[t]
      /\ Joined(s, k) = Joined(front, k) \o k[t]
  BY <1>2, <1>3, JoinedAppend
<1> DEFINE a == Joined(front, k)
           b == k[t]
<1>7. a \in Seq(Nat) /\ b \in Seq(Nat)
  BY <1>2, JoinedType DEF Contents
<1> HIDE DEF a, b
<1>8. (a \o b) \o x = a \o (b \o x)
  BY <1>7, JoinAssociativeNat
<1> QED
  BY <1>5, <1>6, <1>8, <1>3 DEF a, b, k2
-----------------------------------------------------------------------------
(***************************************************************************)
(* The invariant.                                                          *)
(***************************************************************************)
StreamTypes ==
  /\ contents \in Contents
  /\ put \in [Slots -> Nat]
  /\ handed \in [Slots -> Seq(Nat)]

CountTo(n) == [i \in 1 .. n |-> i]

(* What client d was handed and what waits for it are its messages.        *)
InOrder(d) == open[d] => handed[d] \o Joined(QueueChains[d], contents) = CountTo(put[d])

StreamInv == GameInv /\ StreamTypes /\ \A d \in Slots : InOrder(d)

LEMMA InOrderIs == (\A d \in Slots : InOrder(d)) => MessagesInOrder
<1>1. ASSUME NEW d \in Slots PROVE Waiting(d) = Joined(QueueChains[d], contents)
  BY DEF Waiting, Joined, Pieces, QueueChains
<1> QED
  BY <1>1 DEF InOrder, MessagesInOrder, CountTo

LEMMA CountOneMore ==
  ASSUME NEW n \in Nat
  PROVE  CountTo(n) \in Seq(Nat) /\ CountTo(n) \o <<n + 1>> = CountTo(n + 1)
<1>1. CountTo(n) \in Seq(Nat) /\ Len(CountTo(n)) = n /\ \A i \in 1 .. n : CountTo(n)[i] = i
  BY DEF CountTo
<1>2. CountTo(n + 1) \in Seq(Nat) /\ Len(CountTo(n + 1)) = n + 1
      /\ \A i \in 1 .. n + 1 : CountTo(n + 1)[i] = i
  BY DEF CountTo
<1> DEFINE s == CountTo(n)
           t == s \o <<n + 1>>
<1>3. t \in Seq(Nat) /\ Len(t) = n + 1
  BY <1>1
<1>4. ASSUME NEW i \in 1 .. n + 1 PROVE t[i] = i
  BY <1>1
<1> HIDE DEF t
<1>5. t = CountTo(n + 1)
  BY <1>2, <1>3, <1>4, SameElements
<1> QED
  BY <1>1, <1>5 DEF t

LEMMA QueueLists ==
  ASSUME PacketInv, NEW d \in Slots
  PROVE  /\ IsList(next, QueueChains[d], out_queue_head[d])
         /\ QueueChains[d] \in Seq(Packets)
         /\ QueueChains[d] = <<>> => out_queue_tail[d] = NULL
         /\ QueueChains[d] # <<>> => out_queue_tail[d] = QueueChains[d][Len(QueueChains[d])]
  BY DEF PacketInv, Layout, IsList

(* A packet is in one queue at most.                                       *)
LEMMA QueuesApart ==
  ASSUME PacketInv, NEW c \in Slots, NEW d \in Slots, c # d
  PROVE  ToSet(QueueChains[c]) \intersect ToSet(QueueChains[d]) = {}
  BY DEF PacketInv, Owners, Elements

(* A client is not disturbed by what leaves its queue and its packets be.  *)
LEMMA OrderKept ==
  ASSUME PacketInv, NEW d \in Slots, InOrder(d),
         open'[d] => /\ open[d] /\ put'[d] = put[d] /\ handed'[d] = handed[d]
                     /\ QueueChains'[d] = QueueChains[d],
         \A y \in ToSet(QueueChains[d]) : contents'[y] = contents[y]
  PROVE  InOrder(d)'
<1> SUFFICES ASSUME open'[d]
             PROVE  handed'[d] \o Joined(QueueChains'[d], contents') = CountTo(put'[d])
  BY DEF InOrder
<1>1. Joined(QueueChains[d], contents') = Joined(QueueChains[d], contents)
  <2> DEFINE s == QueueChains[d]
  <2>1. s \in Seq(Packets)
    BY QueueLists
  <2> HIDE DEF s
  <2> QED
    BY <2>1, JoinedSame DEF s
<1> QED
  BY <1>1 DEF InOrder

(* A message is put behind those that wait.                                *)
LEMMA OrderExtended ==
  ASSUME StreamTypes, PacketInv, NEW d \in Slots, InOrder(d), open[d],
         put'[d] = put[d] + 1, handed'[d] = handed[d],
         Joined(QueueChains'[d], contents')
           = Joined(QueueChains[d], contents) \o <<put[d] + 1>>
  PROVE  InOrder(d)'
<1> DEFINE h == handed[d]
           w == Joined(QueueChains[d], contents)
           n == put[d]
<1>1. h \in Seq(Nat) /\ w \in Seq(Nat) /\ n \in Nat /\ <<n + 1>> \in Seq(Nat)
  BY QueueLists, JoinedType DEF StreamTypes
<1>2. h \o w = CountTo(n)
  BY DEF InOrder
<1> HIDE DEF h, w, n
<1>3. (h \o w) \o <<n + 1>> = h \o (w \o <<n + 1>>)
  BY <1>1, JoinAssociativeNat
<1>4. CountTo(n) \o <<n + 1>> = CountTo(n + 1)
  BY <1>1, CountOneMore
<1> QED
  BY <1>2, <1>3, <1>4 DEF InOrder, h, w, n

(* The first packet that waits is handed over.                             *)
LEMMA OrderHanded ==
  ASSUME StreamTypes, PacketInv, NEW d \in Slots, InOrder(d), open[d],
         QueueChains[d] # <<>>, QueueChains'[d] = Tail(QueueChains[d]),
         put'[d] = put[d], contents' = contents,
         handed'[d] = handed[d] \o contents[out_queue_head[d]]
  PROVE  InOrder(d)'
<1> DEFINE h == handed[d]
           s == QueueChains[d]
           f == contents[out_queue_head[d]]
           w == Joined(Tail(s), contents)
<1>1. s \in Seq(Packets) /\ s # <<>> /\ s[1] = out_queue_head[d] /\ s[1] \in Packets
      /\ Tail(s) \in Seq(Packets)
  <2>1. s \in Seq(Packets) /\ s # <<>> /\ s[1] = out_queue_head[d]
    BY QueueLists DEF IsList
  <2> QED
    BY <2>1
<1>2. h \in Seq(Nat) /\ f \in Seq(Nat) /\ contents \in Contents
  BY <1>1 DEF StreamTypes, Contents
<1>3. w \in Seq(Nat)
  BY <1>1, <1>2, JoinedType
<1>4. Joined(s, contents) = f \o w
  BY <1>1, <1>2, JoinedFirst
<1>5. (h \o f) \o w = h \o (f \o w)
  <2> HIDE DEF h, f, w
  <2> QED
    BY <1>2, <1>3, JoinAssociativeNat
<1> QED
  BY <1>4, <1>5 DEF InOrder
-----------------------------------------------------------------------------
(***************************************************************************)
(* The steps.                                                              *)
(***************************************************************************)

(* A message changes the tail or what is in it, and nothing else does when *)
(* a message is read: so StreamRead sees every message.                    *)
LEMMA PutsShow ==
  ASSUME GameInv, NEW c \in Slots, Puts(c)
  PROVE  ~(out_queue_tail' = out_queue_tail /\ bufpos' = bufpos)
<1> SUFFICES ASSUME out_queue_tail' = out_queue_tail, bufpos' = bufpos PROVE FALSE
  OBVIOUS
<1>1. PacketsTypeOK /\ PacketInv /\ bufpos' \in [Packets -> Nat]
  BY DEF GameInv, PacketInv, PacketsTypeOK
<1>2. PICK size, written : Fits(size, written) /\ PutMessage(c, size, written)
  BY DEF Puts
<1>3. CASE AppendToTail(c, size, written)
  <2> DEFINE t == out_queue_tail[c]
  <2>1. t \in Packets /\ bufpos'[t] = bufpos[t] + written
    BY <1>1, <1>3 DEF AppendToTail, FitsTail, PacketsTypeOK, PacketOrNull
  <2>2. bufpos[t] \in Nat /\ written \in Nat \ {0}
    BY <1>1, <1>2, <2>1 DEF PacketsTypeOK, Fits
  <2> QED
    BY <2>1, <2>2
<1>4. CASE AppendFresh(c, size, written)
  <2>1. AppendsFresh(c)
    BY <1>1, <1>4, AppendFreshInv
  <2> QED
    BY <1>1, <2>1 DEF AppendsFresh, PacketsTypeOK
<1> QED
  BY <1>2, <1>3, <1>4 DEF PutMessage

(* The queue and the last packet after a message.                          *)
LEMMA PutsChains ==
  ASSUME GameInv, NEW c \in Slots, Puts(c)
  PROVE  \/ /\ out_queue_tail' = out_queue_tail /\ QueueChains' = QueueChains
            /\ QueueChains[c] # <<>>
         \/ AppendsFresh(c)
<1>1. PICK size, written : Fits(size, written) /\ PutMessage(c, size, written)
  BY DEF Puts
<1>2. PacketInv /\ RoomInv'
  BY <1>1, PutMessageInv DEF GameInv
<1>3. bufpos' \in [Packets -> Nat]
  <2>1. 0 .. BufSize - 2 \subseteq Nat
    BY OutPacketsAssumption
  <2> QED
    BY <1>2, <2>1 DEF RoomInv
<1>4. CASE AppendToTail(c, size, written)
  <2>1. out_queue_tail' = out_queue_tail /\ out_queue_tail[c] # NULL
    BY <1>4 DEF AppendToTail, FitsTail, queueVars
  <2> QED
    BY <1>2, <1>3, <1>4, <2>1, AppendToTailInv, QueueLists
<1>5. CASE AppendFresh(c, size, written)
  BY <1>2, <1>3, <1>5, AppendFreshInv
<1> QED
  BY <1>1, <1>4, <1>5 DEF PutMessage

LEMMA ReadOrder ==
  ASSUME StreamInv, NEW c \in Slots, StreamRead(c)
  PROVE  StreamTypes' /\ \A d \in Slots : InOrder(d)'
<1>1. /\ GameInv /\ PacketInv /\ ClientTypes /\ StreamTypes /\ \A d \in Slots : InOrder(d)
      /\ GameOnRead(c)
  BY DEF StreamInv, GameInv, StreamRead
<1>2. open' = open /\ open[c]
  BY <1>1, ReadStates
<1>3. CASE out_queue_tail' = out_queue_tail /\ bufpos' = bufpos
  <2>1. UNCHANGED packetVars
    BY <1>1, <1>3, ReadPuts, PutsShow
  <2>2. QueueChains' = QueueChains
    BY <2>1 DEF packetVars, queueVars, QueueChains, Chain
  <2>3. UNCHANGED streamVars
    BY <1>3 DEF StreamRead
  <2> QED
    BY <1>1, <1>2, <2>2, <2>3, OrderKept DEF streamVars, StreamTypes
<1>4. CASE ~(out_queue_tail' = out_queue_tail /\ bufpos' = bufpos)
  <2> DEFINE p == out_queue_tail'[c]
             n == put[c] + 1
  <2>1. Puts(c)
    BY <1>1, <1>4, ReadPuts DEF packetVars, queueVars
  <2>2. /\ put' = [put EXCEPT ![c] = n] /\ handed' = handed
        /\ contents' = [contents EXCEPT ![p] = IF p = out_queue_tail[c]
                                                 THEN Append(contents[p], n) ELSE <<n>>]
    BY <1>4 DEF StreamRead
  <2>3. n \in Nat /\ put[c] \in Nat
    BY <1>1 DEF StreamTypes
  <2>4. ASSUME NEW d \in Slots PROVE QueueChains[d] \in Seq(Packets)
    BY <1>1, QueueLists
  <2>5. CASE /\ out_queue_tail' = out_queue_tail /\ QueueChains' = QueueChains
             /\ QueueChains[c] # <<>>
    <3>1. p = out_queue_tail[c] /\ p = QueueChains[c][Len(QueueChains[c])] /\ p \in Packets
      <4>1. p = out_queue_tail[c] /\ p = QueueChains[c][Len(QueueChains[c])]
        BY <1>1, <2>5, QueueLists
      <4>2. Len(QueueChains[c]) \in 1 .. Len(QueueChains[c])
        BY <2>4, <2>5
      <4> QED
        BY <2>4, <4>1, <4>2
    <3>2. contents[p] \in Seq(Nat) /\ Append(contents[p], n) = contents[p] \o <<n>>
      BY <1>1, <2>3, <3>1, AppendIsConcat DEF StreamTypes, Contents
    <3>3. contents' = [contents EXCEPT ![p] = contents[p] \o <<n>>]
      BY <2>2, <3>1, <3>2
    <3>4. contents[p] \o <<n>> \in Seq(Nat) /\ <<n>> \in Seq(Nat)
      BY <2>3, <3>2
    <3> HIDE DEF p, n
    <3>5. StreamTypes'
      BY <1>1, <2>2, <2>3, <3>3, <3>4 DEF StreamTypes, Contents
    <3>6. /\ contents'[p] = contents[p] \o <<n>>
          /\ \A y \in Packets : y # p => contents'[y] = contents[y]
      BY <1>1, <3>1, <3>3 DEF StreamTypes, Contents
    <3>7. Joined(QueueChains[c], contents') = Joined(QueueChains[c], contents) \o <<n>>
      <4> DEFINE s == QueueChains[c]
                 x == <<n>>
      <4>1. IsList(next, s, out_queue_head[c]) /\ s # <<>> /\ p = s[Len(s)]
        BY <1>1, <2>5, <3>1, QueueLists
      <4>2. contents \in Contents /\ x \in Seq(Nat)
        BY <1>1, <3>4 DEF StreamTypes
      <4>3. contents' = Extended(contents, s[Len(s)], x)
        BY <3>3, <4>1 DEF Extended
      <4> HIDE DEF s, x
      <4>4. Joined(s, contents') = Joined(s, contents) \o x
        BY <4>1, <4>2, <4>3, JoinedLast
      <4> QED
        BY <4>4 DEF s, x
    <3>8. InOrder(c)'
      BY <1>1, <1>2, <2>2, <2>5, <3>7, OrderExtended DEF StreamTypes, n
    <3>9. ASSUME NEW d \in Slots, d # c PROVE InOrder(d)'
      <4>1. p \in ToSet(QueueChains[c])
        BY <1>1, <2>5, <3>1, QueueLists, TailChain
      <4>2. \A y \in ToSet(QueueChains[d]) : y \in Packets /\ y # p
        BY <1>1, <2>4, <3>9, <4>1, QueuesApart, InSet
      <4> QED
        BY <1>1, <1>2, <2>2, <2>5, <3>6, <3>9, <4>2, OrderKept DEF StreamTypes
    <3> QED
      BY <3>5, <3>8, <3>9
  <2>6. CASE AppendsFresh(c)
    <3>1. PICK f \in Packets :
            /\ out_queue_tail' = [out_queue_tail EXCEPT ![c] = f]
            /\ f # out_queue_tail[c]
            /\ \A d \in Slots : f \notin ToSet(QueueChains[d])
            /\ QueueChains' = [QueueChains EXCEPT ![c] = Append(@, f)]
      BY <2>6 DEF AppendsFresh
    <3>2. p = f
      BY <1>1, <3>1 DEF PacketInv, PacketsTypeOK
    <3>3. contents' = [contents EXCEPT ![f] = <<n>>] /\ <<n>> \in Seq(Nat)
      <4>1. <<n>> \in Seq(Nat)
        BY <2>3
      <4> HIDE DEF p, n
      <4> QED
        BY <2>2, <3>1, <3>2, <4>1
    <3> HIDE DEF p, n
    <3>4. StreamTypes'
      BY <1>1, <2>2, <2>3, <3>3 DEF StreamTypes, Contents
    <3>5. contents'[f] = <<n>> /\ \A y \in Packets : y # f => contents'[y] = contents[y]
      BY <1>1, <3>3 DEF StreamTypes, Contents
    <3>6. ASSUME NEW d \in Slots, NEW y \in ToSet(QueueChains[d])
          PROVE  contents'[y] = contents[y]
      BY <2>4, <3>1, <3>5, InSet
    <3>7. /\ QueueChains'[c] = Append(QueueChains[c], f)
          /\ \A d \in Slots : d # c => QueueChains'[d] = QueueChains[d]
      BY <3>1 DEF QueueChains
    <3>8. Joined(QueueChains'[c], contents') = Joined(QueueChains[c], contents) \o <<n>>
      <4> DEFINE s == QueueChains[c]
      <4>1. s \in Seq(Packets) /\ \A y \in ToSet(s) : contents'[y] = contents[y]
        BY <2>4, <3>6
      <4> HIDE DEF s
      <4>2. Joined(s, contents') = Joined(s, contents)
        BY <4>1, JoinedSame
      <4>3. Joined(Append(s, f), contents') = Joined(s, contents') \o contents'[f]
        BY <3>1, <3>4, <4>1, JoinedAppend DEF StreamTypes
      <4> QED
        BY <3>5, <3>7, <4>2, <4>3 DEF s
    <3>9. InOrder(c)'
      BY <1>1, <1>2, <2>2, <3>8, OrderExtended DEF StreamTypes, n
    <3>10. ASSUME NEW d \in Slots, d # c PROVE InOrder(d)'
      BY <1>1, <1>2, <2>2, <3>6, <3>7, <3>10, OrderKept DEF StreamTypes
    <3> QED
      BY <3>4, <3>9, <3>10
  <2> QED
    BY <1>1, <2>1, <2>5, <2>6, PutsChains
<1> QED
  BY <1>3, <1>4

LEMMA GiveOrder ==
  ASSUME StreamInv, NEW c \in Slots, StreamGive(c)
  PROVE  StreamTypes' /\ \A d \in Slots : InOrder(d)'
<1>1. /\ GameInv /\ PacketInv /\ RoomInv /\ ClientTypes /\ StreamTypes
      /\ \A d \in Slots : InOrder(d)
      /\ GivePacket(c) /\ WriteHead(c) /\ open[c] /\ open' = open
  BY DEF StreamInv, GameInv, StreamGive, GivePacket, RequestOutput
<1>2. /\ handed' = [handed EXCEPT ![c] = handed[c] \o contents[out_queue_head[c]]]
      /\ contents' = contents /\ put' = put
  BY DEF StreamGive
<1>3. QueueChains' = [QueueChains EXCEPT ![c] = Tail(@)]
  <2>1. 0 .. BufSize - 2 \subseteq Nat /\ RoomInv'
    BY <1>1, OutPacketsAssumption, WriteInv
  <2>2. bufpos' \in [Packets -> Nat]
    BY <2>1 DEF RoomInv
  <2> QED
    BY <1>1, <2>2, WriteHeadInv
<1>4. out_queue_head[c] # NULL /\ out_queue_head[c] \in Packets /\ QueueChains[c] # <<>>
  <2>1. out_queue_head[c] # NULL
    BY <1>1 DEF WriteHead
  <2>2. IsList(next, QueueChains[c], out_queue_head[c])
    BY <1>1, QueueLists
  <2> QED
    BY <2>1, <2>2, TailIsList
<1>5. StreamTypes'
  <2>1. handed[c] \o contents[out_queue_head[c]] \in Seq(Nat)
    BY <1>1, <1>4 DEF StreamTypes, Contents
  <2> QED
    BY <1>1, <1>2, <2>1 DEF StreamTypes
<1>6. /\ QueueChains'[c] = Tail(QueueChains[c])
      /\ \A d \in Slots : d # c => QueueChains'[d] = QueueChains[d]
  BY <1>3 DEF QueueChains
<1>7. InOrder(c)'
  BY <1>1, <1>2, <1>4, <1>6, OrderHanded DEF StreamTypes
<1>8. ASSUME NEW d \in Slots, d # c PROVE InOrder(d)'
  BY <1>1, <1>2, <1>6, <1>8, OrderKept DEF StreamTypes
<1> QED
  BY <1>5, <1>7, <1>8

LEMMA AcceptOrder ==
  ASSUME StreamInv, NEW c \in Slots, StreamAccept(c)
  PROVE  StreamTypes' /\ \A d \in Slots : InOrder(d)'
<1>1. /\ PacketInv /\ ClientTypes /\ StreamTypes /\ \A d \in Slots : InOrder(d)
      /\ ForgetPackets(c) /\ open' = [open EXCEPT ![c] = TRUE]
  BY DEF StreamInv, GameInv, StreamAccept, GameOnAccept, OnAccept
<1>2. /\ put' = [put EXCEPT ![c] = 0] /\ handed' = [handed EXCEPT ![c] = <<>>]
      /\ contents' = contents
  BY DEF StreamAccept
<1>3. StreamTypes'
  BY <1>1, <1>2 DEF StreamTypes
<1>4. /\ QueueChains'[c] = <<>>
      /\ \A d \in Slots : d # c => QueueChains'[d] = QueueChains[d]
  <2>1. QueueChains' = [QueueChains EXCEPT ![c] = <<>>]
    BY <1>1, ForgetPacketsInv
  <2> QED
    BY <2>1 DEF QueueChains
<1>5. InOrder(c)'
  <2>1. put'[c] = 0 /\ handed'[c] = <<>>
    BY <1>1, <1>2 DEF StreamTypes
  <2>2. Joined(QueueChains'[c], contents') = <<>>
    BY <1>3, <1>4, JoinedNone DEF StreamTypes
  <2>3. <<>> \o <<>> = <<>> /\ CountTo(0) = <<>>
    BY DEF CountTo
  <2> QED
    BY <2>1, <2>2, <2>3 DEF InOrder
<1>6. ASSUME NEW d \in Slots, d # c PROVE InOrder(d)'
  BY <1>1, <1>2, <1>4, <1>6, OrderKept DEF StreamTypes, ClientTypes
<1> QED
  BY <1>3, <1>5, <1>6

LEMMA OtherOrder ==
  ASSUME StreamInv, NEW c \in Slots, StreamOther(c)
  PROVE  StreamTypes' /\ \A d \in Slots : InOrder(d)'
<1>1. /\ PacketInv /\ ClientTypes /\ StreamTypes /\ \A d \in Slots : InOrder(d)
      /\ UNCHANGED streamVars
  BY DEF StreamInv, GameInv, StreamOther
<1>2. CASE GameOnDrop(c)
  <2>1. ReleaseClient(c) /\ open' = [open EXCEPT ![c] = FALSE]
    BY <1>2 DEF GameOnDrop, OnDrop
  <2>2. QueueChains' = [QueueChains EXCEPT ![c] = <<>>]
    BY <1>1, <2>1, ReleaseClientInv
  <2>3. \A d \in Slots : open'[d] => open[d] /\ QueueChains'[d] = QueueChains[d]
    BY <1>1, <2>1, <2>2 DEF QueueChains, ClientTypes
  <2> QED
    BY <1>1, <2>3, OrderKept DEF streamVars, StreamTypes
<1>3. CASE ~GameOnDrop(c)
  <2>1. open' = open /\ (UNCHANGED packetVars \/ WriteNothing(c))
    BY <1>3 DEF StreamOther, GiveChallenge, ChallengeWritten, GiveNothing, NoticeWritten,
         StayQuiet, GameRequestStatus, GameOutputSent, Disconnect, RequestOutput,
         RequestStatus, OutputSent
  <2>2. QueueChains' = QueueChains
    <3>1. CASE UNCHANGED packetVars
      BY <3>1 DEF packetVars, queueVars, QueueChains, Chain
    <3>2. CASE WriteNothing(c)
      BY <1>1, <3>2, WriteNothingInv
    <3> QED
      BY <2>1, <3>1, <3>2
  <2> QED
    BY <1>1, <2>1, <2>2, OrderKept DEF streamVars, StreamTypes
<1> QED
  BY <1>2, <1>3

-----------------------------------------------------------------------------
(***************************************************************************)
(* The theorem.                                                            *)
(***************************************************************************)
LEMMA StreamInitInv == StreamInit => StreamInv
<1> SUFFICES ASSUME StreamInit PROVE StreamInv
  OBVIOUS
<1>1. GameInv
  BY GameInitInv DEF StreamInit
<1>2. StreamTypes
  BY DEF StreamInit, StreamTypes, Contents
<1>3. ASSUME NEW d \in Slots PROVE InOrder(d)
  BY <1>3 DEF StreamInit, GameInit, CbInit, InOrder
<1> QED
  BY <1>1, <1>2, <1>3 DEF StreamInv

(* Every step is one of the game server.                                   *)
LEMMA StreamIsGame == StreamNext => GameNext
  BY DEF StreamNext, StreamAccept, StreamRead, StreamGive, StreamOther, GameNext,
         GameRequestOutput

LEMMA StreamStepInv == StreamInv /\ [StreamNext]_<<gameVars, streamVars>> => StreamInv'
<1> SUFFICES ASSUME StreamInv, [StreamNext]_<<gameVars, streamVars>> PROVE StreamInv'
  OBVIOUS
<1>1. GameInv'
  BY StreamIsGame, GameStepInv DEF StreamInv
<1>2. CASE UNCHANGED <<gameVars, streamVars>>
  <2>1. UNCHANGED <<open, put, handed, contents>> /\ QueueChains' = QueueChains
    BY <1>2 DEF gameVars, cbVars, packetVars, queueVars, streamVars, QueueChains, Chain
  <2> QED
    BY <1>1, <2>1 DEF StreamInv, StreamTypes, InOrder
<1>3. CASE StreamNext
  <2>1. PICK c \in Slots :
          StreamAccept(c) \/ StreamRead(c) \/ StreamGive(c) \/ StreamOther(c)
    BY <1>3 DEF StreamNext
  <2>2. StreamTypes' /\ \A d \in Slots : InOrder(d)'
    BY <2>1, AcceptOrder, ReadOrder, GiveOrder, OtherOrder
  <2> QED
    BY <1>1, <2>2 DEF StreamInv
<1> QED
  BY <1>2, <1>3

(* What a client is sent are its messages, each once and in order.         *)
THEOREM SentInOrder == StreamSpec => []MessagesInOrder
<1>1. StreamInv => MessagesInOrder
  BY InOrderIs DEF StreamInv
<1> QED
  BY <1>1, StreamInitInv, StreamStepInv, PTL DEF StreamSpec
=============================================================================
