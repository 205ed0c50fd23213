---------------------------- MODULE World_proofs ----------------------------
(***************************************************************************)
(* Proofs about World.tla, for every number of values of a byte, all files *)
(* and wherever they end: the loader finds the elements that were written, *)
(* the sparse array says what the pairs say, and which values of the field *)
(* num_tiles_per_chunk keep the tiles apart.                               *)
(***************************************************************************)
EXTENDS World, Buffers_proofs

-----------------------------------------------------------------------------
(***************************************************************************)
(* THE TILES.  An index is a number of three digits; a tile's place is a   *)
(* number of two.                                                          *)
(***************************************************************************)
LEMMA TwoDigits ==
  ASSUME NEW m \in Nat, NEW k \in Nat, NEW q \in 0 .. k - 1, NEW r \in 0 .. m - 1
  PROVE  q * m + r \in 0 .. m * k - 1
<1>1. m \in Nat \ {0} /\ q \in Nat /\ r \in Nat
  OBVIOUS
<1>2. q * m \in Nat /\ m * k \in Nat /\ m * (k - 1) \in Nat
  BY <1>1
<1>3. m * q <= m * (k - 1)
  BY <1>1, TimesMonotone
<1>4. m * k = m * (k - 1) + m /\ q * m = m * q
  BY <1>1
<1>5. q * m + r \in 0 .. m * k - 1
  <2> DEFINE x == q * m
             y == m * k
             z == m * (k - 1)
  <2>1. x \in Nat /\ y \in Nat /\ z \in Nat /\ x <= z /\ y = z + m
    BY <1>2, <1>3, <1>4
  <2> HIDE DEF x, y, z
  <2>2. x + r \in 0 .. y - 1
    BY <1>1, <2>1
  <2> QED
    BY <2>2 DEF x, y
<1> QED
  BY <1>5

LEMMA SameDigits ==
  ASSUME NEW m \in Nat, NEW k \in Nat,
         NEW q \in 0 .. k - 1, NEW r \in 0 .. m - 1, NEW p \in 0 .. k - 1, NEW s \in 0 .. m - 1,
         q * m + r = p * m + s
  PROVE  q = p /\ r = s
<1>1. m \in Nat \ {0} /\ q \in Int /\ p \in Int /\ q * m = m * q /\ p * m = m * p
  OBVIOUS
<1>2. (m * q + r) \div m = q /\ (m * q + r) % m = r
  BY <1>1, QuotientAndRest
<1>3. (m * p + s) \div m = p /\ (m * p + s) % m = s
  BY <1>1, QuotientAndRest
<1>4. m * q + r = m * p + s
  BY <1>1
<1> QED
  BY <1>2, <1>3, <1>4

(* at is in a box of the given extents.                                    *)
InBox(dim, at) ==
  \A i \in 1 .. 3 : dim[i] \in Nat /\ at[i] \in 0 .. dim[i] - 1

LEMMA IndexInBox ==
  ASSUME NEW dim, Volume(dim) < Word, NEW at, InBox(dim, at)
  PROVE  /\ IndexIn(dim, at) \in 0 .. Volume(dim) - 1
         /\ \A to : InBox(dim, to) /\ IndexIn(dim, to) = IndexIn(dim, at)
              => \A i \in 1 .. 3 : to[i] = at[i]
<1> DEFINE a == dim[1]
           b == dim[2]
           c == dim[3]
           n == a * b
           Low(x) == x[2] * a + x[1]
           Whole(x) == x[3] * n + Low(x)
<1>1. a \in Nat /\ b \in Nat /\ c \in Nat
  BY DEF InBox
<1>2. n \in Nat /\ Volume(dim) = n * c
  BY <1>1 DEF Volume
<1>3. ASSUME NEW x, InBox(dim, x)
      PROVE  /\ x[1] \in 0 .. a - 1 /\ x[2] \in 0 .. b - 1 /\ x[3] \in 0 .. c - 1
             /\ Low(x) \in 0 .. n - 1 /\ Whole(x) \in 0 .. n * c - 1
             /\ IndexIn(dim, x) = Whole(x)
  <2>1. x[1] \in 0 .. a - 1 /\ x[2] \in 0 .. b - 1 /\ x[3] \in 0 .. c - 1
    BY <1>3 DEF InBox
  <2>2. Low(x) \in 0 .. n - 1
    BY <1>1, <2>1, TwoDigits
  <2>3. Whole(x) \in 0 .. n * c - 1
    <3> HIDE DEF n, Low
    <3> QED
      BY <1>1, <1>2, <2>1, <2>2, TwoDigits
  <2>4. IndexIn(dim, x) = (x[3] * n + x[2] * a + x[1]) % Word
    BY DEF IndexIn
  <2>5. x[3] * n + x[2] * a + x[1] = Whole(x)
    <3>1. x[3] * n \in Int /\ x[2] * a \in Int /\ x[1] \in Int
      BY <1>1, <1>2, <2>1
    <3> QED
      BY <3>1
  <2>6. Whole(x) \in 0 .. Word - 1
    <3> HIDE DEF Whole, n
    <3>1. n * c < Word /\ n * c \in Nat
      BY <1>1, <1>2
    <3> QED
      BY <2>3, <3>1, Bases
  <2>7. Whole(x) % Word = Whole(x)
    <3> HIDE DEF Whole
    <3> QED
      BY <2>6, Bases, SmallRest
  <2> QED
    BY <2>1, <2>2, <2>3, <2>4, <2>5, <2>7
<1>4. ASSUME NEW to, InBox(dim, to), IndexIn(dim, to) = IndexIn(dim, at)
      PROVE  \A i \in 1 .. 3 : to[i] = at[i]
  <2>1. Whole(to) = Whole(at)
    BY <1>3, <1>4
  <2>2. to[3] = at[3] /\ Low(to) = Low(at)
    <3> DEFINE q == to[3]
               p == at[3]
               r == Low(to)
               t == Low(at)
    <3>1. q \in 0 .. c - 1 /\ p \in 0 .. c - 1 /\ r \in 0 .. n - 1 /\ t \in 0 .. n - 1
      BY <1>3, <1>4
    <3>2. q * n + r = p * n + t
      BY <2>1
    <3> HIDE DEF n, q, p, r, t
    <3>3. q = p /\ r = t
      BY <1>1, <1>2, <3>1, <3>2, SameDigits
    <3> QED
      BY <3>3 DEF q, p, r, t
  <2>3. to[2] = at[2] /\ to[1] = at[1]
    <3> DEFINE q == to[2]
               p == at[2]
               r == to[1]
               t == at[1]
    <3>1. q \in 0 .. b - 1 /\ p \in 0 .. b - 1 /\ r \in 0 .. a - 1 /\ t \in 0 .. a - 1
      BY <1>3, <1>4
    <3>2. q * a + r = p * a + t
      BY <2>2
    <3> HIDE DEF a, b, q, p, r, t
    <3>3. q = p /\ r = t
      BY <1>1, <3>1, <3>2, SameDigits
    <3> QED
      BY <3>3 DEF q, p, r, t
  <2> QED
    BY <2>2, <2>3
<1>5. IndexIn(dim, at) \in 0 .. Volume(dim) - 1
  BY <1>2, <1>3
<1> QED
  BY <1>4, <1>5

(* What the proof needs to know of the sparse array.                       *)
Places ==
  /\ \A i \in 1 .. 3 : info.chunk[i] \in Nat /\ info.world[i] \in Nat
  /\ info.dense \in Nat
  /\ DOMAIN sparse = 0 .. MaxChunks(info) - 1
  /\ \A c \in DOMAIN sparse : sparse[c] = NoChunk \/ sparse[c] \in 0 .. info.dense - 1

Within(pos) == [i \in 1 .. 3 |-> pos[i] % info.chunk[i]]

LEMMA PositionInBoxes ==
  ASSUME Places, NEW pos \in Positions
  PROVE  /\ InBox(info.world, ChunkAt(pos)) /\ InBox(info.chunk, Within(pos))
         /\ \A i \in 1 .. 3 : pos[i] = info.chunk[i] * ChunkAt(pos)[i] + Within(pos)[i]
<1>1. \A i \in 1 .. 3 : pos[i] \in 0 .. info.chunk[i] * info.world[i] - 1
  <2>1. /\ pos[1] \in 0 .. Extent(1) - 1 /\ pos[2] \in 0 .. Extent(2) - 1
        /\ pos[3] \in 0 .. Extent(3) - 1
    BY DEF Positions
  <2> QED
    BY <2>1 DEF Extent
<1>2. ASSUME NEW i \in 1 .. 3
      PROVE  /\ info.world[i] \in Nat /\ info.chunk[i] \in Nat
             /\ pos[i] \div info.chunk[i] \in 0 .. info.world[i] - 1
             /\ pos[i] % info.chunk[i] \in 0 .. info.chunk[i] - 1
             /\ pos[i] = info.chunk[i] * (pos[i] \div info.chunk[i]) + (pos[i] % info.chunk[i])
  <2> DEFINE m == info.chunk[i]
             k == info.world[i]
             x == pos[i]
  <2>1. m \in Nat /\ k \in Nat /\ x \in 0 .. m * k - 1
    BY <1>1 DEF Places
  <2> HIDE DEF m, k, x
  <2>2. m * k \in Nat /\ x \in Nat /\ x < m * k
    BY <2>1
  <2>3. m # 0
    BY <2>1, <2>2
  <2>4. x \div m \in Nat /\ x \div m < k
    BY <2>1, <2>2, <2>3, QuotientLess
  <2>5. x % m \in 0 .. m - 1 /\ x = m * (x \div m) + (x % m)
    <3>1. x \in Int /\ m \in Nat \ {0}
      BY <2>1, <2>2, <2>3
    <3> QED
      BY <3>1, Divided
  <2>6. x \div m \in 0 .. k - 1
    BY <2>1, <2>4
  <2> QED
    BY <2>1, <2>5, <2>6 DEF m, k, x
<1> QED
  BY <1>2 DEF InBox, ChunkAt, Within

(* A position is where its chunk and its place within that say.            *)
LEMMA SamePosition ==
  ASSUME Places, NEW pos \in Positions, NEW other \in Positions,
         \A i \in 1 .. 3 : ChunkAt(pos)[i] = ChunkAt(other)[i],
         \A i \in 1 .. 3 : Within(pos)[i] = Within(other)[i]
  PROVE  pos = other
<1>1. \A i \in 1 .. 3 : pos[i] = other[i]
  BY PositionInBoxes
<1>2. pos = <<pos[1], pos[2], pos[3]>> /\ other = <<other[1], other[2], other[3]>>
  BY DEF Positions
<1> QED
  BY <1>1, <1>2

LEMMA VolumeIsNat ==
  ASSUME Places
  PROVE  Volume(info.world) \in Nat /\ Volume(info.chunk) \in Nat
<1>1. ASSUME NEW a \in Nat, NEW b \in Nat, NEW c \in Nat
      PROVE  a * b * c \in Nat
  <2>1. a * b \in Nat
    OBVIOUS
  <2> QED
    BY <2>1
<1>2. /\ info.world[1] \in Nat /\ info.world[2] \in Nat /\ info.world[3] \in Nat
      /\ info.chunk[1] \in Nat /\ info.chunk[2] \in Nat /\ info.chunk[3] \in Nat
  BY DEF Places
<1> QED
  BY <1>1, <1>2 DEF Volume

(* Where the code finds the tile of a position.                            *)
LEMMA TileIs ==
  ASSUME Places, Sized, NEW pos \in Positions
  PROVE  /\ IndexIn(info.world, ChunkAt(pos)) \in DOMAIN sparse
         /\ Volume(info.chunk) \in Nat
         /\ TileIndex(pos) \in 0 .. Volume(info.chunk) - 1
         /\ TileIndex(pos) = IndexIn(info.chunk, Within(pos))
         /\ PlaceAt(pos) = NoChunk \/ PlaceAt(pos) \in 0 .. info.dense - 1
         /\ \A n : GetTile(n, pos) = IF PlaceAt(pos) = NoChunk THEN NULL
                                     ELSE PlaceAt(pos) * n + TileIndex(pos)
<1>1. InBox(info.world, ChunkAt(pos)) /\ InBox(info.chunk, Within(pos))
  BY PositionInBoxes
<1>2. Volume(info.chunk) < Word /\ Volume(info.world) < Word
  BY DEF Sized
<1>3. IndexIn(info.world, ChunkAt(pos)) \in 0 .. Volume(info.world) - 1
  BY <1>1, <1>2, IndexInBox
<1>4. TileIndex(pos) = IndexIn(info.chunk, Within(pos))
  BY DEF TileIndex, Within
<1>5. TileIndex(pos) \in 0 .. Volume(info.chunk) - 1
  BY <1>1, <1>2, <1>4, IndexInBox
<1>6. Volume(info.world) \in Nat /\ Volume(info.chunk) \in Nat
  BY VolumeIsNat
<1>7. MaxChunks(info) = Volume(info.world)
  <2>1. Volume(info.world) \in 0 .. Word - 1
    BY <1>2, <1>6, Bases
  <2> QED
    BY <2>1, Bases, SmallRest DEF MaxChunks
<1>8. IndexIn(info.world, ChunkAt(pos)) \in DOMAIN sparse
  BY <1>3, <1>7 DEF Places
<1>9. PlaceAt(pos) = NoChunk \/ PlaceAt(pos) \in 0 .. info.dense - 1
  BY <1>8 DEF PlaceAt, Places
<1>10. ~ \E i \in 1 .. 3 : ChunkAt(pos)[i] > info.world[i]
  BY <1>1 DEF InBox
<1>11. \A n : GetTile(n, pos) = IF PlaceAt(pos) = NoChunk THEN NULL
                                ELSE PlaceAt(pos) * n + TileIndex(pos)
  BY <1>8, <1>10 DEF GetTile, PlaceAt
<1> QED
  BY <1>4, <1>5, <1>6, <1>8, <1>9, <1>11

(* Two positions at one place and one index are the same.                  *)
LEMMA PositionsAreDistinct ==
  ASSUME Places, Sized
  PROVE  PositionsDistinct
<1>1. ASSUME NEW pos \in Positions
      PROVE  IndexIn(info.world, ChunkAt(pos)) \in DOMAIN sparse /\ TileIndex(pos) < Volume(info.chunk)
  <2>1. Volume(info.chunk) \in Nat /\ TileIndex(pos) \in 0 .. Volume(info.chunk) - 1
    BY TileIs
  <2>2. TileIndex(pos) < Volume(info.chunk)
    BY <2>1
  <2> QED
    BY <2>2, TileIs
<1>2. ASSUME ~Shared, NEW pos \in Positions, NEW other \in Positions,
             PlaceAt(pos) # NoChunk, PlaceAt(pos) = PlaceAt(other), TileIndex(pos) = TileIndex(other)
      PROVE  pos = other
  <2>1. IndexIn(info.world, ChunkAt(pos)) = IndexIn(info.world, ChunkAt(other))
    BY <1>1, <1>2 DEF Shared, PlaceAt
  <2>2. InBox(info.world, ChunkAt(pos)) /\ InBox(info.world, ChunkAt(other))
    BY PositionInBoxes
  <2>3. InBox(info.chunk, Within(pos)) /\ InBox(info.chunk, Within(other))
    BY PositionInBoxes
  <2>4. Volume(info.chunk) < Word /\ Volume(info.world) < Word
    BY DEF Sized
  <2>5. \A i \in 1 .. 3 : ChunkAt(pos)[i] = ChunkAt(other)[i]
    BY <2>1, <2>2, <2>4, IndexInBox
  <2>6. IndexIn(info.chunk, Within(pos)) = IndexIn(info.chunk, Within(other))
    BY <1>2, TileIs
  <2>7. \A i \in 1 .. 3 : Within(pos)[i] = Within(other)[i]
    BY <2>3, <2>4, <2>6, IndexInBox
  <2> QED
    BY <2>5, <2>7, SamePosition
<1> QED
  BY <1>1, <1>2 DEF PositionsDistinct

(* With a field that is large enough the tiles are apart.                  *)
LEMMA TilesAreSeparate ==
  ASSUME Places, Sized, NEW n \in Nat, n >= Volume(info.chunk)
  PROVE  TilesSeparate(n)
<1>1. info.dense \in Nat
  BY DEF Places
<1>2. ASSUME NEW pos \in Positions
      PROVE  /\ TileIndex(pos) \in 0 .. n - 1
             /\ PlaceAt(pos) = NoChunk => GetTile(n, pos) = NULL
             /\ PlaceAt(pos) # NoChunk =>
                  /\ PlaceAt(pos) \in 0 .. info.dense - 1
                  /\ GetTile(n, pos) = PlaceAt(pos) * n + TileIndex(pos)
  <2>1. Volume(info.chunk) \in Nat /\ TileIndex(pos) \in 0 .. Volume(info.chunk) - 1
    BY TileIs
  <2>2. TileIndex(pos) \in 0 .. n - 1
    BY <2>1
  <2>3. GetTile(n, pos) = IF PlaceAt(pos) = NoChunk THEN NULL ELSE PlaceAt(pos) * n + TileIndex(pos)
    BY TileIs
  <2>4. PlaceAt(pos) = NoChunk \/ PlaceAt(pos) \in 0 .. info.dense - 1
    BY TileIs
  <2> QED
    BY <2>2, <2>3, <2>4
<1>3. ASSUME NEW pos \in Positions, PlaceAt(pos) # NoChunk
      PROVE  GetTile(n, pos) \in 0 .. info.dense * n - 1 /\ GetTile(n, pos) # NULL
  <2>1. PlaceAt(pos) * n + TileIndex(pos) \in 0 .. n * info.dense - 1
    BY <1>1, <1>2, <1>3, TwoDigits
  <2>2. n * info.dense = info.dense * n
    BY <1>1
  <2>3. GetTile(n, pos) \in 0 .. info.dense * n - 1
    BY <1>2, <1>3, <2>1, <2>2
  <2> QED
    BY <2>3 DEF NULL
<1>4. \A pos \in Positions : GetTile(n, pos) \in {NULL} \union 0 .. info.dense * n - 1
  BY <1>2, <1>3
<1>5. ASSUME ~Shared, NEW pos \in Positions, NEW other \in Positions,
             GetTile(n, pos) = GetTile(n, other), GetTile(n, pos) # NULL
      PROVE  pos = other
  <2>1. PlaceAt(pos) # NoChunk /\ PlaceAt(other) # NoChunk
    BY <1>2, <1>5
  <2>2. PlaceAt(pos) * n + TileIndex(pos) = PlaceAt(other) * n + TileIndex(other)
    BY <1>2, <1>5, <2>1
  <2>3. PlaceAt(pos) = PlaceAt(other) /\ TileIndex(pos) = TileIndex(other)
    <3> DEFINE k == info.dense
               q == PlaceAt(pos)
               r == TileIndex(pos)
               p == PlaceAt(other)
               s == TileIndex(other)
    <3>1. k \in Nat /\ q \in 0 .. k - 1 /\ p \in 0 .. k - 1
      BY <1>1, <1>2, <2>1
    <3>2. r \in 0 .. n - 1 /\ s \in 0 .. n - 1
      BY <1>2
    <3>3. q * n + r = p * n + s
      BY <2>2
    <3> HIDE DEF k, q, r, p, s
    <3>4. q = p /\ r = s
      BY <3>1, <3>2, <3>3, SameDigits
    <3> QED
      BY <3>4 DEF q, p, r, s
  <2> QED
    BY <1>5, <2>1, <2>3, PositionsAreDistinct DEF PositionsDistinct
<1> QED
  BY <1>4, <1>5 DEF TilesSeparate

(* With a smaller one the last tile of a chunk is behind its part.         *)
LEMMA TilesDoRunOver ==
  ASSUME Places, Sized, NEW n \in Nat, ~(n >= Volume(info.chunk))
  PROVE  TilesRunOver(n)
<1> SUFFICES ASSUME NEW pos \in Positions, GetTile(n, pos) # NULL
             PROVE  \E other \in Positions :
                      ChunkAt(other) = ChunkAt(pos) /\ GetTile(n, other) >= (PlaceAt(pos) + 1) * n
  BY DEF TilesRunOver
<1> DEFINE Last(i) == info.chunk[i] * ChunkAt(pos)[i] + (info.chunk[i] - 1)
           last == <<Last(1), Last(2), Last(3)>>
<1>1. ASSUME NEW i \in 1 .. 3
      PROVE  /\ Last(i) \in 0 .. Extent(i) - 1
             /\ Last(i) \div info.chunk[i] = ChunkAt(pos)[i]
             /\ Last(i) % info.chunk[i] = info.chunk[i] - 1
             /\ info.chunk[i] \in Nat \ {0}
  <2> DEFINE m == info.chunk[i]
             k == info.world[i]
             q == ChunkAt(pos)[i]
             r == m - 1
  <2>1. InBox(info.world, ChunkAt(pos)) /\ InBox(info.chunk, Within(pos))
    BY PositionInBoxes
  <2>2. m \in Nat /\ k \in Nat /\ q \in 0 .. k - 1 /\ Within(pos)[i] \in 0 .. m - 1
    BY <2>1 DEF InBox
  <2> HIDE DEF m, k, q
  <2>3. m \in Nat \ {0}
    BY <2>2
  <2>4. r \in 0 .. m - 1 /\ q \in Int
    BY <2>2, <2>3
  <2> HIDE DEF r
  <2>5. q * m + r \in 0 .. m * k - 1
    BY <2>2, <2>4, TwoDigits
  <2>6. q * m = m * q
    BY <2>2
  <2>7. (m * q + r) \div m = q /\ (m * q + r) % m = r
    BY <2>3, <2>4, QuotientAndRest
  <2>8. m * q + r \in 0 .. m * k - 1
    BY <2>5, <2>6
  <2> QED
    BY <2>3, <2>7, <2>8 DEF m, k, q, r, Extent
<1>2. last[1] = Last(1) /\ last[2] = Last(2) /\ last[3] = Last(3)
  OBVIOUS
<1> HIDE DEF Last
<1>3. last \in Positions
  BY <1>1 DEF Positions
<1>4. \A i \in 1 .. 3 : last[i] = Last(i)
  BY <1>2
<1> HIDE DEF last
<1>5. ChunkAt(last) = ChunkAt(pos)
  <2>1. \A i \in 1 .. 3 : last[i] \div info.chunk[i] = pos[i] \div info.chunk[i]
    BY <1>1, <1>4 DEF ChunkAt
  <2> QED
    BY <2>1 DEF ChunkAt
<1>6. TileIndex(last) = Volume(info.chunk) - 1
  <2> DEFINE a == info.chunk[1]
             b == info.chunk[2]
             c == info.chunk[3]
             v == Volume(info.chunk)
  <2>1. a \in Nat \ {0} /\ b \in Nat \ {0} /\ c \in Nat \ {0}
    BY <1>1
  <2>2. last[1] % a = a - 1 /\ last[2] % b = b - 1 /\ last[3] % c = c - 1
    BY <1>1, <1>4
  <2>3. TileIndex(last) = ((c - 1) * (a * b) + (b - 1) * a + (a - 1)) % Word
    BY <2>2 DEF TileIndex, IndexIn
  <2>4. (c - 1) * (a * b) + (b - 1) * a + (a - 1) = v - 1
    <3>1. v = a * b * c
      BY DEF Volume
    <3> HIDE DEF a, b, c, v
    <3>2. (b - 1) * a = a * b - a
      BY <2>1
    <3> DEFINE ab == a * b
    <3>3. ab \in Nat
      BY <2>1
    <3>4. (c - 1) * ab = ab * c - ab
      <4> HIDE DEF ab
      <4> QED
        BY <2>1, <3>3
    <3>5. ab * c \in Nat
      <4> HIDE DEF ab
      <4> QED
        BY <2>1, <3>3
    <3> DEFINE abc == ab * c
               x == (c - 1) * ab
               y == (b - 1) * a
    <3>6. x = abc - ab /\ y = ab - a /\ v = abc /\ abc \in Nat /\ ab \in Nat /\ a \in Nat
      BY <2>1, <3>1, <3>2, <3>3, <3>4, <3>5
    <3> HIDE DEF ab, abc, x, y
    <3>7. x + y + (a - 1) = v - 1
      BY <3>6
    <3> QED
      BY <3>7 DEF x, y, ab
  <2>5. v \in Nat /\ v < Word /\ v - 1 \in 0 .. Word - 1
    <3>1. v \in Nat /\ v < Word
      BY VolumeIsNat DEF Sized
    <3>2. v > n
      BY <3>1
    <3> HIDE DEF v
    <3> QED
      BY <3>1, <3>2, Bases
  <2>6. (v - 1) % Word = v - 1
    <3> HIDE DEF v
    <3> QED
      BY <2>5, Bases, SmallRest
  <2> QED
    BY <2>3, <2>4, <2>6
<1>7. PlaceAt(last) = PlaceAt(pos) /\ PlaceAt(pos) # NoChunk /\ PlaceAt(pos) \in Nat
  <2>1. PlaceAt(last) = PlaceAt(pos)
    BY <1>5 DEF PlaceAt
  <2>2. PlaceAt(pos) # NoChunk
    BY TileIs
  <2>3. PlaceAt(pos) \in 0 .. info.dense - 1 /\ info.dense \in Nat
    BY <2>2, TileIs DEF Places
  <2> QED
    BY <2>1, <2>2, <2>3
<1>8. GetTile(n, last) = PlaceAt(pos) * n + (Volume(info.chunk) - 1)
  BY <1>3, <1>6, <1>7, TileIs
<1>9. GetTile(n, last) >= (PlaceAt(pos) + 1) * n
  <2> DEFINE p == PlaceAt(pos)
             v == Volume(info.chunk)
             pn == p * n
  <2>1. v \in Nat /\ p \in Nat /\ v - 1 >= n
    BY <1>7, VolumeIsNat
  <2>2. (p + 1) * n = pn + n /\ pn \in Nat
    BY <2>1
  <2>3. GetTile(n, last) = pn + (v - 1)
    BY <1>8
  <2> HIDE DEF p, v, pn
  <2>4. pn + (v - 1) >= pn + n
    BY <2>1, <2>2
  <2> QED
    BY <2>2, <2>3, <2>4 DEF p
<1> QED
  BY <1>3, <1>5, <1>9

-----------------------------------------------------------------------------
(***************************************************************************)
(* THE FILE.  The elements of it stand one behind the other, as far as the *)
(* file goes.                                                              *)
(***************************************************************************)

(* Where element i of es ends.                                             *)
End(es, i) ==
  LET end[j \in 0 .. Len(es)] ==
        IF j = 0 THEN 0 ELSE end[j - 1] + 8 + Len(es[j].data)
  IN  end[i]

(* d is a and then b.                                                      *)
IsJoined(d, a, b) ==
  /\ d \in Seq(Octet) /\ Len(d) = Len(a) + Len(b)
  /\ \A c \in 1 .. Len(a) : d[c] = a[c]
  /\ \A c \in 1 .. Len(b) : d[Len(a) + c] = b[c]

LEMMA BytesJoined ==
  ASSUME NEW a \in Seq(Octet), NEW b \in Seq(Octet)
  PROVE  IsJoined(a \o b, a, b)
<1>1. /\ a \o b \in Seq(Octet) /\ Len(a \o b) = Len(a) + Len(b)
      /\ \A c \in 1 .. Len(a) : (a \o b)[c] = a[c]
      /\ \A c \in 1 .. Len(b) : (a \o b)[Len(a) + c] = b[c]
  BY Joined
<1> QED
  BY <1>1 DEF IsJoined

LEMMA BytesFound ==
  ASSUME NEW f \in Seq(Octet), NEW b \in Seq(Octet), NEW p \in Nat, NEW n \in Nat,
         Len(b) = n, p + n <= Len(f), \A c \in 1 .. n : f[p + c] = b[c]
  PROVE  SubSeq(f, p + 1, p + n) = b
<1> DEFINE i == p + 1
           j == p + n
<1>1. Span(f, i, j, Len(b))
  BY DEF Span
<1>2. Holds(f, i, b)
  <2>1. \A c \in 1 .. n : i + c - 1 = p + c
    OBVIOUS
  <2> QED
    BY <2>1 DEF Holds, At
<1> HIDE DEF i, j
<1>3. Part(f, i, j) = b
  BY <1>1, <1>2, PartEquals
<1> QED
  BY <1>3 DEF Part, i, j

LEMMA ElementParts ==
  ASSUME NEW e \in FileElements
  PROVE  /\ e.id \in 0 .. Word - 1 /\ e.data \in Seq(Octet) /\ Len(e.data) \in Nat
         /\ Written(e) \in Seq(Octet) /\ Len(Written(e)) = 8 + Len(e.data)
         /\ \A c \in 1 .. 4 : Written(e)[c] = WriteLE(e.id, 4)[c]
         /\ \A c \in 1 .. 4 : Written(e)[4 + c] = WriteLE(Len(e.data), 4)[c]
         /\ \A c \in 1 .. Len(e.data) : Written(e)[8 + c] = e.data[c]
<1> DEFINE a == WriteLE(e.id, 4)
           b == WriteLE(Len(e.data), 4)
           d == e.data
<1>1. e.id \in 0 .. Word - 1 /\ d \in Seq(Octet) /\ Len(d) \in Nat
  BY WorldAssumption
<1>2. e.id \in Nat /\ 4 \in Nat
  BY <1>1, Bases
<1>3. a \in Seq(Octet) /\ Len(a) = 4 /\ b \in Seq(Octet) /\ Len(b) = 4
  BY <1>1, <1>2, StoredBytes DEF WriteLE
<1> HIDE DEF a, b, d
<1> DEFINE ab == a \o b
           whole == ab \o d
<1>4. IsJoined(ab, a, b)
  BY <1>3, BytesJoined
<1> HIDE DEF ab
<1>5. /\ ab \in Seq(Octet) /\ Len(ab) = 8
      /\ \A c \in 1 .. 4 : ab[c] = a[c]
      /\ \A c \in 1 .. 4 : ab[4 + c] = b[c]
  BY <1>3, <1>4 DEF IsJoined
<1>6. /\ whole \in Seq(Octet) /\ Len(whole) = 8 + Len(d)
      /\ \A c \in 1 .. 8 : whole[c] = ab[c]
      /\ \A c \in 1 .. Len(d) : whole[8 + c] = d[c]
  <2>1. IsJoined(whole, ab, d)
    BY <1>1, <1>5, BytesJoined
  <2> HIDE DEF whole
  <2> QED
    BY <1>5, <2>1 DEF IsJoined
<1> HIDE DEF whole
<1>7. Written(e) = whole
  BY DEF Written, whole, ab, a, b, d
<1>8. \A c \in 1 .. 4 : Written(e)[c] = a[c] /\ Written(e)[4 + c] = b[c]
  <2> SUFFICES ASSUME NEW c \in 1 .. 4
               PROVE  Written(e)[c] = a[c] /\ Written(e)[4 + c] = b[c]
    OBVIOUS
  <2>1. c \in 1 .. 8 /\ 4 + c \in 1 .. 8
    OBVIOUS
  <2>2. ab[c] = a[c] /\ ab[4 + c] = b[c]
    BY <1>5
  <2>3. Written(e)[c] = ab[c] /\ Written(e)[4 + c] = ab[4 + c]
    BY <1>6, <1>7, <2>1
  <2> QED
    BY <2>2, <2>3
<1> QED
  BY <1>1, <1>6, <1>7, <1>8 DEF a, b, d

LEMMA Ends ==
  ASSUME NEW es \in Seq(FileElements)
  PROVE  /\ End(es, 0) = 0 /\ \A i \in 0 .. Len(es) : End(es, i) \in Nat
         /\ \A i \in 1 .. Len(es) : /\ es[i] \in FileElements
                                    /\ End(es, i) = End(es, i - 1) + 8 + Len(es[i].data)
<1> DEFINE n == Len(es)
           size(i) == Len(es[i].data)
           step == [i \in 1 .. n |-> [y \in Nat |-> y + 8 + size(i)]]
           end[j \in 0 .. n] == IF j = 0 THEN 0 ELSE end[j - 1] + 8 + size(j)
<1>1. n \in Nat
  OBVIOUS
<1>2. \A i \in 1 .. n : size(i) \in Nat /\ es[i] \in FileElements
  BY ElementParts
<1>3. \A i \in 0 .. n : End(es, i) = end[i]
  BY DEF End
<1> HIDE DEF size, n
<1>4. step \in [1 .. n -> [Nat -> Nat]]
  BY <1>2
<1>5. PICK f \in [0 .. n -> Nat] : Iterates(f, n, 0, step)
  <2> HIDE DEF step
  <2> DEFINE S == Nat
  <2>1. 0 \in S /\ step \in [1 .. n -> [S -> S]]
    BY <1>4
  <2> HIDE DEF S
  <2>2. \E f \in [0 .. n -> S] : Iterates(f, n, 0, step)
    BY <1>1, <2>1, RecursionExists
  <2> QED
    BY <2>2 DEF S
<1>6. ASSUME NEW i \in 1 .. n
      PROVE  f[i] = f[i - 1] + 8 + size(i)
  <2>1. f[i - 1] \in Nat /\ f[i] = step[i][f[i - 1]]
    <3> HIDE DEF step
    <3>1. i - 1 \in 0 .. n
      BY <1>1
    <3> QED
      BY <1>5, <3>1 DEF Iterates
  <2> QED
    BY <2>1
<1>7. f = [i \in 0 .. n |-> IF i = 0 THEN 0 ELSE f[i - 1] + 8 + size(i)]
  BY <1>5, <1>6 DEF Iterates
<1>8. end = [i \in 0 .. n |-> IF i = 0 THEN 0 ELSE end[i - 1] + 8 + size(i)]
  BY <1>7
<1> HIDE DEF end, step
<1>9. end[0] = 0 /\ \A i \in 1 .. n : end[i] = end[i - 1] + 8 + size(i)
  BY <1>1, <1>8
<1>10. \A i \in 0 .. n : end[i] \in Nat
  <2> DEFINE T == {i \in 0 .. n : end[i] \in Nat}
  <2>1. 0 \in T
    BY <1>1, <1>9
  <2>2. ASSUME NEW i \in 1 .. n, i - 1 \in T
        PROVE  i \in T
    <3>1. end[i - 1] \in Nat
      BY <2>2
    <3>2. end[i] \in Nat
      BY <1>2, <1>9, <3>1
    <3> QED
      BY <1>1, <3>2
  <2> HIDE DEF T
  <2>3. \A i \in 0 .. n : i \in T
    BY <1>1, <2>1, <2>2, UpTo
  <2> QED
    BY <2>3 DEF T
<1>11. End(es, 0) = 0 /\ \A i \in 0 .. n : End(es, i) \in Nat
  <2>1. 0 \in 0 .. n
    BY <1>1
  <2>2. End(es, 0) = 0
    BY <1>3, <1>9, <2>1
  <2>3. ASSUME NEW i \in 0 .. n PROVE End(es, i) \in Nat
    BY <1>3, <1>10
  <2> QED
    BY <2>2, <2>3
<1>12. ASSUME NEW i \in 1 .. n
       PROVE  End(es, i) = End(es, i - 1) + 8 + size(i)
  <2>1. i \in 0 .. n /\ i - 1 \in 0 .. n
    BY <1>1
  <2> QED
    BY <1>3, <1>9, <2>1
<1> QED
  BY <1>2, <1>11, <1>12 DEF n, size

LEMMA EndsGrow ==
  ASSUME NEW es \in Seq(FileElements), NEW j \in 0 .. Len(es), NEW i \in 0 .. j
  PROVE  End(es, i) <= End(es, j)
<1> DEFINE n == Len(es)
           m == n - i
           T == {d \in 0 .. m : End(es, i) <= End(es, i + d)}
<1>1. n \in Nat /\ i \in Nat /\ m \in Nat /\ i + m = n /\ j - i \in 0 .. m
  OBVIOUS
<1>2. \A k \in 0 .. n : End(es, k) \in Nat
  BY Ends
<1>3. 0 \in T
  BY <1>1, <1>2
<1>4. ASSUME NEW d \in 1 .. m, d - 1 \in T
      PROVE  d \in T
  <2> DEFINE k == i + d
  <2>1. k \in 1 .. n /\ k - 1 = i + (d - 1) /\ k \in 0 .. n /\ k - 1 \in 0 .. n /\ i \in 0 .. n
    BY <1>1
  <2>2. End(es, k) = End(es, k - 1) + 8 + Len(es[k].data) /\ Len(es[k].data) \in Nat
    BY <2>1, Ends, ElementParts
  <2>3. End(es, i) <= End(es, k - 1)
    BY <1>4, <2>1
  <2>4. End(es, i) \in Nat /\ End(es, k - 1) \in Nat
    BY <1>2, <2>1
  <2> HIDE DEF k
  <2>5. End(es, i) <= End(es, k)
    BY SMTT(40), <2>2, <2>3, <2>4
  <2> QED
    BY <2>5 DEF k
<1> HIDE DEF T, m, n
<1>5. \A d \in 0 .. m : d \in T
  BY <1>1, <1>3, <1>4, UpTo
<1>6. j - i \in T /\ i + (j - i) = j
  BY <1>1, <1>5
<1> QED
  BY <1>6 DEF T

LEMMA EndsAppended ==
  ASSUME NEW es \in Seq(FileElements), NEW e \in FileElements
  PROVE  LET gs == Append(es, e)
             n  == Len(es)
         IN  /\ gs \in Seq(FileElements) /\ Len(gs) = n + 1 /\ gs[n + 1] = e
             /\ \A i \in 1 .. n : gs[i] = es[i]
             /\ \A i \in 0 .. n : End(gs, i) = End(es, i)
             /\ End(gs, n + 1) = End(es, n) + 8 + Len(e.data)
<1> DEFINE gs == Append(es, e)
           n == Len(es)
           T == {i \in 0 .. n : End(gs, i) = End(es, i)}
<1>1. /\ n \in Nat /\ gs \in Seq(FileElements) /\ Len(gs) = n + 1 /\ gs[n + 1] = e
      /\ \A i \in 1 .. n : gs[i] = es[i]
  BY AppendProperties
<1> HIDE DEF gs
<1>2. /\ End(gs, 0) = 0
      /\ \A i \in 1 .. n + 1 : End(gs, i) = End(gs, i - 1) + 8 + Len(gs[i].data)
  BY <1>1, Ends
<1>3. /\ End(es, 0) = 0
      /\ \A i \in 1 .. n : End(es, i) = End(es, i - 1) + 8 + Len(es[i].data)
  BY Ends
<1> HIDE DEF n
<1>4. 0 \in T
  BY <1>1, <1>2, <1>3
<1>5. ASSUME NEW i \in 1 .. n, i - 1 \in T
      PROVE  i \in T
  <2>1. End(gs, i - 1) = End(es, i - 1)
    BY <1>5
  <2>2. gs[i] = es[i] /\ i \in 1 .. n + 1
    BY <1>1
  <2>3. End(gs, i) = End(es, i)
    BY <1>2, <1>3, <2>1, <2>2
  <2> QED
    BY <1>1, <2>3
<1> HIDE DEF T
<1>6. \A i \in 0 .. n : i \in T
  BY <1>1, <1>4, <1>5, UpTo
<1>7. \A i \in 0 .. n : End(gs, i) = End(es, i)
  BY <1>6 DEF T
<1>8. End(gs, n + 1) = End(es, n) + 8 + Len(e.data)
  <2>1. n + 1 \in 1 .. n + 1 /\ (n + 1) - 1 = n /\ n \in 0 .. n
    BY <1>1
  <2>2. End(gs, n + 1) = End(gs, n) + 8 + Len(gs[n + 1].data)
    BY <1>2, <2>1
  <2> QED
    BY <1>1, <1>7, <2>1, <2>2
<1> QED
  BY <1>1, <1>7, <1>8 DEF gs, n

(* The bytes of the elements are in f, as far as f goes.                   *)
InFile(es, f) ==
  /\ f \in Seq(Octet) /\ Len(f) <= End(es, Len(es))
  /\ \A i \in 1 .. Len(es) : \A c \in 1 .. 8 + Len(es[i].data) :
       End(es, i - 1) + c <= Len(f) => f[End(es, i - 1) + c] = Written(es[i])[c]

LEMMA FileAppended ==
  ASSUME NEW es \in Seq(FileElements), NEW e \in FileElements, NEW f,
         InFile(es, f), Len(f) = End(es, Len(es))
  PROVE  InFile(Append(es, e), f \o Written(e))
           /\ Len(f \o Written(e)) = End(Append(es, e), Len(Append(es, e)))
<1> DEFINE gs == Append(es, e)
           n == Len(es)
           w == Written(e)
           g == f \o w
<1>1. /\ n \in Nat /\ gs \in Seq(FileElements) /\ Len(gs) = n + 1 /\ gs[n + 1] = e
      /\ \A i \in 1 .. n : gs[i] = es[i]
      /\ \A i \in 0 .. n : End(gs, i) = End(es, i)
      /\ End(gs, n + 1) = End(es, n) + 8 + Len(e.data)
  BY EndsAppended
<1>2. w \in Seq(Octet) /\ Len(w) = 8 + Len(e.data) /\ Len(e.data) \in Nat
  BY ElementParts
<1>3. f \in Seq(Octet) /\ Len(f) \in Nat
  BY DEF InFile
<1> HIDE DEF gs, w, g
<1>4. /\ g \in Seq(Octet) /\ Len(g) = Len(f) + Len(w)
      /\ \A c \in 1 .. Len(f) : g[c] = f[c]
      /\ \A c \in 1 .. Len(w) : g[Len(f) + c] = w[c]
  <2>1. IsJoined(f \o w, f, w)
    BY <1>2, <1>3, BytesJoined
  <2> QED
    BY <2>1 DEF IsJoined, g
<1>5. Len(g) = End(gs, Len(gs))
  <2>1. Len(g) = End(es, n) + (8 + Len(e.data)) /\ End(es, n) \in Nat
    BY <1>2, <1>3, <1>4
  <2>2. End(gs, Len(gs)) = End(es, n) + 8 + Len(e.data)
    BY <1>1
  <2> QED
    BY SMTT(40), <1>2, <2>1, <2>2
<1>6. ASSUME NEW i \in 1 .. n + 1, NEW c \in 1 .. 8 + Len(gs[i].data)
      PROVE  g[End(gs, i - 1) + c] = Written(gs[i])[c]
  <2>1. CASE i = n + 1
    <3>1. End(gs, i - 1) = Len(f) /\ gs[i] = e /\ c \in 1 .. Len(w)
      BY <1>1, <1>2, <2>1
    <3> QED
      BY <1>4, <3>1 DEF w
  <2>2. CASE i \in 1 .. n
    <3>1. gs[i] = es[i] /\ i - 1 \in 0 .. n /\ i \in 0 .. n /\ n \in 0 .. n
      BY <1>1, <2>2
    <3>2. End(gs, i - 1) = End(es, i - 1) /\ c \in 1 .. 8 + Len(es[i].data)
      BY <1>1, <3>1
    <3>3. End(es, i) = End(es, i - 1) + 8 + Len(es[i].data) /\ End(es, i) <= End(es, n)
      BY <2>2, <3>1, Ends, EndsGrow
    <3>4. End(es, i - 1) \in Nat /\ Len(es[i].data) \in Nat /\ End(es, n) \in Nat
      BY <2>2, <3>1, Ends, ElementParts
    <3>5. End(es, i - 1) + c \in 1 .. Len(f)
      <4> DEFINE x == End(es, i - 1)
                 y == Len(es[i].data)
                 z == Len(f)
      <4>1. x \in Nat /\ y \in Nat /\ z \in Nat /\ x + 8 + y <= z
        BY <1>3, <3>3, <3>4
      <4>2. c \in 1 .. 8 + y
        BY <3>2
      <4> HIDE DEF x, y, z
      <4>3. x + c \in 1 .. z
        BY <4>1, <4>2
      <4> QED
        BY <4>3 DEF x, z
    <3>6. f[End(es, i - 1) + c] = Written(es[i])[c]
      BY <2>2, <3>2, <3>5 DEF InFile
    <3> QED
      BY <1>4, <3>1, <3>2, <3>5, <3>6
  <2> QED
    BY <1>1, <2>1, <2>2
<1>7. Len(g) <= End(gs, Len(gs))
  BY <1>2, <1>3, <1>4, <1>5
<1>8. InFile(gs, g)
  BY <1>1, <1>4, <1>6, <1>7 DEF InFile
<1> QED
  BY <1>5, <1>8 DEF gs, g, w

LEMMA FileCut ==
  ASSUME NEW es \in Seq(FileElements), NEW f, InFile(es, f), NEW n \in 0 .. Len(f)
  PROVE  InFile(es, SubSeq(f, 1, n)) /\ Len(SubSeq(f, 1, n)) = n
<1> DEFINE g == SubSeq(f, 1, n)
<1>1. f \in Seq(Octet) /\ Len(f) <= End(es, Len(es)) /\ Len(f) \in Nat
  BY DEF InFile
<1>2. End(es, Len(es)) \in Nat
  BY Ends
<1>3. g \in Seq(Octet) /\ Len(g) = n /\ \A c \in 1 .. n : g[c] = f[c]
  <2>1. 1 \in Nat \ {0} /\ n \in Nat /\ 1 <= n + 1 /\ n <= Len(f) /\ n - 1 + 1 = n
    BY <1>1
  <2>2. /\ g \in Seq(Octet) /\ Len(g) = n - 1 + 1
        /\ \A c \in 1 .. n - 1 + 1 : g[c] = f[1 + c - 1]
    BY <1>1, <2>1, PartOf
  <2> HIDE DEF g
  <2>3. \A c \in 1 .. n : 1 + c - 1 = c
    OBVIOUS
  <2> QED
    BY <2>1, <2>2, <2>3
<1> HIDE DEF g
<1>4. ASSUME NEW i \in 1 .. Len(es), NEW c \in 1 .. 8 + Len(es[i].data),
             End(es, i - 1) + c <= Len(g)
      PROVE  g[End(es, i - 1) + c] = Written(es[i])[c]
  <2>1. End(es, i - 1) \in Nat
    BY Ends
  <2>2. End(es, i - 1) + c \in 1 .. n /\ End(es, i - 1) + c <= Len(f)
    BY <1>1, <1>3, <1>4, <2>1
  <2>3. f[End(es, i - 1) + c] = Written(es[i])[c]
    BY <2>2 DEF InFile
  <2> QED
    BY <1>3, <2>2, <2>3
<1>5. Len(g) <= End(es, Len(es))
  BY <1>1, <1>2, <1>3
<1> QED
  BY <1>3, <1>4, <1>5 DEF InFile, g

(* An element as the loader has it.                                        *)
Window(buf, bufend, id, pos) ==
  [buf |-> buf, bufend |-> bufend, bufpos |-> pos, elem_id |-> id]

LEMMA AsI32Small ==
  ASSUME NEW x \in Nat, 2 * x < Word
  PROVE  AsI32(x) = x
<1>1. x \in 0 .. Word - 1
  BY Bases
<1>2. x % Word = x
  BY <1>1, Bases, SmallRest
<1> QED
  BY <1>2, Bases DEF AsI32

(* What the loader gets when it has come to the end of element n.          *)
NextIn(es, f, n) == NextElement(f, Window(0, Len(f), 0, End(es, n)))

LEMMA NextOf ==
  ASSUME NEW f, NEW p \in Int, NEW last
  PROVE  LET parent == Window(0, last, 0, p)
             id == ReadLE(BytesAt(f, parent, 0, 4))
             size == ReadLE(BytesAt(f, parent, 4, 4))
         IN  NextElement(f, parent)
               = IF ~(last - p >= 8) \/ ~(last - p >= AsI32(size + 8))
                 THEN [ok |-> FALSE, parent |-> parent]
                 ELSE [ok |-> TRUE,
                       parent |-> Window(0, last, 0, AsI32(p + size + 8)),
                       elem |-> Window(p + 8, AsI32(size), id, 0)]
<1> DEFINE parent == Window(0, last, 0, p)
           id == ReadLE(BytesAt(f, parent, 0, 4))
           size == ReadLE(BytesAt(f, parent, 4, 4))
<1>1. parent.buf = 0 /\ parent.bufend = last /\ parent.bufpos = p
  BY DEF Window
<1>2. ASSUME NEW n PROVE KpbCanRead(parent, n) <=> last - p >= n
  BY <1>1 DEF KpbCanRead
<1>3. ASSUME NEW y PROVE [parent EXCEPT !.bufpos = y] = Window(0, last, 0, y)
  BY DEF Window
<1>4. ASSUME NEW y PROVE Element(parent.buf + parent.bufpos + 8, y, id) = Window(p + 8, y, id, 0)
  <2>1. parent.buf + parent.bufpos + 8 = p + 8
    BY <1>1
  <2> HIDE DEF parent, id
  <2> QED
    BY <2>1 DEF Element, Window
<1>5. NextElement(f, parent)
        = IF ~KpbCanRead(parent, 8) \/ ~KpbCanRead(parent, AsI32(size + 8))
          THEN [ok |-> FALSE, parent |-> parent]
          ELSE [ok |-> TRUE,
                parent |-> [parent EXCEPT !.bufpos = AsI32(parent.bufpos + size + 8)],
                elem |-> Element(parent.buf + parent.bufpos + 8, AsI32(size), id)]
  <2> HIDE DEF parent
  <2> QED
    BY DEF NextElement
<1> HIDE DEF parent, id, size
<1>6. NextElement(f, parent)
        = IF ~(last - p >= 8) \/ ~(last - p >= AsI32(size + 8))
          THEN [ok |-> FALSE, parent |-> parent]
          ELSE [ok |-> TRUE,
                parent |-> Window(0, last, 0, AsI32(p + size + 8)),
                elem |-> Window(p + 8, AsI32(size), id, 0)]
  BY <1>1, <1>2, <1>3, <1>4, <1>5
<1> QED
  BY <1>6 DEF parent, id, size

LEMMA NextIs ==
  ASSUME NEW es \in Seq(FileElements), NEW f, InFile(es, f), 2 * End(es, Len(es)) < Word,
         NEW n \in 0 .. Len(es), End(es, n) <= Len(f)
  PROVE  /\ NextIn(es, f, n).ok <=> n < Len(es) /\ End(es, n + 1) <= Len(f)
         /\ NextIn(es, f, n).ok =>
              /\ NextIn(es, f, n).parent = Window(0, Len(f), 0, End(es, n + 1))
              /\ NextIn(es, f, n).elem = Window(End(es, n) + 8, Len(es[n + 1].data), es[n + 1].id, 0)
<1> DEFINE p == End(es, n)
           parent == Window(0, Len(f), 0, p)
           next == NextIn(es, f, n)
           id == ReadLE(BytesAt(f, parent, 0, 4))
           size == ReadLE(BytesAt(f, parent, 4, 4))
           l == Len(es)
           x == AsI32(size + 8)
<1>1. /\ l \in Nat /\ p \in Nat /\ Len(f) \in Nat /\ f \in Seq(Octet)
      /\ End(es, l) \in Nat /\ Len(f) <= End(es, l)
  BY SMTT(40), Ends DEF InFile
<1>2. next = IF ~(Len(f) - p >= 8) \/ ~(Len(f) - p >= x)
             THEN [ok |-> FALSE, parent |-> parent]
             ELSE [ok |-> TRUE,
                   parent |-> Window(0, Len(f), 0, AsI32(p + size + 8)),
                   elem |-> Window(p + 8, AsI32(size), id, 0)]
  <2>1. p \in Int
    BY <1>1
  <2> HIDE DEF p
  <2> QED
    BY <2>1, NextOf DEF NextIn, p
<1> HIDE DEF next
<1>3. CASE n = l
  <2>1. Len(f) - p = 0
    BY <1>1, <1>3
  <2> QED
    BY <1>1, <1>2, <1>3, <2>1 DEF next
<1>4. CASE n # l
  <2> DEFINE e == es[n + 1]
             q == End(es, n + 1)
             d == Len(e.data)
  <2>1. n + 1 \in 1 .. l /\ n + 1 \in 0 .. l /\ l \in 0 .. l /\ (n + 1) - 1 = n
    BY <1>1, <1>4
  <2>2. e \in FileElements /\ q = p + 8 + d /\ q \in Nat /\ q <= End(es, l)
    BY <2>1, Ends, EndsGrow
  <2>3. /\ e.id \in 0 .. Word - 1 /\ d \in Nat
        /\ Written(e) \in Seq(Octet) /\ Len(Written(e)) = 8 + d
        /\ \A c \in 1 .. 4 : Written(e)[c] = WriteLE(e.id, 4)[c]
        /\ \A c \in 1 .. 4 : Written(e)[4 + c] = WriteLE(d, 4)[c]
    BY <2>2, ElementParts
  <2>4. \A c \in 1 .. 8 + d : p + c <= Len(f) => f[p + c] = Written(e)[c]
    BY <2>1 DEF InFile
  <2>7. n < l
    BY <1>1, <1>4
  <2> HIDE DEF e, d, q, p, l
  <2>5. CASE Len(f) - p >= 8
    <3>1. id = e.id /\ size = d
      <4>1. BytesAt(f, parent, 0, 4) = SubSeq(f, p + 1, p + 4)
        <5>1. 0 + p + 0 + 1 = p + 1 /\ p + 1 + 4 - 1 = p + 4
          BY <1>1
        <5>2. BytesAt(f, parent, 0, 4) = SubSeq(f, 0 + p + 0 + 1, 0 + p + 0 + 1 + 4 - 1)
          BY DEF BytesAt, Window
        <5> QED
          BY <5>1, <5>2
      <4>2. BytesAt(f, parent, 4, 4) = SubSeq(f, p + 5, p + 8)
        <5>1. 0 + p + 4 + 1 = p + 5 /\ p + 5 + 4 - 1 = p + 8
          BY <1>1
        <5>2. BytesAt(f, parent, 4, 4) = SubSeq(f, 0 + p + 4 + 1, 0 + p + 4 + 1 + 4 - 1)
          BY DEF BytesAt, Window
        <5> QED
          BY <5>1, <5>2
      <4>3. e.id \in Nat /\ 4 \in Nat
        BY <2>3, Bases
      <4> DEFINE a == WriteLE(e.id, 4)
                 b == WriteLE(d, 4)
      <4>4. a \in Seq(Octet) /\ Len(a) = 4 /\ b \in Seq(Octet) /\ Len(b) = 4
        BY <2>3, <4>3, StoredBytes DEF WriteLE
      <4> HIDE DEF a, b
      <4>5. ASSUME NEW c \in 1 .. 4
            PROVE  f[p + c] = a[c] /\ f[(p + 4) + c] = b[c]
        <5>1. c \in 1 .. 8 + d /\ 4 + c \in 1 .. 8 + d /\ p + c <= Len(f) /\ p + (4 + c) <= Len(f)
          BY SMTT(40), <1>1, <2>3, <2>5
        <5>2. f[p + c] = Written(e)[c] /\ f[p + (4 + c)] = Written(e)[4 + c]
          BY <2>4, <5>1
        <5>3. p + (4 + c) = (p + 4) + c
          BY <1>1
        <5> QED
          BY <2>3, <5>2, <5>3 DEF a, b
      <4>6. p \in Nat /\ p + 4 \in Nat /\ 4 \in Nat /\ p + 4 <= Len(f) /\ (p + 4) + 4 <= Len(f)
        BY <1>1, <2>5
      <4>7. SubSeq(f, p + 1, p + 4) = a /\ SubSeq(f, p + 5, p + 8) = b
        <5>1. SubSeq(f, p + 1, p + 4) = a
          BY ZenonT(40), <1>1, <4>4, <4>5, <4>6, BytesFound
        <5> DEFINE k == p + 4
        <5>2. \A c \in 1 .. 4 : f[k + c] = b[c]
          BY <4>5
        <5>3. k \in Nat /\ k + 4 <= Len(f) /\ k + 1 = p + 5 /\ k + 4 = p + 8
          BY <1>1, <4>6
        <5> HIDE DEF k
        <5>4. SubSeq(f, k + 1, k + 4) = b
          BY <1>1, <4>4, <4>6, <5>2, <5>3, BytesFound
        <5> QED
          BY <5>1, <5>3, <5>4
      <4>8. e.id < Values(4) /\ d < Values(4)
        <5>1. Values(4) = Word
          BY DEF Values
        <5> QED
          BY SMTT(40), <1>1, <2>2, <2>3, <5>1, Bases DEF l
      <4>9. Loaded(a) = e.id /\ Loaded(b) = d
        BY <2>3, <4>3, <4>8, IntegerRoundTrip DEF a, b, WriteLE
      <4> QED
        BY <4>1, <4>2, <4>7, <4>9 DEF ReadLE
    <3>2. AsI32(size + 8) = d + 8 /\ AsI32(size) = d /\ AsI32(p + size + 8) = q
      <4>1. 2 * (d + 8) < Word /\ 2 * d < Word /\ 2 * q < Word
        BY SMTT(40), <1>1, <2>2, <2>3, Bases DEF l
      <4>2. d + 8 \in Nat /\ d \in Nat /\ q \in Nat /\ p + d + 8 = q
        BY <1>1, <2>2, <2>3
      <4> QED
        BY <3>1, <4>1, <4>2, AsI32Small
    <3>3. Len(f) - p >= d + 8 <=> q <= Len(f)
      BY <1>1, <2>2, <2>3
    <3> HIDE DEF id, size, parent
    <3>5. next = IF ~(q <= Len(f))
                 THEN [ok |-> FALSE, parent |-> parent]
                 ELSE [ok |-> TRUE,
                       parent |-> Window(0, Len(f), 0, q),
                       elem |-> Window(p + 8, d, e.id, 0)]
      BY <1>2, <2>5, <3>1, <3>2, <3>3
    <3>6. n < l
      BY <2>7
    <3>7. /\ next.ok <=> q <= Len(f)
          /\ next.ok => next.parent = Window(0, Len(f), 0, q) /\ next.elem = Window(p + 8, d, e.id, 0)
      BY <3>5
    <3>8. next.ok <=> n < l /\ q <= Len(f)
      BY <3>6, <3>7
    <3>9. n < l /\ q <= Len(f) <=> n < Len(es) /\ End(es, n + 1) <= Len(f)
      BY DEF q, l
    <3>10. next.ok => /\ next.parent = Window(0, Len(f), 0, End(es, n + 1))
                      /\ next.elem = Window(End(es, n) + 8, Len(es[n + 1].data), es[n + 1].id, 0)
      BY <3>7 DEF q, p, e, d
    <3>11. next.ok <=> n < Len(es) /\ End(es, n + 1) <= Len(f)
      BY <3>8, <3>9
    <3> HIDE DEF x
    <3> QED
      BY <3>10, <3>11 DEF next
  <2>6. CASE ~(Len(f) - p >= 8)
    <3>1. ~(q <= Len(f))
      <4> DEFINE z == Len(f)
      <4>1. z \in Nat /\ p \in Nat /\ d \in Nat /\ q = p + 8 + d /\ ~(z - p >= 8)
        BY <1>1, <2>2, <2>3, <2>6
      <4> HIDE DEF parent, z
      <4>2. ~(q <= z)
        BY <4>1
      <4> QED
        BY <4>2 DEF z
    <3>2. next.ok = FALSE
      <4> HIDE DEF parent, id, size, x
      <4> QED
        BY <1>2, <2>6
    <3> QED
      BY <3>1, <3>2 DEF next, q, p
  <2> QED
    BY <2>5, <2>6
<1> QED
  BY <1>3, <1>4

(***************************************************************************)
(* What the loader reads from an element is in the data that was written.  *)
(***************************************************************************)

(* An integer of size bytes behind the first pos of data.                  *)
Number(data, pos, size) == ReadLE(SubSeq(data, pos + 1, pos + size))

LEMMA NumberBytes ==
  ASSUME NEW data \in Seq(Octet), NEW pos \in Nat, NEW size \in Nat, pos + size <= Len(data)
  PROVE  LET b == SubSeq(data, pos + 1, pos + size)
         IN  b \in Seq(Octet) /\ Len(b) = size /\ \A c \in 1 .. size : b[c] = data[pos + c]
<1> DEFINE i == pos + 1
           j == pos + size
           b == SubSeq(data, i, j)
<1>1. i \in Nat \ {0} /\ j \in Nat /\ i <= j + 1 /\ j <= Len(data) /\ j - i + 1 = size
  OBVIOUS
<1>2. \A c \in 1 .. size : i + c - 1 = pos + c
  OBVIOUS
<1> HIDE DEF i, j
<1>3. b \in Seq(Octet) /\ Len(b) = size /\ \A c \in 1 .. size : b[c] = data[i + c - 1]
  BY <1>1, PartOf
<1> HIDE DEF b
<1>4. \A c \in 1 .. size : b[c] = data[pos + c]
  BY <1>2, <1>3
<1> QED
  BY <1>3, <1>4 DEF b, i, j

LEMMA NumberIs ==
  ASSUME NEW data \in Seq(Octet), NEW pos \in Nat, NEW size \in {1, 2, 4}, pos + size <= Len(data)
  PROVE  Number(data, pos, size) \in 0 .. Values(size) - 1 /\ Number(data, pos, size) \in Nat
<1> DEFINE b == SubSeq(data, pos + 1, pos + size)
<1>1. size \in Nat
  OBVIOUS
<1>2. b \in Seq(Octet) /\ Len(b) = size
  BY <1>1, NumberBytes
<1> HIDE DEF b
<1>3. Loaded(b) \in 0 .. Values(size) - 1 /\ Loaded(b) \in Nat
  <2>1. Loaded(b) \in 0 .. Values(Len(b)) - 1
    BY <1>2, LoadedBelow
  <2>2. Loaded(b) \in Nat
    BY <1>2, StoredLoaded
  <2> QED
    BY <1>2, <2>1, <2>2
<1> QED
  BY <1>3 DEF Number, ReadLE, b

(* f has data behind its first off bytes.                                  *)
IsAt(f, off, data) ==
  off + Len(data) <= Len(f) /\ \A c \in 1 .. Len(data) : f[off + c] = data[c]

LEMMA ReadsWindow ==
  ASSUME NEW f \in Seq(Octet), NEW data \in Seq(Octet), NEW off \in Nat, IsAt(f, off, data),
         NEW pos \in Nat, NEW size \in {1, 2, 4}, pos + size <= Len(data), NEW id
  PROVE  KpbReadInt(f, Window(off, Len(data), id, pos), size) = Number(data, pos, size)
<1> DEFINE w == Window(off, Len(data), id, pos)
           p == off + pos
           b == SubSeq(data, pos + 1, pos + size)
<1>1. w.buf = off /\ w.bufend = Len(data) /\ w.bufpos = pos
  BY DEF Window
<1> HIDE DEF w
<1>2. KpbCanRead(w, size)
  BY <1>1 DEF KpbCanRead
<1>3. BytesAt(f, w, 0, size) = SubSeq(f, p + 1, p + size)
  <2>1. w.buf + w.bufpos + 0 + 1 = p + 1 /\ p + 1 + size - 1 = p + size
    BY <1>1
  <2>2. BytesAt(f, w, 0, size) = SubSeq(f, w.buf + w.bufpos + 0 + 1, w.buf + w.bufpos + 0 + 1 + size - 1)
    BY DEF BytesAt
  <2> QED
    BY <2>1, <2>2
<1>4. b \in Seq(Octet) /\ Len(b) = size /\ \A c \in 1 .. size : b[c] = data[pos + c]
  <2>1. size \in Nat
    OBVIOUS
  <2> QED
    BY <2>1, NumberBytes
<1> HIDE DEF b
<1>5. p \in Nat /\ size \in Nat /\ p + size <= Len(f) /\ \A c \in 1 .. size : f[p + c] = b[c]
  <2>1. p \in Nat /\ size \in Nat /\ p + size <= Len(f)
    BY SMTT(40) DEF IsAt
  <2>2. ASSUME NEW c \in 1 .. size PROVE f[p + c] = b[c]
    <3>1. pos + c \in 1 .. Len(data) /\ off + (pos + c) = p + c
      OBVIOUS
    <3>2. f[off + (pos + c)] = data[pos + c]
      BY <3>1 DEF IsAt
    <3> QED
      BY <1>4, <3>1, <3>2
  <2> QED
    BY <2>1, <2>2
<1> HIDE DEF p
<1>6. SubSeq(f, p + 1, p + size) = b
  BY <1>4, <1>5, BytesFound
<1> QED
  BY <1>2, <1>3, <1>6 DEF KpbReadInt, Number, b, w

(* The window of element n of es.                                          *)
ElementWindow(es, n, pos) == Window(End(es, n - 1) + 8, Len(es[n].data), es[n].id, pos)

(* Element n is there, and has size bytes behind its first pos.            *)
IsThere(es, f, n) ==
  es \in Seq(FileElements) /\ InFile(es, f) /\ n \in 1 .. Len(es) /\ End(es, n) <= Len(f)

HasBytes(es, n, pos, size) ==
  pos \in Nat /\ size \in {1, 2, 4} /\ pos + size <= Len(es[n].data)

LEMMA ReadsElement ==
  ASSUME NEW es, NEW f, NEW n, IsThere(es, f, n), NEW pos, NEW size, HasBytes(es, n, pos, size)
  PROVE  /\ KpbReadInt(f, ElementWindow(es, n, pos), size) = Number(es[n].data, pos, size)
         /\ Number(es[n].data, pos, size) \in 0 .. Values(size) - 1
         /\ Number(es[n].data, pos, size) \in Nat
<1> DEFINE data == es[n].data
           p == End(es, n - 1)
           off == p + 8
<1>0. /\ es \in Seq(FileElements) /\ InFile(es, f) /\ n \in 1 .. Len(es) /\ End(es, n) <= Len(f)
      /\ pos \in Nat /\ size \in {1, 2, 4} /\ pos + size <= Len(es[n].data)
  BY DEF IsThere, HasBytes
<1>1. es[n] \in FileElements /\ p \in Nat /\ End(es, n) = p + 8 + Len(data) /\ f \in Seq(Octet)
  BY <1>0, Ends DEF InFile
<1>2. /\ data \in Seq(Octet) /\ Len(data) \in Nat
      /\ \A c \in 1 .. Len(data) : Written(es[n])[8 + c] = data[c]
  BY <1>1, ElementParts
<1>3. \A c \in 1 .. 8 + Len(data) : p + c <= Len(f) => f[p + c] = Written(es[n])[c]
  BY <1>0 DEF InFile
<1> HIDE DEF p, data
<1>4. off \in Nat /\ off + Len(data) <= Len(f)
  BY <1>0, <1>1, <1>2
<1>5. ASSUME NEW c \in 1 .. Len(data) PROVE f[off + c] = data[c]
  <2>1. 8 + c \in 1 .. 8 + Len(data) /\ p + (8 + c) = off + c /\ p + (8 + c) <= Len(f)
    BY <1>0, <1>1, <1>2
  <2>2. f[p + (8 + c)] = Written(es[n])[8 + c]
    BY <1>3, <2>1
  <2> QED
    BY <1>2, <2>1, <2>2
<1> HIDE DEF off
<1>6. IsAt(f, off, data)
  BY <1>4, <1>5 DEF IsAt
<1>7. pos \in Nat /\ size \in {1, 2, 4} /\ pos + size <= Len(data)
  BY <1>0 DEF data
<1>8. KpbReadInt(f, Window(off, Len(data), es[n].id, pos), size) = Number(data, pos, size)
  <2> DEFINE id == es[n].id
  <2>1. f \in Seq(Octet) /\ data \in Seq(Octet) /\ off \in Nat
    BY <1>1, <1>2, <1>4
  <2> HIDE DEF id
  <2>2. KpbReadInt(f, Window(off, Len(data), id, pos), size) = Number(data, pos, size)
    BY <1>6, <1>7, <2>1, ReadsWindow
  <2> QED
    BY <2>2 DEF id
<1>9. Number(data, pos, size) \in 0 .. Values(size) - 1 /\ Number(data, pos, size) \in Nat
  BY <1>2, <1>7, NumberIs
<1> QED
  BY <1>8, <1>9 DEF ElementWindow, off, data, p

IsInfo(of) ==
  /\ \A i \in 1 .. 3 : of.chunk[i] \in Nat /\ of.world[i] \in Nat
  /\ of.dense \in Nat

LEMMA InfoIs ==
  ASSUME NEW es, NEW f, NEW n, IsThere(es, f, n), Len(es[n].data) = 32
  PROVE  /\ Info(f, ElementWindow(es, n, 0)) = Info(es[n].data, TopLevel(es[n].data))
         /\ IsInfo(Info(es[n].data, TopLevel(es[n].data)))
<1> DEFINE data == es[n].data
           w == ElementWindow(es, n, 0)
           v == TopLevel(data)
           Of(i, size) == Number(data, i, size)
<1>1. data \in Seq(Octet) /\ Len(data) = 32
  BY Ends, ElementParts DEF IsThere
<1>2. ASSUME NEW i \in Nat, NEW size \in {1, 2, 4}, i + size <= 32
      PROVE  /\ KpbReadInt(f, KpbSkip(w, i), size) = Of(i, size)
             /\ KpbReadInt(data, KpbSkip(v, i), size) = Of(i, size)
             /\ Of(i, size) \in Nat
  <2>1. KpbSkip(w, i) = ElementWindow(es, n, i)
    BY DEF KpbSkip, ElementWindow, Window
  <2>2. KpbSkip(v, i) = Window(0, Len(data), 0, i)
    BY DEF KpbSkip, TopLevel, Element, Window
  <2>3. KpbReadInt(f, ElementWindow(es, n, i), size) = Of(i, size) /\ Of(i, size) \in Nat
    <3>1. HasBytes(es, n, i, size)
      BY <1>2 DEF HasBytes
    <3>2. /\ KpbReadInt(f, ElementWindow(es, n, i), size) = Number(es[n].data, i, size)
          /\ Number(es[n].data, i, size) \in Nat
      BY <3>1, ReadsElement
    <3> QED
      BY <3>2
  <2>4. KpbReadInt(data, Window(0, Len(data), 0, i), size) = Of(i, size)
    <3>1. 0 \in Nat /\ i + size <= Len(data)
      BY <1>1, <1>2
    <3>2. IsAt(data, 0, data)
      BY <1>1 DEF IsAt
    <3> HIDE DEF data
    <3>3. KpbReadInt(data, Window(0, Len(data), 0, i), size) = Number(data, i, size)
      <4>1. data \in Seq(Octet) /\ 0 \in Nat /\ i + size <= Len(data)
        BY <1>1, <3>1
      <4> QED
        BY <3>2, <4>1, ReadsWindow
    <3> QED
      BY <3>3
  <2> QED
    BY <2>1, <2>2, <2>3, <2>4
<1> HIDE DEF w, v, data, Of
<1>3. /\ KpbReadInt(f, KpbSkip(w, 6), 2) = Of(6, 2) /\ KpbReadInt(data, KpbSkip(v, 6), 2) = Of(6, 2) /\ Of(6, 2) \in Nat
      /\ KpbReadInt(f, KpbSkip(w, 8), 2) = Of(8, 2) /\ KpbReadInt(data, KpbSkip(v, 8), 2) = Of(8, 2) /\ Of(8, 2) \in Nat
      /\ KpbReadInt(f, KpbSkip(w, 10), 1) = Of(10, 1) /\ KpbReadInt(data, KpbSkip(v, 10), 1) = Of(10, 1) /\ Of(10, 1) \in Nat
  BY <1>2
<1>4. /\ KpbReadInt(f, KpbSkip(w, 11), 2) = Of(11, 2) /\ KpbReadInt(data, KpbSkip(v, 11), 2) = Of(11, 2) /\ Of(11, 2) \in Nat
      /\ KpbReadInt(f, KpbSkip(w, 13), 2) = Of(13, 2) /\ KpbReadInt(data, KpbSkip(v, 13), 2) = Of(13, 2) /\ Of(13, 2) \in Nat
      /\ KpbReadInt(f, KpbSkip(w, 15), 1) = Of(15, 1) /\ KpbReadInt(data, KpbSkip(v, 15), 1) = Of(15, 1) /\ Of(15, 1) \in Nat
  BY <1>2
<1>5. /\ KpbReadInt(f, KpbSkip(w, 16), 4) = Of(16, 4) /\ KpbReadInt(data, KpbSkip(v, 16), 4) = Of(16, 4) /\ Of(16, 4) \in Nat
      /\ KpbReadInt(f, KpbSkip(w, 20), 4) = Of(20, 4) /\ KpbReadInt(data, KpbSkip(v, 20), 4) = Of(20, 4)
      /\ KpbReadInt(f, KpbSkip(w, 24), 4) = Of(24, 4) /\ KpbReadInt(data, KpbSkip(v, 24), 4) = Of(24, 4)
      /\ KpbReadInt(f, KpbSkip(w, 28), 4) = Of(28, 4) /\ KpbReadInt(data, KpbSkip(v, 28), 4) = Of(28, 4)
  BY <1>2
<1> DEFINE read ==
             [chunk   |-> <<Of(6, 2), Of(8, 2), Of(10, 1)>>,
              world   |-> <<Of(11, 2), Of(13, 2), Of(15, 1)>>,
              dense   |-> Of(16, 4),
              pairs   |-> Of(20, 4),
              spawns  |-> Of(24, 4),
              temples |-> Of(28, 4)]
<1>6. Info(f, w) = read /\ Info(data, v) = read
  BY <1>3, <1>4, <1>5 DEF Info
<1>7. IsInfo(read)
  BY <1>3, <1>4, <1>5 DEF IsInfo
<1> HIDE DEF read
<1>8. Info(f, w) = Info(data, v) /\ IsInfo(Info(data, v))
  BY <1>6, <1>7
<1> QED
  BY <1>8 DEF w, v, data

-----------------------------------------------------------------------------
(***************************************************************************)
(* THE LOADER.                                                             *)
(***************************************************************************)
FileInv ==
  /\ elements \in Seq(FileElements) /\ InFile(elements, file)
  /\ 2 * End(elements, Len(elements)) < Word
  /\ load = "writing" => Len(file) = End(elements, Len(elements))

(* The loader is between two elements.                                     *)
PlaceInv ==
  /\ found \in 0 .. Len(elements) /\ End(elements, found) <= Len(file)
  /\ load \in {"writing", "opening"} => found = 0
  /\ load # "writing" => top = Window(0, Len(file), 0, End(elements, found))

InfoInv ==
  Reading =>
    /\ found >= 1 /\ elements[1].id = WORLD_INFO
    /\ info = Info(elements[1].data, TopLevel(elements[1].data)) /\ IsInfo(info)
    /\ info.dense <= MaxChunks(info)
    /\ DOMAIN sparse = 0 .. MaxChunks(info) - 1

(* Within an element of pairs it is between two of them.                   *)
PairsInv ==
  load = "pairs" =>
    /\ found \in 1 .. Len(elements) /\ elements[found].id = WORLD_SPARSE_DATA
    /\ elem = ElementWindow(elements, found, elem.bufpos)
    /\ elem.bufpos \in 0 .. Len(elements[found].data)
    /\ elem.bufpos % 8 = 0 /\ Len(elements[found].data) % 8 = 0

Placed(c) ==
  IF sparse[c] = NoChunk
  THEN \A i \in 1 .. found : \A j \in 1 .. PairsIn(i) : PairAt(i, j).chunk # c
  ELSE sparse[c] \in 0 .. info.dense - 1 /\ PlaceOf(c, sparse[c])

SparseInv == Reading => \A c \in DOMAIN sparse : Placed(c)

NoMore(n) == n = Len(elements) \/ End(elements, n + 1) > Len(file)

EndInv ==
  /\ load = "chunk index" => PairAt(found, elem.bufpos \div 8).chunk >= MaxChunks(info)
  /\ load = "dense index" => PairAt(found, elem.bufpos \div 8).dense >= info.dense
  /\ load = "no element" => NoMore(0)
  /\ load \in {"loaded", "inconsistent"} => NoMore(found)
  /\ load = "loaded" => End(elements, found) = Len(file)

WorldInv == FileInv /\ PlaceInv /\ InfoInv /\ PairsInv /\ SparseInv /\ EndInv

LEMMA WorldIsInit == WorldInit => WorldInv
<1> SUFFICES ASSUME WorldInit PROVE WorldInv
  OBVIOUS
<1> USE DEF WorldInit
<1>1. elements \in Seq(FileElements) /\ Len(elements) = 0 /\ file \in Seq(Octet) /\ Len(file) = 0
  OBVIOUS
<1>2. End(elements, 0) = 0
  BY <1>1, Ends
<1>3. FileInv
  <2>1. 2 * End(elements, Len(elements)) < Word
    BY <1>1, <1>2, Bases
  <2>2. InFile(elements, file)
    BY <1>1, <1>2 DEF InFile
  <2> QED
    BY <1>1, <1>2, <2>1, <2>2 DEF FileInv
<1>4. PlaceInv
  BY <1>1, <1>2 DEF PlaceInv
<1>5. InfoInv /\ PairsInv /\ SparseInv /\ EndInv
  BY DEF InfoInv, PairsInv, SparseInv, EndInv, Reading
<1> QED
  BY <1>3, <1>4, <1>5 DEF WorldInv

LEMMA WriteElementKeeps == WorldInv /\ WriteElement => WorldInv'
<1> SUFFICES ASSUME WorldInv, WriteElement PROVE WorldInv'
  OBVIOUS
<1>1. PICK e \in FileElements :
        /\ 2 * Len(file \o Written(e)) < Word
        /\ elements' = Append(elements, e) /\ file' = file \o Written(e)
  BY DEF WriteElement
<1>2. load = "writing" /\ UNCHANGED <<load, found, top, elem, info, sparse>>
  BY DEF WriteElement
<1>3. elements \in Seq(FileElements) /\ InFile(elements, file) /\ Len(file) = End(elements, Len(elements))
  BY <1>2 DEF WorldInv, FileInv
<1>4. InFile(elements', file') /\ Len(file') = End(elements', Len(elements'))
  BY <1>1, <1>3, FileAppended
<1>5. elements' \in Seq(FileElements) /\ Len(elements') \in Nat
  BY <1>1, <1>3
<1>6. FileInv'
  BY <1>1, <1>4, <1>5 DEF FileInv
<1>7. PlaceInv'
  <2>1. found' = 0 /\ load' = "writing"
    BY <1>2 DEF WorldInv, PlaceInv
  <2>2. End(elements', 0) = 0 /\ Len(file') \in Nat
    BY <1>4, <1>5, Ends DEF InFile
  <2> QED
    BY <1>5, <2>1, <2>2 DEF PlaceInv
<1>8. InfoInv' /\ PairsInv' /\ SparseInv' /\ EndInv'
  BY <1>2 DEF InfoInv, PairsInv, SparseInv, EndInv, Reading
<1> QED
  BY <1>6, <1>7, <1>8 DEF WorldInv

LEMMA OpenFileKeeps == WorldInv /\ OpenFile => WorldInv'
<1> SUFFICES ASSUME WorldInv, OpenFile PROVE WorldInv'
  OBVIOUS
<1>1. PICK n \in 0 .. Len(file) : file' = SubSeq(file, 1, n)
  BY DEF OpenFile
<1>2. /\ load = "writing" /\ load' = "opening" /\ top' = TopLevel(file')
      /\ UNCHANGED <<elements, found, elem, info, sparse>>
  BY DEF OpenFile
<1>3. /\ elements \in Seq(FileElements) /\ InFile(elements, file)
      /\ 2 * End(elements, Len(elements)) < Word /\ found = 0
  BY <1>2 DEF WorldInv, FileInv, PlaceInv
<1>4. InFile(elements, file') /\ Len(file') = n
  BY <1>1, <1>3, FileCut
<1>5. FileInv'
  BY <1>2, <1>3, <1>4 DEF FileInv
<1>6. PlaceInv'
  <2>1. End(elements, 0) = 0 /\ Len(elements) \in Nat
    BY <1>3, Ends
  <2>2. top' = Window(0, Len(file'), 0, 0)
    BY <1>2 DEF TopLevel, Element, Window
  <2> QED
    BY <1>2, <1>3, <1>4, <2>1, <2>2 DEF PlaceInv
<1>7. InfoInv' /\ PairsInv' /\ SparseInv' /\ EndInv'
  BY <1>2 DEF InfoInv, PairsInv, SparseInv, EndInv, Reading
<1> QED
  BY <1>5, <1>6, <1>7 DEF WorldInv

(* The element the loader comes to is the next that was written, if that   *)
(* is all there.                                                           *)
LEMMA ComesToNext ==
  ASSUME WorldInv, load # "writing"
  PROVE  /\ NextElement(file, top).ok <=> ~NoMore(found)
         /\ NextElement(file, top).ok =>
              /\ found + 1 \in 1 .. Len(elements)
              /\ NextElement(file, top).parent = Window(0, Len(file), 0, End(elements, found + 1))
              /\ NextElement(file, top).elem = ElementWindow(elements, found + 1, 0)
              /\ IsThere(elements, file, found + 1)
<1> DEFINE next == NextElement(file, top)
<1>1. /\ elements \in Seq(FileElements) /\ InFile(elements, file)
      /\ 2 * End(elements, Len(elements)) < Word
  BY DEF WorldInv, FileInv
<1>2. /\ found \in 0 .. Len(elements) /\ End(elements, found) <= Len(file)
      /\ top = Window(0, Len(file), 0, End(elements, found))
  BY DEF WorldInv, PlaceInv
<1>3. next = NextIn(elements, file, found)
  BY <1>2 DEF NextIn
<1>4. /\ next.ok <=> found < Len(elements) /\ End(elements, found + 1) <= Len(file)
      /\ next.ok =>
           /\ next.parent = Window(0, Len(file), 0, End(elements, found + 1))
           /\ next.elem = Window(End(elements, found) + 8, Len(elements[found + 1].data), elements[found + 1].id, 0)
  BY <1>1, <1>2, <1>3, NextIs
<1> HIDE DEF next
<1>5. Len(elements) \in Nat /\ Len(file) \in Nat /\ \A i \in 0 .. Len(elements) : End(elements, i) \in Nat
  BY <1>1, Ends DEF InFile
<1>6. next.ok <=> ~NoMore(found)
  <2>1. CASE found = Len(elements)
    BY <1>4, <1>5, <2>1 DEF NoMore
  <2>2. CASE found # Len(elements)
    <3>1. found < Len(elements) /\ found + 1 \in 0 .. Len(elements)
      BY <1>2, <1>5, <2>2
    <3>2. End(elements, found + 1) \in Nat
      BY <1>5, <3>1
    <3>3. NoMore(found) <=> ~(End(elements, found + 1) <= Len(file))
      BY <1>5, <2>2, <3>2 DEF NoMore
    <3> QED
      BY <1>4, <3>1, <3>3
  <2> QED
    BY <2>1, <2>2
<1>7. ASSUME next.ok
      PROVE  /\ found + 1 \in 1 .. Len(elements)
             /\ next.elem = ElementWindow(elements, found + 1, 0)
             /\ IsThere(elements, file, found + 1)
  <2>1. found + 1 \in 1 .. Len(elements) /\ (found + 1) - 1 = found /\ End(elements, found + 1) <= Len(file)
    BY <1>2, <1>4, <1>5, <1>7
  <2>2. next.elem = ElementWindow(elements, found + 1, 0)
    BY <1>4, <1>7, <2>1 DEF ElementWindow
  <2>3. IsThere(elements, file, found + 1)
    BY <1>1, <2>1 DEF IsThere
  <2> QED
    BY <2>1, <2>2, <2>3
<1>8. next.ok => next.parent = Window(0, Len(file), 0, End(elements, found + 1))
  BY <1>4
<1> QED
  BY <1>6, <1>7, <1>8 DEF next

(* A step after OpenFile that leaves the file, and goes on to the next     *)
(* element or stays between two.                                           *)
LEMMA PlaceKept ==
  ASSUME WorldInv, load # "writing", load' \notin {"writing", "opening"}, UNCHANGED <<elements, file>>,
         \/ UNCHANGED <<found, top>>
         \/ /\ found' = found + 1 /\ top' = NextElement(file, top).parent
            /\ NextElement(file, top).ok
  PROVE  FileInv' /\ PlaceInv'
<1>1. FileInv'
  BY DEF WorldInv, FileInv
<1>2. CASE UNCHANGED <<found, top>>
  <2>1. PlaceInv'
    BY <1>2 DEF WorldInv, PlaceInv
  <2> QED
    BY <1>1, <2>1
<1>3. CASE /\ found' = found + 1 /\ top' = NextElement(file, top).parent
           /\ NextElement(file, top).ok
  <2>1. /\ found' \in 1 .. Len(elements)
        /\ top' = Window(0, Len(file), 0, End(elements, found'))
        /\ IsThere(elements, file, found')
    BY <1>3, ComesToNext
  <2>2. found' \in 0 .. Len(elements) /\ End(elements, found') <= Len(file)
    BY <2>1 DEF IsThere
  <2>3. PlaceInv'
    BY <2>1, <2>2 DEF PlaceInv
  <2> QED
    BY <1>1, <2>3
<1> QED
  BY <1>2, <1>3

LEMMA ReadInfoKeeps == WorldInv /\ ReadInfo => WorldInv'
<1> SUFFICES ASSUME WorldInv, ReadInfo PROVE WorldInv'
  OBVIOUS
<1> DEFINE first == NextElement(file, top)
           e == elements[1]
<1>1. /\ load = "opening" /\ load' = InfoChecked(first) /\ UNCHANGED <<elements, file>>
      /\ IF load' = "elements"
         THEN /\ top' = first.parent /\ elem' = KpbSkip(first.elem, 32) /\ found' = 1
              /\ info' = Info(file, first.elem)
              /\ sparse' = [c \in 0 .. MaxChunks(info') - 1 |-> NoChunk]
         ELSE UNCHANGED <<top, elem, found, info, sparse>>
  BY DEF ReadInfo
<1>2. load # "writing" /\ found = 0
  BY <1>1 DEF WorldInv, PlaceInv
<1>3. /\ first.ok <=> ~NoMore(0)
      /\ first.ok => /\ first.elem = ElementWindow(elements, 1, 0)
                     /\ IsThere(elements, file, 1)
  BY <1>2, ComesToNext
<1> HIDE DEF first
<1>4. CASE load' = "elements"
  <2>1. /\ first.ok /\ first.elem.elem_id = WORLD_INFO /\ KpbRemainder(first.elem) = 32
        /\ ~(Info(file, first.elem).dense > MaxChunks(Info(file, first.elem)))
    BY <1>1, <1>4 DEF InfoChecked
  <2>2. first.elem = ElementWindow(elements, 1, 0) /\ IsThere(elements, file, 1)
    BY <1>3, <2>1
  <2>3. e.id = WORLD_INFO /\ Len(e.data) = 32
    <3>1. first.elem.elem_id = e.id /\ first.elem.bufend = Len(e.data) /\ first.elem.bufpos = 0
      BY <2>2 DEF ElementWindow, Window
    <3>2. Len(e.data) \in Nat
      BY <2>2, Ends, ElementParts DEF IsThere
    <3> QED
      BY <2>1, <3>1, <3>2 DEF KpbRemainder
  <2>4. info' = Info(e.data, TopLevel(e.data)) /\ IsInfo(info')
    BY <1>1, <1>4, <2>2, <2>3, InfoIs
  <2>5. /\ found' = found + 1 /\ top' = first.parent /\ found' = 1
    BY <1>1, <1>2, <1>4
  <2>6. FileInv' /\ PlaceInv'
    BY <1>1, <1>2, <1>4, <2>1, <2>5, PlaceKept DEF first
  <2>7. MaxChunks(info') \in Nat
    <3>1. info'.world[1] \in Nat /\ info'.world[2] \in Nat /\ info'.world[3] \in Nat
      BY <2>4 DEF IsInfo
    <3>2. info'.world[1] * info'.world[2] \in Nat
      BY <3>1
    <3>3. Volume(info'.world) \in Nat
      BY <3>1, <3>2 DEF Volume
    <3> QED
      BY <3>3, Bases DEF MaxChunks
  <2>8. InfoInv'
    <3>1. info'.dense \in Nat
      BY <2>4 DEF IsInfo
    <3>2. info'.dense <= MaxChunks(info')
      <4>1. ~(info'.dense > MaxChunks(info'))
        BY <1>1, <1>4, <2>1
      <4> QED
        BY <2>7, <3>1, <4>1
    <3>3. DOMAIN sparse' = 0 .. MaxChunks(info') - 1
      BY <1>1, <1>4
    <3> QED
      BY <1>1, <2>3, <2>4, <2>5, <3>2, <3>3 DEF InfoInv
  <2>9. SparseInv'
    <3>1. ASSUME NEW c \in DOMAIN sparse' PROVE Placed(c)'
      <4>1. sparse'[c] = NoChunk
        BY <1>1, <1>4, <3>1
      <4>2. ASSUME NEW i \in 1 .. found' PROVE PairsIn(i)' = 0
        <5>1. elements'[i].id # WORLD_SPARSE_DATA
          BY <1>1, <2>3, <2>5, WorldAssumption
        <5> QED
          BY <5>1 DEF PairsIn
      <4> QED
        BY <4>1, <4>2 DEF Placed
    <3> QED
      BY <3>1 DEF SparseInv
  <2>10. PairsInv' /\ EndInv'
    BY <1>4 DEF PairsInv, EndInv
  <2> QED
    BY <2>6, <2>8, <2>9, <2>10 DEF WorldInv
<1>5. CASE load' # "elements"
  <2>1. load' \in {"no element", "no info", "info size", "too many chunks"}
    BY <1>1, <1>5 DEF InfoChecked
  <2>2. load' = "no element" => ~first.ok
    BY <1>1 DEF InfoChecked
  <2>3. FileInv' /\ PlaceInv'
    BY <1>1, <1>2, <1>5, <2>1, PlaceKept
  <2>4. InfoInv' /\ PairsInv' /\ SparseInv'
    BY <2>1 DEF InfoInv, PairsInv, SparseInv, Reading
  <2>5. NoMore(0) => NoMore(0)'
    BY <1>1 DEF NoMore
  <2>6. EndInv'
    BY <1>3, <2>1, <2>2, <2>5 DEF EndInv
  <2> QED
    BY <2>3, <2>4, <2>6 DEF WorldInv
<1> QED
  BY <1>4, <1>5

(* Places stay as they are while no pair is read.                          *)
LEMMA NothingRead ==
  ASSUME WorldInv, Reading, UNCHANGED <<elements, sparse, info>>, found' \in Nat, found <= found',
         \A i \in 1 .. found : PairsIn(i)' = PairsIn(i),
         \A i \in 1 .. found' : i > found => PairsIn(i)' = 0
  PROVE  SparseInv'
<1> SUFFICES ASSUME NEW c \in DOMAIN sparse PROVE Placed(c)'
  BY DEF SparseInv
<1>1. Placed(c) /\ found \in Nat
  BY DEF WorldInv, SparseInv, PlaceInv
<1>2. \A i, j : PairAt(i, j)' = PairAt(i, j)
  BY DEF PairAt
<1>3. ASSUME NEW i \in 1 .. found', NEW j \in 1 .. PairsIn(i)'
      PROVE  i \in 1 .. found /\ j \in 1 .. PairsIn(i)
  <2>1. i <= found
    <3> SUFFICES ASSUME i > found PROVE FALSE
      BY <1>1
    <3>1. PairsIn(i)' = 0
      OBVIOUS
    <3> QED
      BY <1>3, <3>1
  <2>2. i \in 1 .. found
    BY <1>1, <2>1
  <2> QED
    BY <1>3, <2>2
<1>4. ASSUME NEW i \in 1 .. found, NEW j \in 1 .. PairsIn(i)
      PROVE  i \in 1 .. found' /\ j \in 1 .. PairsIn(i)'
  BY <1>1
<1>5. CASE sparse[c] = NoChunk
  <2>1. \A i \in 1 .. found : \A j \in 1 .. PairsIn(i) : PairAt(i, j).chunk # c
    BY <1>1, <1>5 DEF Placed
  <2>2. ASSUME NEW i \in 1 .. found', NEW j \in 1 .. PairsIn(i)'
        PROVE  PairAt(i, j)'.chunk # c
    BY <1>2, <1>3, <2>1
  <2> QED
    BY <1>5, <2>2 DEF Placed
<1>6. CASE sparse[c] # NoChunk
  <2>1. sparse[c] \in 0 .. info.dense - 1 /\ PlaceOf(c, sparse[c])
    BY <1>1, <1>6 DEF Placed
  <2>2. PICK i \in 1 .. found : \E j \in 1 .. PairsIn(i) :
          /\ PairAt(i, j) = [chunk |-> c, dense |-> sparse[c]]
          /\ \A k \in 1 .. found : \A l \in 1 .. PairsIn(k) :
               Later(i, j, k, l) => PairAt(k, l).chunk # c
    BY <2>1 DEF PlaceOf
  <2>3. PICK j \in 1 .. PairsIn(i) :
          /\ PairAt(i, j) = [chunk |-> c, dense |-> sparse[c]]
          /\ \A k \in 1 .. found : \A l \in 1 .. PairsIn(k) :
               Later(i, j, k, l) => PairAt(k, l).chunk # c
    BY <2>2
  <2>4. i \in 1 .. found' /\ j \in 1 .. PairsIn(i)' /\ PairAt(i, j)' = [chunk |-> c, dense |-> sparse'[c]]
    BY <1>2, <1>4, <2>3
  <2>5. ASSUME NEW k \in 1 .. found', NEW l \in 1 .. PairsIn(k)', Later(i, j, k, l)
        PROVE  PairAt(k, l)'.chunk # c
    BY <1>2, <1>3, <2>3, <2>5
  <2>6. PlaceOf(c, sparse[c])'
    BY <2>4, <2>5 DEF PlaceOf, Later
  <2> QED
    BY <1>6, <2>1, <2>6 DEF Placed
<1> QED
  BY <1>5, <1>6

LEMMA PassElementKeeps == WorldInv /\ PassElement => WorldInv'
<1> SUFFICES ASSUME WorldInv, PassElement PROVE WorldInv'
  OBVIOUS
<1> DEFINE next == NextElement(file, top)
<1>1. /\ load = "elements" /\ load' = "elements" /\ next.ok
      /\ top' = next.parent /\ elem' = next.elem /\ found' = found + 1
      /\ next.elem.elem_id # WORLD_SPARSE_DATA
      /\ UNCHANGED <<elements, file, info, sparse>>
  BY DEF PassElement, ComeTo
<1>2. /\ found + 1 \in 1 .. Len(elements) /\ next.elem = ElementWindow(elements, found + 1, 0)
  BY <1>1, ComesToNext
<1>3. FileInv' /\ PlaceInv'
  BY <1>1, PlaceKept
<1> HIDE DEF next
<1>4. elements[found + 1].id # WORLD_SPARSE_DATA
  BY <1>1, <1>2 DEF ElementWindow, Window
<1>5. found \in Nat /\ Reading
  BY <1>1 DEF WorldInv, PlaceInv, Reading
<1>6. InfoInv'
  BY <1>1, <1>5 DEF WorldInv, InfoInv, Reading
<1>7. SparseInv'
  <2>1. found' \in Nat /\ found <= found'
    BY <1>1, <1>5
  <2>2. \A i \in 1 .. found : PairsIn(i)' = PairsIn(i)
    BY <1>1 DEF PairsIn
  <2>3. ASSUME NEW i \in 1 .. found', i > found PROVE PairsIn(i)' = 0
    <3>1. i = found + 1
      BY <1>1, <1>5, <2>3
    <3> QED
      BY <1>1, <1>4, <3>1 DEF PairsIn
  <2> QED
    BY <1>1, <1>5, <2>1, <2>2, <2>3, NothingRead
<1>8. PairsInv' /\ EndInv'
  BY <1>1 DEF PairsInv, EndInv
<1> QED
  BY <1>3, <1>6, <1>7, <1>8 DEF WorldInv

LEMMA StartPairsKeeps == WorldInv /\ StartPairs => WorldInv'
<1> SUFFICES ASSUME WorldInv, StartPairs PROVE WorldInv'
  OBVIOUS
<1> DEFINE next == NextElement(file, top)
           e == elements[found + 1]
<1>0. load' = IF KpbRemainder(next.elem) % 8 # 0 THEN "half a pair" ELSE "pairs"
  BY DEF StartPairs, ComeTo
<1>1. /\ load = "elements" /\ next.ok
      /\ top' = next.parent /\ elem' = next.elem /\ found' = found + 1
      /\ next.elem.elem_id = WORLD_SPARSE_DATA
      /\ UNCHANGED <<elements, file, info, sparse>>
  BY DEF StartPairs, ComeTo
<1>2. /\ found + 1 \in 1 .. Len(elements) /\ next.elem = ElementWindow(elements, found + 1, 0)
      /\ IsThere(elements, file, found + 1)
  BY <1>1, ComesToNext
<1>3. FileInv' /\ PlaceInv'
  BY <1>0, <1>1, PlaceKept
<1> HIDE DEF next
<1>4. /\ next.elem.elem_id = e.id /\ next.elem.bufend = Len(e.data) /\ next.elem.bufpos = 0
  BY <1>2 DEF ElementWindow, Window
<1>5. Len(e.data) \in Nat
  BY <1>2, Ends, ElementParts DEF IsThere
<1>6. found \in Nat /\ Reading
  BY <1>1 DEF WorldInv, PlaceInv, Reading
<1>7. CASE load' = "half a pair"
  <2>1. InfoInv' /\ PairsInv' /\ SparseInv' /\ EndInv'
    BY <1>7 DEF InfoInv, PairsInv, SparseInv, EndInv, Reading
  <2> QED
    BY <1>3, <2>1 DEF WorldInv
<1>8. CASE load' = "pairs"
  <2>1. KpbRemainder(next.elem) = Len(e.data)
    BY <1>4, <1>5 DEF KpbRemainder
  <2>2. Len(e.data) % 8 = 0
    BY <1>0, <1>8, <2>1
  <2>3. InfoInv'
    BY <1>1, <1>6, <1>8 DEF WorldInv, InfoInv, Reading
  <2>4. PairsInv'
    <3>1. elem' = ElementWindow(elements, found + 1, 0) /\ elem'.bufpos = 0
      BY <1>1, <1>2, <1>4
    <3>2. 0 % 8 = 0 /\ 0 \in 0 .. Len(e.data)
      BY <1>5
    <3> QED
      BY <1>1, <1>2, <1>4, <2>2, <3>1, <3>2 DEF PairsInv
  <2>5. SparseInv'
    <3>1. found' \in Nat /\ found <= found'
      BY <1>1, <1>6
    <3>2. \A i \in 1 .. found : PairsIn(i)' = PairsIn(i)
      <4>1. \A i \in 1 .. found : i # found'
        BY <1>1, <1>6
      <4> QED
        BY <1>1, <4>1 DEF PairsIn
    <3>3. ASSUME NEW i \in 1 .. found', i > found PROVE PairsIn(i)' = 0
      <4>1. i = found'
        BY <1>1, <1>6, <3>3
      <4>2. elem'.bufpos \div 8 = 0
        <5>1. elem'.bufpos = 0 /\ 0 \div 8 = 0
          BY <1>1, <1>4
        <5> QED
          BY <5>1
      <4>3. elements'[i].id = WORLD_SPARSE_DATA
        BY <1>1, <1>4, <4>1
      <4> QED
        BY <1>8, <4>1, <4>2, <4>3 DEF PairsIn
    <3> QED
      BY <1>1, <1>6, <3>1, <3>2, <3>3, NothingRead
  <2>6. EndInv'
    BY <1>8 DEF EndInv
  <2> QED
    BY <1>3, <2>3, <2>4, <2>5, <2>6 DEF WorldInv
<1> QED
  BY <1>0, <1>7, <1>8

LEMMA Eights ==
  ASSUME NEW p \in Nat, p % 8 = 0, NEW l \in Nat, l % 8 = 0, p < l
  PROVE  /\ p + 8 \in 0 .. l /\ (p + 8) % 8 = 0
         /\ (p + 8) \div 8 = (p \div 8) + 1 /\ p \div 8 \in Nat
         /\ 8 * ((p \div 8) + 1) = p + 8
  OBVIOUS

(* A pair puts its chunk at its place, and leaves the others.              *)
LEMMA PairRead ==
  ASSUME NEW n \in Nat \ {0}, NEW c0 \in DOMAIN sparse, NEW d0 \in 0 .. info.dense - 1,
         d0 # NoChunk, Reading, SparseInv, found \in Nat \ {0},
         UNCHANGED <<elements, found, info>>, sparse' = [sparse EXCEPT ![c0] = d0],
         PairsIn(found) = n - 1, PairsIn(found)' = n,
         \A i \in 1 .. found : i # found => PairsIn(i)' = PairsIn(i),
         PairAt(found, n) = [chunk |-> c0, dense |-> d0]
  PROVE  SparseInv'
<1>1. ASSUME NEW i \in 1 .. found, NEW j \in 1 .. PairsIn(i)'
      PROVE  j \in 1 .. PairsIn(i) \/ (i = found /\ j = n)
  <2>1. CASE i # found
    BY <1>1, <2>1
  <2>2. CASE i = found
    <3>1. j \in 1 .. n
      BY <1>1, <2>2
    <3>2. j \in 1 .. n - 1 \/ j = n
      BY <3>1
    <3> QED
      BY <2>2, <3>2
  <2> QED
    BY <2>1, <2>2
<1>2. ASSUME NEW i \in 1 .. found, NEW j \in 1 .. PairsIn(i)
      PROVE  j \in 1 .. PairsIn(i)'
  <2>1. CASE i # found
    BY <1>2, <2>1
  <2>2. CASE i = found
    <3>1. j \in 1 .. n - 1
      BY <1>2, <2>2
    <3>2. j \in 1 .. n
      BY <3>1
    <3> QED
      BY <2>2, <3>2
  <2> QED
    BY <2>1, <2>2
<1>3. \A i, j : PairAt(i, j)' = PairAt(i, j)
  BY DEF PairAt
<1>4. found' = found /\ found \in 1 .. found /\ n \in 1 .. n /\ info' = info
  OBVIOUS
<1>5. DOMAIN sparse' = DOMAIN sparse
  OBVIOUS
<1>6. ASSUME NEW c \in DOMAIN sparse, c = c0
      PROVE  Placed(c)'
  <2>1. sparse'[c] = d0
    BY <1>6
  <2>2. ASSUME NEW k \in 1 .. found, NEW l \in 1 .. PairsIn(k)'
        PROVE  ~Later(found, n, k, l)
    <3>1. CASE k # found
      BY <3>1 DEF Later
    <3>2. CASE k = found
      <4>1. l \in 1 .. n
        BY <2>2, <3>2
      <4> QED
        BY <3>2, <4>1 DEF Later
    <3> QED
      BY <3>1, <3>2
  <2>3. PairAt(found, n)' = [chunk |-> c, dense |-> d0]
    BY <1>3, <1>6
  <2>4. \A k \in 1 .. found' : \A l \in 1 .. PairsIn(k)' :
          Later(found, n, k, l) => PairAt(k, l)'.chunk # c
    BY <1>4, <2>2
  <2>5. found \in 1 .. found' /\ n \in 1 .. PairsIn(found)'
    BY <1>4
  <2>6. PlaceOf(c, sparse[c])'
    BY <2>1, <2>3, <2>4, <2>5 DEF PlaceOf, Later
  <2> QED
    BY <1>4, <2>1, <2>6 DEF Placed
<1>7. ASSUME NEW c \in DOMAIN sparse, c # c0, sparse[c] = NoChunk
      PROVE  Placed(c)'
  <2>1. sparse'[c] = NoChunk
    BY <1>7
  <2>2. \A i \in 1 .. found : \A j \in 1 .. PairsIn(i) : PairAt(i, j).chunk # c
    BY <1>7 DEF SparseInv, Placed
  <2>3. ASSUME NEW i \in 1 .. found, NEW j \in 1 .. PairsIn(i)' PROVE PairAt(i, j).chunk # c
    <3>1. CASE j \in 1 .. PairsIn(i)
      BY <2>2, <3>1
    <3>2. CASE i = found /\ j = n
      BY <1>7, <3>2
    <3> QED
      BY <1>1, <2>3, <3>1, <3>2
  <2>4. \A i \in 1 .. found' : \A j \in 1 .. PairsIn(i)' : PairAt(i, j)'.chunk # c
    BY <1>3, <1>4, <2>3
  <2> QED
    BY <2>1, <2>4 DEF Placed
<1>8. ASSUME NEW c \in DOMAIN sparse, c # c0, sparse[c] # NoChunk
      PROVE  Placed(c)'
  <2>1. sparse'[c] = sparse[c]
    BY <1>8
  <2>2. sparse[c] \in 0 .. info.dense - 1 /\ PlaceOf(c, sparse[c])
    BY <1>8 DEF SparseInv, Placed
  <2>3. PICK i \in 1 .. found : \E j \in 1 .. PairsIn(i) :
          /\ PairAt(i, j) = [chunk |-> c, dense |-> sparse[c]]
          /\ \A k \in 1 .. found : \A l \in 1 .. PairsIn(k) :
               Later(i, j, k, l) => PairAt(k, l).chunk # c
    BY <2>2 DEF PlaceOf
  <2>4. PICK j \in 1 .. PairsIn(i) :
          /\ PairAt(i, j) = [chunk |-> c, dense |-> sparse[c]]
          /\ \A k \in 1 .. found : \A l \in 1 .. PairsIn(k) :
               Later(i, j, k, l) => PairAt(k, l).chunk # c
    BY <2>3
  <2>5. i \in 1 .. found' /\ j \in 1 .. PairsIn(i)'
    BY <1>2, <1>4
  <2>6. PairAt(i, j)' = [chunk |-> c, dense |-> sparse'[c]]
    BY <1>3, <2>1, <2>4
  <2>7. ASSUME NEW k \in 1 .. found, NEW l \in 1 .. PairsIn(k)', Later(i, j, k, l)
        PROVE  PairAt(k, l).chunk # c
    <3>1. CASE l \in 1 .. PairsIn(k)
      BY <2>4, <2>7, <3>1
    <3>2. CASE k = found /\ l = n
      BY <1>8, <3>2
    <3> QED
      BY <1>1, <2>7, <3>1, <3>2
  <2>8. \A k \in 1 .. found' : \A l \in 1 .. PairsIn(k)' :
          Later(i, j, k, l) => PairAt(k, l)'.chunk # c
    BY <1>3, <1>4, <2>7
  <2>9. PlaceOf(c, sparse[c])'
    BY <2>5, <2>6, <2>8 DEF PlaceOf, Later
  <2> QED
    BY <1>4, <1>8, <2>1, <2>2, <2>9 DEF Placed
<1>9. ASSUME NEW c \in DOMAIN sparse' PROVE Placed(c)'
  BY <1>5, <1>6, <1>7, <1>8
<1> QED
  BY <1>9 DEF SparseInv

LEMMA ReadPairKeeps == WorldInv /\ ReadPair => WorldInv'
<1> SUFFICES ASSUME WorldInv, ReadPair PROVE WorldInv'
  OBVIOUS
<1> DEFINE data == elements[found].data
<1>a. PICK p : p = elem.bufpos
  OBVIOUS
<1>b. PICK n : n = (p \div 8) + 1
  OBVIOUS
<1>c. PICK c0 : c0 = KpbReadInt(file, elem, 4)
  OBVIOUS
<1>d. PICK d0 : d0 = KpbReadInt(file, KpbSkip(elem, 4), 4)
  OBVIOUS
<1>0. /\ load' = IF c0 >= MaxChunks(info) THEN "chunk index"
                 ELSE IF d0 >= info.dense THEN "dense index" ELSE "pairs"
      /\ sparse' = IF load' = "pairs" THEN [sparse EXCEPT ![c0] = d0] ELSE sparse
  BY <1>c, <1>d DEF ReadPair
<1>1. /\ load = "pairs" /\ KpbRemainder(elem) > 0
      /\ elem' = KpbSkip(elem, 8)
      /\ UNCHANGED <<elements, file, found, top, info>>
  BY DEF ReadPair
<1>2. /\ elements \in Seq(FileElements) /\ InFile(elements, file)
      /\ found \in 1 .. Len(elements) /\ End(elements, found) <= Len(file)
      /\ elements[found].id = WORLD_SPARSE_DATA
      /\ elem = ElementWindow(elements, found, p)
      /\ p \in 0 .. Len(data) /\ p % 8 = 0 /\ Len(data) % 8 = 0
  BY <1>1, <1>a DEF WorldInv, FileInv, PlaceInv, PairsInv
<1>3. IsThere(elements, file, found)
  BY <1>2 DEF IsThere
<1>4. data \in Seq(Octet) /\ Len(data) \in Nat
  BY <1>2, Ends, ElementParts
<1>5. /\ p \in Nat /\ p < Len(data)
      /\ p + 8 \in 0 .. Len(data) /\ (p + 8) % 8 = 0 /\ (p + 8) \div 8 = n
      /\ n \in Nat \ {0} /\ p \div 8 = n - 1 /\ 8 * n = p + 8
  <2>1. elem.bufend = Len(data) /\ elem.bufpos = p
    BY <1>2 DEF ElementWindow, Window
  <2> HIDE DEF data
  <2>2. p \in Nat /\ p < Len(data) /\ p % 8 = 0 /\ Len(data) % 8 = 0 /\ Len(data) \in Nat
    BY <1>1, <1>2, <1>4, <2>1 DEF KpbRemainder
  <2>3. /\ p + 8 \in 0 .. Len(data) /\ (p + 8) % 8 = 0
        /\ (p + 8) \div 8 = (p \div 8) + 1 /\ p \div 8 \in Nat
        /\ 8 * ((p \div 8) + 1) = p + 8
    BY <2>2, Eights
  <2> QED
    BY <1>b, <2>2, <2>3
<1>6. elem' = ElementWindow(elements, found, p + 8) /\ elem'.bufpos = p + 8
  BY <1>1, <1>2 DEF KpbSkip, ElementWindow, Window
<1>7. c0 = PairAt(found, n).chunk /\ c0 \in 0 .. Word - 1
  <2>1. HasBytes(elements, found, p, 4)
    BY <1>5 DEF HasBytes
  <2>2. KpbReadInt(file, ElementWindow(elements, found, p), 4) = Number(data, p, 4)
        /\ Number(data, p, 4) \in 0 .. Values(4) - 1
    BY <1>3, <2>1, ReadsElement
  <2>3. Values(4) = Word
    BY DEF Values
  <2>4. 8 * n - 7 = p + 1 /\ 8 * n - 4 = p + 4
    BY <1>5
  <2>5. PairAt(found, n).chunk = Number(data, p, 4)
    BY <2>4 DEF PairAt, Number
  <2>6. c0 = Number(data, p, 4)
    BY <1>2, <1>c, <2>2
  <2>7. c0 \in 0 .. Word - 1
    BY <2>2, <2>3, <2>6
  <2> QED
    BY <2>5, <2>6, <2>7
<1>8. d0 = PairAt(found, n).dense /\ d0 \in 0 .. Word - 1
  <2>1. HasBytes(elements, found, p + 4, 4)
    BY <1>5 DEF HasBytes
  <2>2. KpbReadInt(file, ElementWindow(elements, found, p + 4), 4) = Number(data, p + 4, 4)
        /\ Number(data, p + 4, 4) \in 0 .. Values(4) - 1
    BY <1>3, <2>1, ReadsElement
  <2>3. Values(4) = Word
    BY DEF Values
  <2>4. 8 * n - 3 = (p + 4) + 1 /\ 8 * n = (p + 4) + 4
    BY <1>5
  <2>5. PairAt(found, n).dense = Number(data, p + 4, 4)
    BY <2>4 DEF PairAt, Number
  <2>6. KpbSkip(elem, 4) = ElementWindow(elements, found, p + 4)
    BY SMTT(40), <1>2 DEF KpbSkip, ElementWindow, Window
  <2>7. d0 = Number(data, p + 4, 4)
    BY <1>d, <2>2, <2>6
  <2>8. d0 \in 0 .. Word - 1
    BY <2>2, <2>3, <2>7
  <2> QED
    BY <2>5, <2>7, <2>8
<1>9. found \in Nat \ {0} /\ Reading
  BY <1>1, <1>2 DEF Reading
<1>10. load' \in {"chunk index", "dense index", "pairs"}
  BY <1>0
<1>11. FileInv' /\ PlaceInv'
  <2>1. load # "writing" /\ load' \notin {"writing", "opening"}
    BY <1>1, <1>10
  <2> QED
    BY <1>1, <2>1, PlaceKept
<1>12. elem'.bufpos \div 8 = n
  BY <1>5, <1>6
<1>13. EndInv'
  <2>1. load' = "chunk index" => PairAt(found, n).chunk >= MaxChunks(info)
    BY <1>0, <1>7
  <2>2. load' = "dense index" => PairAt(found, n).dense >= info.dense
    BY <1>0, <1>8
  <2>3. PairAt(found, n)' = PairAt(found, n) /\ found' = found /\ info' = info
    BY <1>1 DEF PairAt
  <2>4. PairAt(found, elem.bufpos \div 8)' = PairAt(found, n)
    BY <1>12, <2>3 DEF PairAt
  <2>5. MaxChunks(info)' = MaxChunks(info)
    BY <2>3
  <2> QED
    BY <1>10, <2>1, <2>2, <2>3, <2>4, <2>5 DEF EndInv
<1>14. CASE load' # "pairs"
  <2>1. InfoInv' /\ PairsInv' /\ SparseInv'
    BY <1>10, <1>14 DEF InfoInv, PairsInv, SparseInv, Reading
  <2> QED
    BY <1>11, <1>13, <2>1 DEF WorldInv
<1>15. CASE load' = "pairs"
  <2>1. ~(c0 >= MaxChunks(info)) /\ ~(d0 >= info.dense) /\ sparse' = [sparse EXCEPT ![c0] = d0]
    BY <1>0, <1>15
  <2>2. /\ DOMAIN sparse = 0 .. MaxChunks(info) - 1 /\ IsInfo(info) /\ info.dense <= MaxChunks(info)
        /\ SparseInv
    BY <1>9 DEF WorldInv, InfoInv
  <2>3. MaxChunks(info) \in 0 .. Word - 1 /\ info.dense \in Nat
    <3>1. info.world[1] \in Nat /\ info.world[2] \in Nat /\ info.world[3] \in Nat /\ info.dense \in Nat
      BY <2>2 DEF IsInfo
    <3>2. info.world[1] * info.world[2] \in Nat
      BY <3>1
    <3>3. Volume(info.world) \in Nat
      <4> DEFINE area == info.world[1] * info.world[2]
      <4>1. area \in Nat
        BY <3>2
      <4> HIDE DEF area
      <4>2. area * info.world[3] \in Nat
        BY <3>1, <4>1
      <4> QED
        BY <4>2 DEF Volume, area
    <3>4. MaxChunks(info) \in 0 .. Word - 1
      <4> DEFINE v == Volume(info.world)
      <4>1. v \in Nat /\ MaxChunks(info) = v % Word
        BY <3>3 DEF MaxChunks
      <4> HIDE DEF v
      <4> QED
        BY <4>1, Bases
    <3> QED
      BY <3>1, <3>4
  <2>4. c0 \in DOMAIN sparse /\ d0 \in 0 .. info.dense - 1 /\ d0 # NoChunk
    <3> DEFINE m == MaxChunks(info)
               d == info.dense
    <3>1. /\ c0 \in 0 .. Word - 1 /\ d0 \in 0 .. Word - 1 /\ ~(c0 >= m) /\ ~(d0 >= d)
          /\ m \in 0 .. Word - 1 /\ d \in Nat /\ d <= m /\ Word \in Nat
      BY <1>7, <1>8, <2>1, <2>2, <2>3, Bases
    <3> HIDE DEF m, d
    <3>2. c0 \in 0 .. m - 1 /\ d0 \in 0 .. d - 1 /\ d0 # Word - 1
      BY <3>1
    <3> QED
      BY <2>2, <3>2 DEF m, d, NoChunk
  <2>5. InfoInv'
    <3>1. InfoInv /\ found >= 1
      BY <1>2 DEF WorldInv
    <3>2. DOMAIN sparse' = DOMAIN sparse
      BY <2>1
    <3>3. /\ elements[1].id = WORLD_INFO
          /\ info = Info(elements[1].data, TopLevel(elements[1].data))
          /\ IsInfo(info) /\ info.dense <= MaxChunks(info) /\ DOMAIN sparse = 0 .. MaxChunks(info) - 1
      BY <1>9, <3>1 DEF InfoInv
    <3>4. found' >= 1 /\ elements' = elements /\ info' = info
      BY <1>1, <3>1
    <3> QED
      BY <3>2, <3>3, <3>4 DEF InfoInv
  <2>6. PairsInv'
    <3>1. elem' = ElementWindow(elements, found, elem'.bufpos) /\ elem'.bufpos \in 0 .. Len(data) /\ elem'.bufpos % 8 = 0
      BY <1>5, <1>6
    <3> QED
      BY <1>1, <1>2, <3>1 DEF PairsInv
  <2>7. \A i \in 1 .. found : i # found => PairsIn(i)' = PairsIn(i)
    BY <1>1 DEF PairsIn
  <2>8. PairsIn(found) = n - 1
    BY <1>1, <1>2, <1>5, <1>a DEF PairsIn
  <2>9. PairsIn(found)' = n
    BY <1>1, <1>2, <1>12, <1>15 DEF PairsIn
  <2>10. PairAt(found, n) = [chunk |-> c0, dense |-> d0]
    BY <1>7, <1>8 DEF PairAt
  <2>11. SparseInv'
    BY <1>1, <1>5, <1>9, <2>1, <2>2, <2>4, <2>7, <2>8, <2>9, <2>10, PairRead
  <2> QED
    BY <1>11, <1>13, <2>5, <2>6, <2>11 DEF WorldInv
<1> QED
  BY <1>14, <1>15

LEMMA EndPairsKeeps == WorldInv /\ EndPairs => WorldInv'
<1> SUFFICES ASSUME WorldInv, EndPairs PROVE WorldInv'
  OBVIOUS
<1>1. /\ load = "pairs" /\ load' = "elements" /\ KpbRemainder(elem) <= 0
      /\ UNCHANGED <<elements, file, found, top, elem, info, sparse>>
  BY DEF EndPairs
<1>2. FileInv' /\ PlaceInv'
  BY <1>1, PlaceKept
<1>3. found \in Nat /\ Reading
  BY <1>1 DEF WorldInv, PlaceInv, Reading
<1>4. InfoInv'
  BY <1>1, <1>3 DEF WorldInv, InfoInv, Reading
<1>5. elem.bufpos = Len(elements[found].data)
  <2>1. /\ found \in 1 .. Len(elements) /\ elem = ElementWindow(elements, found, elem.bufpos)
        /\ elem.bufpos \in 0 .. Len(elements[found].data) /\ elements \in Seq(FileElements)
    BY <1>1 DEF WorldInv, PairsInv, FileInv
  <2>2. elem.bufend = Len(elements[found].data)
    BY <2>1 DEF ElementWindow, Window
  <2>3. Len(elements[found].data) \in Nat
    BY <2>1, ElementParts
  <2> QED
    BY <1>1, <2>1, <2>2, <2>3 DEF KpbRemainder
<1>6. SparseInv'
  <2>1. found' \in Nat /\ found <= found'
    BY <1>1, <1>3
  <2>2. \A i \in 1 .. found : PairsIn(i)' = PairsIn(i)
    BY <1>1, <1>5 DEF PairsIn
  <2>3. \A i \in 1 .. found' : i > found => PairsIn(i)' = 0
    BY <1>1, <1>3
  <2> QED
    BY <1>1, <1>3, <2>1, <2>2, <2>3, NothingRead
<1>7. PairsInv' /\ EndInv'
  BY <1>1 DEF PairsInv, EndInv
<1> QED
  BY <1>2, <1>4, <1>6, <1>7 DEF WorldInv

LEMMA EndFileKeeps == WorldInv /\ EndFile => WorldInv'
<1> SUFFICES ASSUME WorldInv, EndFile PROVE WorldInv'
  OBVIOUS
<1>1. /\ load = "elements" /\ ~NextElement(file, top).ok
      /\ load' \in {"loaded", "inconsistent"}
      /\ UNCHANGED <<elements, file, found, top, elem, info, sparse>>
  BY DEF EndFile
<1>2. load' = "loaded" => KpbRemainder(top) = 0
  BY DEF EndFile, Consistent
<1>3. FileInv' /\ PlaceInv'
  BY <1>1, PlaceKept
<1>4. found \in Nat /\ Reading
  BY <1>1 DEF WorldInv, PlaceInv, Reading
<1>5. InfoInv'
  BY <1>1, <1>4 DEF WorldInv, InfoInv, Reading
<1>6. SparseInv'
  <2>1. found' \in Nat /\ found <= found'
    BY <1>1, <1>4
  <2>2. \A i \in 1 .. found : PairsIn(i)' = PairsIn(i)
    BY <1>1 DEF PairsIn
  <2>3. \A i \in 1 .. found' : i > found => PairsIn(i)' = 0
    BY <1>1, <1>4
  <2> QED
    BY <1>1, <1>4, <2>1, <2>2, <2>3, NothingRead
<1>7. NoMore(found)
  BY <1>1, ComesToNext
<1>8. load' = "loaded" => End(elements, found) = Len(file)
  <2>1. /\ top = Window(0, Len(file), 0, End(elements, found)) /\ found \in 0 .. Len(elements)
        /\ elements \in Seq(FileElements) /\ file \in Seq(Octet)
    BY <1>1 DEF WorldInv, PlaceInv, FileInv, InFile
  <2>2. top.bufend = Len(file) /\ top.bufpos = End(elements, found)
    BY <2>1 DEF Window
  <2>3. Len(file) \in Nat /\ End(elements, found) \in Nat
    BY <2>1, Ends
  <2> QED
    BY <1>2, <2>2, <2>3 DEF KpbRemainder
<1>9. EndInv'
  <2>1. NoMore(found)'
    BY <1>1, <1>7 DEF NoMore
  <2>2. load' = "loaded" => End(elements', found') = Len(file')
    BY <1>1, <1>8
  <2> QED
    BY <1>1, <2>1, <2>2 DEF EndInv
<1>10. PairsInv'
  BY <1>1 DEF PairsInv
<1> QED
  BY <1>3, <1>5, <1>6, <1>9, <1>10 DEF WorldInv

LEMMA NothingKeeps == WorldInv /\ UNCHANGED worldVars => WorldInv'
<1> SUFFICES ASSUME WorldInv, UNCHANGED worldVars PROVE WorldInv'
  OBVIOUS
<1>1. UNCHANGED <<load, elements, file, found, top, elem, info, sparse>>
  BY DEF worldVars
<1>2. FileInv' /\ PlaceInv'
  BY <1>1 DEF WorldInv, FileInv, PlaceInv
<1>3. InfoInv' /\ PairsInv'
  BY <1>1 DEF WorldInv, InfoInv, PairsInv, Reading
<1>4. SparseInv'
  <2>1. CASE Reading
    <3>1. found \in Nat /\ found' = found
      BY <1>1 DEF WorldInv, PlaceInv
    <3>2. \A i \in 1 .. found : PairsIn(i)' = PairsIn(i)
      BY <1>1 DEF PairsIn
    <3>3. \A i \in 1 .. found' : i > found => PairsIn(i)' = 0
      BY <3>1
    <3>4. found' \in Nat /\ found <= found'
      BY <3>1
    <3> QED
      BY <1>1, <2>1, <3>2, <3>3, <3>4, NothingRead
  <2>2. CASE ~Reading
    BY <1>1, <2>2 DEF SparseInv, Reading
  <2> QED
    BY <2>1, <2>2
<1>5. EndInv'
  BY <1>1 DEF WorldInv, EndInv, PairAt, NoMore
<1> QED
  BY <1>2, <1>3, <1>4, <1>5 DEF WorldInv

(* The loader always knows where it is in the file, and what it has read   *)
(* of it is in the table of chunks.                                        *)
LEMMA WorldInvHolds == WorldSpec => []WorldInv
<1>1. WorldInit => WorldInv
  BY WorldIsInit
<1>2. WorldInv /\ [WorldNext]_worldVars => WorldInv'
  <2> SUFFICES ASSUME WorldInv, [WorldNext]_worldVars PROVE WorldInv'
    OBVIOUS
  <2>1. CASE WriteElement
    BY <2>1, WriteElementKeeps
  <2>2. CASE OpenFile
    BY <2>2, OpenFileKeeps
  <2>3. CASE ReadInfo
    BY <2>3, ReadInfoKeeps
  <2>4. CASE PassElement
    BY <2>4, PassElementKeeps
  <2>5. CASE StartPairs
    BY <2>5, StartPairsKeeps
  <2>6. CASE ReadPair
    BY <2>6, ReadPairKeeps
  <2>7. CASE EndPairs
    BY <2>7, EndPairsKeeps
  <2>8. CASE EndFile
    BY <2>8, EndFileKeeps
  <2>9. CASE UNCHANGED worldVars
    BY <2>9, NothingKeeps
  <2> QED
    BY <2>1, <2>2, <2>3, <2>4, <2>5, <2>6, <2>7, <2>8, <2>9 DEF WorldNext
<1> QED
  BY <1>1, <1>2, PTL DEF WorldSpec

-----------------------------------------------------------------------------
(***************************************************************************)
(* WHAT THE LOADER PROMISES.                                               *)
(***************************************************************************)
LEMMA SparseHolds == WorldInv => SparseAsWritten
<1> SUFFICES ASSUME WorldInv PROVE SparseAsWritten
  OBVIOUS
<1>1. ASSUME Reading
      PROVE  /\ info = Info(elements[1].data, TopLevel(elements[1].data))
             /\ DOMAIN sparse = 0 .. MaxChunks(info) - 1 /\ IsInfo(info)
             /\ \A c \in DOMAIN sparse : Placed(c)
  BY <1>1 DEF WorldInv, InfoInv, SparseInv
<1>2. ASSUME Reading, NEW c \in DOMAIN sparse
      PROVE  IF sparse[c] = NoChunk
             THEN \A i \in 1 .. found : \A j \in 1 .. PairsIn(i) : PairAt(i, j).chunk # c
             ELSE sparse[c] < info.dense /\ PlaceOf(c, sparse[c])
  <2>1. Placed(c) /\ info.dense \in Nat
    BY <1>1, <1>2 DEF IsInfo
  <2>2. CASE sparse[c] = NoChunk
    BY <2>1, <2>2 DEF Placed
  <2>3. CASE sparse[c] # NoChunk
    <3>1. sparse[c] \in 0 .. info.dense - 1 /\ PlaceOf(c, sparse[c])
      BY <2>1, <2>3 DEF Placed
    <3>2. sparse[c] < info.dense
      BY <2>1, <3>1
    <3> QED
      BY <2>3, <3>1, <3>2
  <2> QED
    BY <2>2, <2>3
<1>3. /\ load = "chunk index" => PairAt(found, elem.bufpos \div 8).chunk >= MaxChunks(info)
      /\ load = "dense index" => PairAt(found, elem.bufpos \div 8).dense >= info.dense
  BY DEF WorldInv, EndInv
<1> QED
  BY <1>1, <1>2, <1>3 DEF SparseAsWritten

LEMMA EndsHold == WorldInv => EndsNoticed
<1> SUFFICES ASSUME WorldInv PROVE EndsNoticed
  OBVIOUS
<1>1. \A n : ElementsEnd(n) = End(elements, n)
  BY DEF ElementsEnd, End
<1>2. /\ load = "no element" => NoMore(0)
      /\ load \in {"loaded", "inconsistent"} => NoMore(found)
      /\ load = "loaded" => End(elements, found) = Len(file)
  BY DEF WorldInv, EndInv
<1>3. \A n : NoMore(n) <=> (n = Len(elements) \/ ElementsEnd(n + 1) > Len(file))
  BY <1>1 DEF NoMore
<1> HIDE DEF NoMore, ElementsEnd
<1>4. load = "loaded" => ElementsEnd(found) = Len(file)
  BY <1>1, <1>2
<1>5. /\ load = "no element" => (0 = Len(elements) \/ ElementsEnd(0 + 1) > Len(file))
      /\ load \in {"loaded", "inconsistent"} => (found = Len(elements) \/ ElementsEnd(found + 1) > Len(file))
  BY <1>2, <1>3
<1> QED
  BY <1>4, <1>5 DEF EndsNoticed

(* world.cc and file.hh: whatever elements a world file was made of and    *)
(* wherever it is cut off, the loader puts the chunks where the file says  *)
(* and notices the end.  While volumes fit 32 bits, no two positions share *)
(* place and index.  The loader never sets the field num_tiles_per_chunk:  *)
(* tiles are apart if it happens to hold at least the volume of a chunk,   *)
(* and with any smaller value every chunk that is there runs over its part *)
(* of dense_array.                                                         *)
THEOREM WorldIsAsWritten == WorldSpec => []WorldAsWritten
<1>1. WorldInv => TilesByField
  <2> SUFFICES ASSUME WorldInv, Reading, Sized PROVE TilesByField
    BY DEF TilesByField
  <2>1. /\ IsInfo(info) /\ DOMAIN sparse = 0 .. MaxChunks(info) - 1
        /\ \A c \in DOMAIN sparse : Placed(c)
    BY DEF WorldInv, InfoInv, SparseInv
  <2>2. \A c \in DOMAIN sparse : sparse[c] = NoChunk \/ sparse[c] \in 0 .. info.dense - 1
    BY <2>1 DEF Placed
  <2>3. Places
    BY <2>1, <2>2 DEF Places, IsInfo
  <2>4. ASSUME NEW field \in FieldValues
        PROVE  IF field >= Volume(info.chunk) THEN TilesSeparate(field) ELSE TilesRunOver(field)
    <3>1. field \in Nat
      BY WorldAssumption
    <3> QED
      BY <2>3, <3>1, TilesAreSeparate, TilesDoRunOver
  <2> QED
    BY <2>3, <2>4, PositionsAreDistinct DEF TilesByField
<1>2. WorldInv => WorldAsWritten
  BY <1>1, SparseHolds, EndsHold DEF WorldAsWritten
<1> QED
  BY <1>2, WorldInvHolds, PTL

=============================================================================
