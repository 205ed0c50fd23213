------------------------------- MODULE World --------------------------------
(***************************************************************************)
(* world.cc: the loader of a world file, and the tile at a position.  A    *)
(* world is divided into chunks of equal extent; only some of them, the    *)
(* dense ones, have tiles.  A tile is its index in dense_array.  The file  *)
(* was written element by element, and may end before it should.           *)
(***************************************************************************)
EXTENDS KpbElements

CONSTANTS
  WORLD_INFO, WORLD_SPARSE_DATA,    \* the ids the loader looks for
  FileElements,                     \* what an element of a file may be
  MaxElements,                      \* bound: elements of a file
  FieldValues                       \* what the field num_tiles_per_chunk may hold: nothing
                                    \* sets it (the loader sets a variable of that name)

ASSUME WorldAssumption ==
  /\ WORLD_INFO \in 0 .. Word - 1 /\ WORLD_SPARSE_DATA \in 0 .. Word - 1
  /\ WORLD_INFO # WORLD_SPARSE_DATA
  /\ \A e \in FileElements : e \in [id : 0 .. Word - 1, data : Seq(Octet)]
  /\ MaxElements \in Nat /\ FieldValues \subseteq 0 .. Word - 1

VARIABLES
  load,         \* "writing", "opening", "elements", "pairs", "loaded", or why it panics
  elements,     \* what was written
  file,         \* its bytes, as far as they are there
  found,        \* history: how many elements the loader has come to
  top,          \* the file as an element
  elem,         \* the element it is in
  info,         \* what the info element says
  sparse        \* sparse_array

worldVars == <<load, elements, file, found, top, elem, info, sparse>>

NoChunk == Word - 1

-----------------------------------------------------------------------------
(* An element as a converter writes it.                                    *)
Written(e) == WriteLE(e.id, 4) \o WriteLE(Len(e.data), 4) \o e.data

(* The info element as a record.  The versions are read and not looked at. *)
Info(file_, elem_) ==
  LET field(i, size) == KpbReadInt(file_, KpbSkip(elem_, i), size)
  IN  [chunk   |-> <<field(6, 2), field(8, 2), field(10, 1)>>,
       world   |-> <<field(11, 2), field(13, 2), field(15, 1)>>,
       dense   |-> field(16, 4),
       pairs   |-> field(20, 4),
       spawns  |-> field(24, 4),
       temples |-> field(28, 4)]

Volume(dim) == dim[1] * dim[2] * dim[3]

(* max_chunks: a product of three extents, in 32 bits.                     *)
MaxChunks(of) == Volume(of.world) % Word

(* The counters of what was read are never counted up, so every count the  *)
(* info gives must be 0 in the end.                                        *)
Consistent ==
  KpbRemainder(top) = 0 /\ {info.dense, info.pairs, info.spawns, info.temples} = {0}

-----------------------------------------------------------------------------
WorldInit ==
  /\ load = "writing"
  /\ elements = <<>> /\ file = <<>>
  /\ found = 0
  /\ top = TopLevel(<<>>) /\ elem = TopLevel(<<>>)
  /\ info = Info(<<>>, TopLevel(<<>>))
  /\ sparse = <<>>

(* The size of a file is an i32.                                           *)
WriteElement ==
  /\ load = "writing"
  /\ Len(elements) < MaxElements
  /\ \E e \in FileElements :
       /\ 2 * Len(file \o Written(e)) < Word
       /\ elements' = Append(elements, e)
       /\ file' = file \o Written(e)
  /\ UNCHANGED <<load, found, top, elem, info, sparse>>

(* Only the first n bytes of the file are there.                           *)
OpenFile ==
  /\ load = "writing"
  /\ \E n \in 0 .. Len(file) : file' = SubSeq(file, 1, n)
  /\ top' = TopLevel(file')
  /\ load' = "opening"
  /\ UNCHANGED <<elements, found, elem, info, sparse>>

(* What becomes of the loader when it has looked for the info.             *)
InfoChecked(first) ==
  LET data == Info(file, first.elem)
  IN  IF ~first.ok THEN "no element"
      ELSE IF first.elem.elem_id # WORLD_INFO THEN "no info"
      ELSE IF KpbRemainder(first.elem) # 32 THEN "info size"
      ELSE IF data.dense > MaxChunks(data) THEN "too many chunks"
      ELSE "elements"

ReadInfo ==
  /\ load = "opening"
  /\ LET first == NextElement(file, top)
     IN  /\ load' = InfoChecked(first)
         /\ IF load' = "elements"
            THEN /\ top' = first.parent /\ elem' = KpbSkip(first.elem, 32)
                 /\ found' = 1
                 /\ info' = Info(file, first.elem)
                 /\ sparse' = [c \in 0 .. MaxChunks(info') - 1 |-> NoChunk]
            ELSE UNCHANGED <<top, elem, found, info, sparse>>
  /\ UNCHANGED <<elements, file>>

(* The loop over the elements comes to the next.                           *)
ComeTo(next) ==
  /\ load = "elements"
  /\ next.ok
  /\ top' = next.parent /\ elem' = next.elem
  /\ found' = found + 1
  /\ UNCHANGED <<elements, file, info, sparse>>

(* Tiles, spawns and temples are not read yet.                             *)
PassElement ==
  LET next == NextElement(file, top)
  IN  /\ ComeTo(next)
      /\ next.elem.elem_id # WORLD_SPARSE_DATA
      /\ UNCHANGED load

StartPairs ==
  LET next == NextElement(file, top)
  IN  /\ ComeTo(next)
      /\ next.elem.elem_id = WORLD_SPARSE_DATA
      /\ load' = IF KpbRemainder(next.elem) % 8 # 0 THEN "half a pair" ELSE "pairs"

ReadPair ==
  /\ load = "pairs"
  /\ KpbRemainder(elem) > 0
  /\ LET chunk_index == KpbReadInt(file, elem, 4)
         dense_index == KpbReadInt(file, KpbSkip(elem, 4), 4)
     IN  /\ load' = IF chunk_index >= MaxChunks(info) THEN "chunk index"
                    ELSE IF dense_index >= info.dense THEN "dense index" ELSE "pairs"
         /\ sparse' = IF load' = "pairs" THEN [sparse EXCEPT ![chunk_index] = dense_index]
                      ELSE sparse
  /\ elem' = KpbSkip(elem, 8)
  /\ UNCHANGED <<elements, file, found, top, info>>

EndPairs ==
  /\ load = "pairs"
  /\ KpbRemainder(elem) <= 0
  /\ load' = "elements"
  /\ UNCHANGED <<elements, file, found, top, elem, info, sparse>>

EndFile ==
  /\ load = "elements"
  /\ ~NextElement(file, top).ok
  /\ load' = IF Consistent THEN "loaded" ELSE "inconsistent"
  /\ UNCHANGED <<elements, file, found, top, elem, info, sparse>>

WorldNext ==
  WriteElement \/ OpenFile \/ ReadInfo \/ PassElement \/ StartPairs \/ ReadPair \/ EndPairs \/ EndFile

WorldSpec == WorldInit /\ [][WorldNext]_worldVars

-----------------------------------------------------------------------------
(* world_get_tile *)

(* The index of a position in a box of the given extents.                  *)
IndexIn(dim, at) == (at[3] * (dim[1] * dim[2]) + at[2] * dim[1] + at[1]) % Word

(* Mutant: the extents are taken in the wrong order.                       *)
TileIndexTurned(pos) ==
  IndexIn(<<info.chunk[2], info.chunk[1], info.chunk[3]>>, [i \in 1 .. 3 |-> pos[i] % info.chunk[i]])

TileIndex(pos) == IndexIn(info.chunk, [i \in 1 .. 3 |-> pos[i] % info.chunk[i]])

NULL      == -1
Undefined == -2

ChunkAt(pos) == [i \in 1 .. 3 |-> pos[i] \div info.chunk[i]]

(* The tile at pos, or NULL.  A chunk one behind an extent passes the      *)
(* check; its entry is another chunk's or lies behind the array.           *)
GetTile(num_tiles_per_chunk, pos) ==
  LET at    == ChunkAt(pos)
      entry == IndexIn(info.world, at)
  IN  IF \E i \in 1 .. 3 : at[i] > info.world[i] THEN NULL
      ELSE IF entry \notin DOMAIN sparse THEN Undefined
      ELSE IF sparse[entry] = NoChunk THEN NULL
      ELSE sparse[entry] * num_tiles_per_chunk + TileIndex(pos)

-----------------------------------------------------------------------------
(* Where element n of the file ends.                                       *)
ElementsEnd(n) ==
  LET end[i \in 0 .. Len(elements)] ==
        IF i = 0 THEN 0 ELSE end[i - 1] + 8 + Len(elements[i].data)
  IN  end[n]

(* Pair j of element i, and which of them the loader has read.             *)
PairAt(i, j) ==
  LET data == elements[i].data
  IN  [chunk |-> ReadLE(SubSeq(data, 8 * j - 7, 8 * j - 4)),
       dense |-> ReadLE(SubSeq(data, 8 * j - 3, 8 * j))]

PairsIn(i) ==
  IF elements[i].id # WORLD_SPARSE_DATA THEN 0
  ELSE IF i = found /\ load = "pairs" THEN elem.bufpos \div 8
  ELSE Len(elements[i].data) \div 8

Later(i, j, k, l) == k > i \/ (k = i /\ l > j)

(* A chunk has the place the last pair gives it that names it.             *)
PlaceOf(c, place) ==
  \E i \in 1 .. found : \E j \in 1 .. PairsIn(i) :
    /\ PairAt(i, j) = [chunk |-> c, dense |-> place]
    /\ \A k \in 1 .. found : \A l \in 1 .. PairsIn(k) :
         Later(i, j, k, l) => PairAt(k, l).chunk # c

Reading == load \in {"elements", "pairs", "loaded", "inconsistent"}

SparseAsWritten ==
  /\ Reading =>
       /\ info = Info(elements[1].data, TopLevel(elements[1].data))
       /\ DOMAIN sparse = 0 .. MaxChunks(info) - 1
       /\ \A c \in DOMAIN sparse :
            IF sparse[c] = NoChunk
            THEN \A i \in 1 .. found : \A j \in 1 .. PairsIn(i) : PairAt(i, j).chunk # c
            ELSE sparse[c] < info.dense /\ PlaceOf(c, sparse[c])
  /\ load = "chunk index" => PairAt(found, elem.bufpos \div 8).chunk >= MaxChunks(info)
  /\ load = "dense index" => PairAt(found, elem.bufpos \div 8).dense >= info.dense

(* The loader goes on to the last element that is all there, and accepts   *)
(* the file only if nothing is behind that.                                *)
EndsNoticed ==
  LET last(n) == n = Len(elements) \/ ElementsEnd(n + 1) > Len(file)
  IN  /\ load = "no element" => last(0)
      /\ load \in {"loaded", "inconsistent"} => last(found)
      /\ load = "loaded" => ElementsEnd(found) = Len(file)

(* The positions in the world.                                             *)
Extent(i) == info.chunk[i] * info.world[i]

Positions == (0 .. Extent(1) - 1) \X (0 .. Extent(2) - 1) \X (0 .. Extent(3) - 1)

(* The volumes fit 32 bits.                                                *)
Sized == Volume(info.chunk) < Word /\ Volume(info.world) < Word

Shared ==
  \E c, d \in DOMAIN sparse : c # d /\ sparse[c] = sparse[d] /\ sparse[c] # NoChunk

PlaceAt(pos) == sparse[IndexIn(info.world, ChunkAt(pos))]

(* Whatever the field holds, no position in the world leads behind         *)
(* sparse_array or behind the tiles of a chunk, and place and index are    *)
(* those of one position only while no two chunks were given one place.    *)
PositionsDistinct ==
  /\ \A pos \in Positions :
       IndexIn(info.world, ChunkAt(pos)) \in DOMAIN sparse /\ TileIndex(pos) < Volume(info.chunk)
  /\ ~Shared => \A pos, other \in Positions :
       /\ PlaceAt(pos) # NoChunk
       /\ PlaceAt(pos) = PlaceAt(other) /\ TileIndex(pos) = TileIndex(other)
       => pos = other

(* No position leads behind dense_array, and no two share a tile.          *)
TilesSeparate(field) ==
  /\ \A pos \in Positions : GetTile(field, pos) \in {NULL} \union 0 .. info.dense * field - 1
  /\ ~Shared => \A pos, other \in Positions :
       GetTile(field, pos) = GetTile(field, other) /\ GetTile(field, pos) # NULL => pos = other

(* The arguments of world_get_tile can name every position in the world.   *)
Askable == Extent(1) <= Values(2) /\ Extent(2) <= Values(2) /\ Extent(3) <= Values(1)

(* Every chunk that has a place has a tile behind its part of dense_array: *)
(* in the part of the next place, or behind the array.                     *)
TilesRunOver(field) ==
  Askable => \A pos \in Positions : GetTile(field, pos) # NULL =>
    \E other \in Positions :
      ChunkAt(other) = ChunkAt(pos) /\ GetTile(field, other) >= (PlaceAt(pos) + 1) * field

(* A field that is at least the volume of a chunk keeps the tiles apart,   *)
(* any smaller one does not; the loader sees to neither.                   *)
TilesByField ==
  Reading /\ Sized =>
    /\ PositionsDistinct
    /\ \A field \in FieldValues :
         IF field >= Volume(info.chunk) THEN TilesSeparate(field) ELSE TilesRunOver(field)

(* world.cc and file.hh: the loader puts the chunks where the file says,   *)
(* and finds the pairs that point outside and the end of a file that is    *)
(* cut off.  While volumes fit 32 bits and no place is given twice,        *)
(* world_get_tile takes every position to a chunk's place and an index that*)
(* are its own, but to a tile of its own only if the field                 *)
(* num_tiles_per_chunk, which the loader never sets, happens to hold at    *)
(* least the volume of a chunk.  With any smaller value, such as 0, every  *)
(* chunk that is there has a tile outside its part of dense_array (if the  *)
(* arguments can name every position in the world).                        *)
WorldAsWritten == SparseAsWritten /\ EndsNoticed /\ TilesByField

=============================================================================
