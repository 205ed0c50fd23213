------------------------------ MODULE OtbItems ------------------------------
(***************************************************************************)
(* otb_list.cc: the listing of an OTB file of item types.  A file is the   *)
(* sequence of its bytes.  Integers of 4 bytes are kept as their bytes.    *)
(***************************************************************************)
EXTENDS Integers, Sequences
LOCAL INSTANCE TLC

ESCAPE     == 253
NODE_START == 254
NODE_END   == 255

GROUP_NONE         == 0
CLIENT_VERSION_870 == <<23, 0, 0, 0>>

SERVER_ID == 16
CLIENT_ID == 17
SPEED     == 20
LIGHT2    == 42
TOP_ORDER == 43

-----------------------------------------------------------------------------
(* The file without its escape bytes: an escape byte stands for the byte   *)
(* behind it, and for nothing at the very end.                             *)

(* Mutant: the byte behind an escape byte is looked at again.              *)
UnescapedTwice(file) ==
  LET n == Len(file)
      From[i \in 1 .. n + 1] ==
        IF i > n \/ (i = n /\ file[i] = ESCAPE) THEN <<>>
        ELSE IF file[i] = ESCAPE THEN From[i + 1]
        ELSE <<file[i]>> \o From[i + 1]
  IN  From[1]

Unescaped(file) ==
  LET n == Len(file)
      From[i \in 1 .. n + 1] ==
        IF i > n \/ (i = n /\ file[i] = ESCAPE) THEN <<>>
        ELSE IF file[i] = ESCAPE THEN <<file[i + 1]>> \o From[i + 2]
        ELSE <<file[i]>> \o From[i + 1]
  IN  From[1]

-----------------------------------------------------------------------------
(* The reader.  b is the unescaped file and p the position; every reader   *)
(* moves p on by the size of what it reads, whether that is there or not.  *)

Ok(b, p) == p <= Len(b)

CanRead(b, p, n) == Len(b) - p >= n

ReadU8(b, p) == IF CanRead(b, p, 1) THEN b[p + 1] ELSE 0

ReadU16(b, p) == IF CanRead(b, p, 2) THEN b[p + 1] + 256 * b[p + 2] ELSE 0

ReadU32(b, p) == IF CanRead(b, p, 4) THEN SubSeq(b, p + 1, p + 4) ELSE <<0, 0, 0, 0>>

-----------------------------------------------------------------------------
(* The start of the file up to the versions.                               *)
HeaderOk(b) ==
  /\ ReadU32(b, 0) = <<0, 0, 0, 0>>
  /\ ReadU8(b, 4) = NODE_START
  /\ ReadU8(b, 5) = GROUP_NONE
  /\ ReadU32(b, 6) = <<0, 0, 0, 0>>
  /\ ReadU8(b, 10) = 1
  /\ ReadU16(b, 11) = 140

(* One version that is known is enough.                                    *)
VersionOk(b) ==
  \/ ReadU32(b, 13) = <<3, 0, 0, 0>>
  \/ ReadU32(b, 17) = CLIENT_VERSION_870

FirstItem == 13 + 12 + 128

(* The attributes that are looked into, with the size each must have.      *)
SizeOf == (SERVER_ID :> 2) @@ (CLIENT_ID :> 2) @@ (SPEED :> 2)
          @@ (LIGHT2 :> 4) @@ (TOP_ORDER :> 1)

(* What is shown of an attribute whose data is at p: its value, or its     *)
(* size if it is not looked into.                                          *)
AttributeAt(b, p, id, size) ==
  [id    |-> id,
   value |-> CASE id \in {SERVER_ID, CLIENT_ID, SPEED} -> <<ReadU16(b, p)>>
               [] id = LIGHT2 -> <<ReadU16(b, p), ReadU16(b, p + 2)>>
               [] id = TOP_ORDER -> <<ReadU8(b, p)>>
               [] OTHER -> <<size>>]

(* The attributes of an item from p on, until its end or that of the file. *)
RECURSIVE Attributes(_, _, _)
Attributes(b, p, shown) ==
  LET id     == ReadU8(b, p)
      size   == ReadU16(b, p + 1)
      result == [pos |-> p, attributes |-> shown, refused |-> FALSE]
  IN  IF ~Ok(b, p) THEN result
      ELSE IF id = NODE_END THEN [result EXCEPT !.pos = p + 1]
      ELSE IF id \in DOMAIN SizeOf /\ size # SizeOf[id]
      THEN [result EXCEPT !.refused = TRUE]
      ELSE Attributes(b, p + 3 + size, Append(shown, AttributeAt(b, p + 3, id, size)))

RECURSIVE Items(_, _, _)
Items(b, p, shown) ==
  LET attributes == Attributes(b, p + 6, <<>>)
      item == [type       |-> ReadU8(b, p + 1),
               flags      |-> ReadU32(b, p + 2),
               attributes |-> attributes.attributes]
  IN  IF ReadU8(b, p) # NODE_START \/ ~Ok(b, p + 1)
      THEN [pos |-> p + 1, items |-> shown, refused |-> FALSE]
      ELSE IF attributes.refused
      THEN [pos |-> attributes.pos, items |-> shown, refused |-> TRUE]
      ELSE Items(b, attributes.pos, Append(shown, item))

(* The whole file was read and its last byte ends the root.                *)
EndsWell(b, pos) == pos = Len(b) /\ b[pos] = NODE_END

(* The tool's result, and what it has listed.                              *)
ListOtb(file) ==
  LET b    == Unescaped(file)
      read == Items(b, FirstItem, <<>>)
  IN  IF ~HeaderOk(b) THEN [result |-> "format", items |-> <<>>]
      ELSE IF ~VersionOk(b) THEN [result |-> "version", items |-> <<>>]
      ELSE [result |-> IF read.refused THEN "refused"
                       ELSE IF EndsWell(b, read.pos) THEN "listed"
                       ELSE "unexpected ending",
            items  |-> read.items]

=============================================================================
