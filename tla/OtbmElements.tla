---------------------------- MODULE OtbmElements ----------------------------
(***************************************************************************)
(* otbm_list.cc: elements of an OTBM file, each an id, attributes and      *)
(* children.  The file stays where it was read to, mem, and buffers are    *)
(* windows into it: start is the address of the first byte, end and pos    *)
(* count from there.  Attributes are unescaped in place when their element *)
(* is read, so reading changes mem.                                        *)
(***************************************************************************)
EXTENDS Integers, Sequences

ESCAPE        == 253
ELEMENT_START == 254
ELEMENT_END   == 255

MAP_DATA       == 2
DESCRIPTION    == 1
EXT_SPAWN_FILE == 11
EXT_HOUSE_FILE == 13

-----------------------------------------------------------------------------
(* OTB Buffer *)

Buf(start, end) == [start |-> start, end |-> end, pos |-> 0]

Remainder(b) == b.end - b.pos

CanRead(b, n) == b.end - b.pos >= n

Current(b) == b.start + b.pos

Skip(b, n) == [b EXCEPT !.pos = @ + n]

ReadU8(mem, b) == IF CanRead(b, 1) THEN mem[Current(b) + 1] ELSE 0

ReadU16(mem, b) ==
  IF CanRead(b, 2) THEN mem[Current(b) + 1] + 256 * mem[Current(b) + 2] ELSE 0

(* Four bytes, kept as they are.                                           *)
ReadU32(mem, b) ==
  IF CanRead(b, 4) THEN SubSeq(mem, Current(b) + 1, Current(b) + 4) ELSE <<0, 0, 0, 0>>

ReadString(mem, b, maxlen) ==
  LET len == ReadU16(mem, b)
      at  == Skip(b, 2)
  IN  IF len > 0 /\ maxlen > len /\ CanRead(at, len)
      THEN SubSeq(mem, Current(at) + 1, Current(at) + len) ELSE <<>>

SkipString(mem, b) == Skip(b, 2 + ReadU16(mem, b))

-----------------------------------------------------------------------------
(* OTB Element *)

(* otb_buf_unescaped: s without its escape bytes.                          *)
Plain(s) ==
  LET n == Len(s)
      From[i \in 1 .. n + 1] ==
        IF i > n \/ (i = n /\ s[i] = ESCAPE) THEN <<>>
        ELSE IF s[i] = ESCAPE THEN <<s[i + 1]>> \o From[i + 2]
        ELSE <<s[i]>> \o From[i + 1]
  IN  From[1]

(* Its effect on the bytes of mem from start up to before end: they are    *)
(* overwritten from the front, and what is too much stays behind.          *)
UnescapedInPlace(mem, start, end) ==
  LET plain == Plain(SubSeq(mem, start + 1, end))
  IN  [mem |-> [i \in DOMAIN mem |-> IF i - start \in DOMAIN plain
                                     THEN plain[i - start] ELSE mem[i]],
       buf |-> Buf(start, Len(plain))]

(* Mutant: an escape byte does not hide the byte behind it.                *)
RECURSIVE ScanAttributesBlindly(_, _, _)
ScanAttributesBlindly(mem, b, byte) ==
  LET next == ReadU8(mem, b)
  IN  IF Remainder(b) <= 0 THEN [buf |-> b, byte |-> byte]
      ELSE IF next \in {ELEMENT_START, ELEMENT_END} THEN [buf |-> Skip(b, 1), byte |-> next]
      ELSE ScanAttributesBlindly(mem, Skip(b, 1), next)

(* Past the attributes: behind the byte that starts the first child or     *)
(* ends the element, or at the end of the buffer.  byte is the last one    *)
(* that was looked at.                                                     *)
RECURSIVE ScanAttributes(_, _, _)
ScanAttributes(mem, b, byte) ==
  LET next == ReadU8(mem, b)
  IN  IF Remainder(b) <= 0 THEN [buf |-> b, byte |-> byte]
      ELSE IF next \in {ELEMENT_START, ELEMENT_END} THEN [buf |-> Skip(b, 1), byte |-> next]
      ELSE ScanAttributes(mem, Skip(b, IF next = ESCAPE THEN 2 ELSE 1), next)

(* Past the children: behind the byte that brings the depth to 0.          *)
RECURSIVE ScanChildren(_, _, _)
ScanChildren(mem, b, depth) ==
  LET next == ReadU8(mem, b)
  IN  IF Remainder(b) <= 0 \/ depth = 0 THEN [buf |-> b, depth |-> depth]
      ELSE IF next = ESCAPE THEN ScanChildren(mem, Skip(b, 2), depth)
      ELSE ScanChildren(mem, Skip(b, 1),
                        CASE next = ELEMENT_START -> depth + 1
                          [] next = ELEMENT_END   -> depth - 1
                          [] OTHER                -> depth)

(* The children of an element whose file ends before it says whether it    *)
(* has any: they are never set.                                            *)
Unset == Buf(0, -1)

(* otb_buf_read_element: the element at b's position.  b moves on only if  *)
(* there is one; mem has its attributes unescaped even so.                 *)
ReadElement(mem, b) ==
  LET head     == Skip(b, 2)
      scan     == ScanAttributes(mem, head, 0)
      first    == Current(scan.buf) - 1       \* attrib_end, children_start
      plain    == UnescapedInPlace(mem, Current(head), first)
      children == ScanChildren(plain.mem, scan.buf, 2)
      none     == [ok |-> FALSE, mem |-> mem, buf |-> b]
      elem(kids) == [elem_id |-> ReadU8(mem, Skip(b, 1)), attributes |-> plain.buf,
                     children |-> kids]
  IN  IF ReadU8(mem, b) # ELEMENT_START \/ Remainder(scan.buf) < 0 THEN none
      ELSE IF scan.byte = ELEMENT_START
      THEN IF children.depth # 0 THEN [none EXCEPT !.mem = plain.mem]
           ELSE [ok |-> TRUE, mem |-> plain.mem, buf |-> children.buf,
                 elem |-> elem(Buf(first, Current(children.buf) - 1 - first))]
      ELSE [ok |-> TRUE, mem |-> plain.mem, buf |-> scan.buf,
            elem |-> elem(IF scan.byte = ELEMENT_END THEN Buf(first, 0) ELSE Unset)]

(* otb_root: one element and nothing behind it, after four bytes of magic. *)
Root(file) ==
  LET read == ReadElement(file, Skip(Buf(0, Len(file)), 4))
  IN  [read EXCEPT !.ok = @ /\ Remainder(read.buf) = 0]

(* otb_element_next_child: buf is what is left of elem's children.         *)
NextChild(mem, elem) == ReadElement(mem, elem.children)

-----------------------------------------------------------------------------
(* OTBM List *)

(* The attributes of the map: strings with an id before each.              *)
RECURSIVE MapAttributes(_, _, _)
MapAttributes(mem, b, shown) ==
  LET attr == ReadU8(mem, b)
      at   == Skip(b, 1)
  IN  IF Remainder(b) <= 0 THEN [result |-> "listed", attributes |-> shown]
      ELSE IF attr \notin {DESCRIPTION, EXT_SPAWN_FILE, EXT_HOUSE_FILE}
      THEN [result |-> "unknown attribute", attributes |-> shown]
      ELSE MapAttributes(mem, SkipString(mem, at),
                         Append(shown, <<attr, ReadString(mem, at, 256)>>))

(* The attributes of the root: version, width, height and the versions of  *)
(* the items.                                                              *)
RootAttributes(mem, b) ==
  <<ReadU32(mem, b), ReadU16(mem, Skip(b, 4)), ReadU16(mem, Skip(b, 6)),
    ReadU32(mem, Skip(b, 8)), ReadU32(mem, Skip(b, 12))>>

(* The tool: the result, and what it has listed.                           *)
ListOtbm(file) ==
  LET root == Root(file)
      map  == NextChild(root.mem, root.elem)
      list == MapAttributes(map.mem, map.elem.attributes, <<>>)
      panic(why) == [result |-> why, root |-> <<>>, attributes |-> <<>>]
  IN  IF ~root.ok THEN panic("no root")
      ELSE IF Remainder(root.elem.attributes) # 16 THEN panic("root size")
      ELSE [result     |-> IF ~map.ok THEN "no map"
                           ELSE IF map.elem.elem_id # MAP_DATA THEN "not a map"
                           ELSE list.result,
            root       |-> RootAttributes(root.mem, root.elem.attributes),
            attributes |-> IF map.ok /\ map.elem.elem_id = MAP_DATA
                           THEN list.attributes ELSE <<>>]

=============================================================================
