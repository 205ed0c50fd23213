---------------------------- MODULE KpbElements -----------------------------
(***************************************************************************)
(* file.hh: a file of elements, each an id, a size and as many bytes.  An  *)
(* element is a window of the file: buf is where its bytes start, bufend   *)
(* and bufpos count from there.                                            *)
(***************************************************************************)
EXTENDS Buffers

(* A number of 32 bits without a sign, taken for one with a sign.          *)
AsI32(x) ==
  LET u == x % Word
  IN  IF 2 * u >= Word THEN u - Word ELSE u

Element(buf, bufend, id) == [buf |-> buf, bufend |-> bufend, bufpos |-> 0, elem_id |-> id]

TopLevel(file) == Element(0, Len(file), 0)

KpbRemainder(elem) == elem.bufend - elem.bufpos

KpbCanRead(elem, n) == elem.bufend - elem.bufpos >= n

(* The n bytes of file that are i behind elem's position.                  *)
BytesAt(file, elem, i, n) ==
  LET first == elem.buf + elem.bufpos + i + 1
  IN  SubSeq(file, first, first + n - 1)

(* The integer of n bytes that kpb_element_read_u8 .. _u64 returns; the    *)
(* element is KpbSkip(elem, n) afterwards, in either case.                 *)
KpbReadInt(file, elem, n) == IF KpbCanRead(elem, n) THEN ReadLE(BytesAt(file, elem, 0, n)) ELSE 0

KpbSkip(elem, n) == [elem EXCEPT !.bufpos = @ + n]

(* kpb_next_element: the element at parent's position, and parent behind   *)
(* it; or none, and parent where it was, if it is not all there.           *)
NextElement(file, parent) ==
  LET id   == ReadLE(BytesAt(file, parent, 0, 4))
      size == ReadLE(BytesAt(file, parent, 4, 4))
  IN  IF ~KpbCanRead(parent, 8) \/ ~KpbCanRead(parent, AsI32(size + 8))
      THEN [ok |-> FALSE, parent |-> parent]
      ELSE [ok     |-> TRUE,
            parent |-> [parent EXCEPT !.bufpos = AsI32(@ + size + 8)],
            elem   |-> Element(parent.buf + parent.bufpos + 8, AsI32(size), id)]

=============================================================================
