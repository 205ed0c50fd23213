----------------------------- MODULE OtbmWriter -----------------------------
(***************************************************************************)
(* OTBM files as a map editor writes them, and what OtbmElements must find *)
(* in them.                                                                *)
(***************************************************************************)
EXTENDS OtbmElements
LOCAL INSTANCE SequencesExt
LOCAL INSTANCE FiniteSetsExt

Magic == <<0, 0, 0, 0>>

Escaped(bytes) ==
  FlattenSeq([i \in DOMAIN bytes |-> IF bytes[i] >= ESCAPE THEN <<ESCAPE, bytes[i]>> ELSE <<bytes[i]>>])

-----------------------------------------------------------------------------
(* Any tree of elements.  Its parts are the start and the end of a child   *)
(* and bytes of attributes, which come before the children; the root and   *)
(* what is still open in the end are ended by the writer.                  *)
Start == [part |-> "start"]

End == [part |-> "end"]

Attribute(byte) == [part |-> "byte", byte |-> byte]

(* How many elements are open before part n, without the root.             *)
Depth(parts, n) ==
  Cardinality({i \in 1 .. n - 1 : parts[i] = Start}) - Cardinality({i \in 1 .. n - 1 : parts[i] = End})

Fits(parts, part) ==
  /\ part = End => Depth(parts, Len(parts) + 1) > 0
  /\ part.part = "byte" /\ parts # <<>> => Last(parts) # End

PartBytes(part) ==
  CASE part.part = "start" -> <<ELEMENT_START, 6>>
    [] part.part = "end"   -> <<ELEMENT_END>>
    [] OTHER               -> Escaped(<<part.byte>>)

Tree(parts) ==
  Magic \o <<ELEMENT_START, 0>> \o FlattenSeq([i \in DOMAIN parts |-> PartBytes(parts[i])])
    \o [i \in 1 .. 1 + Depth(parts, Len(parts) + 1) |-> ELEMENT_END]

(* The attributes behind part n.                                           *)
AttributesBehind(parts, n) ==
  LET end == Min({i \in n + 1 .. Len(parts) : parts[i].part # "byte"} \union {Len(parts) + 1})
  IN  [i \in 1 .. end - n - 1 |-> parts[n + i].byte]

(* The elements below the root in the order they start in, each with its   *)
(* depth and its attributes.                                               *)
Children(parts) ==
  LET starts == SetToSortSeq({i \in DOMAIN parts : parts[i] = Start}, <)
  IN  [k \in DOMAIN starts |-> <<Depth(parts, starts[k]), AttributesBehind(parts, starts[k])>>]

(* The attributes of elem as they are in mem.                              *)
Contents(mem, elem) ==
  SubSeq(mem, elem.attributes.start + 1, elem.attributes.start + elem.attributes.end)

(* All that a reader finds who goes on from elem to its children, and to   *)
(* theirs before it goes on to the next.                                   *)
RECURSIVE Walk(_, _, _, _)
Walk(mem, elem, depth, seen) ==
  LET child  == NextChild(mem, elem)
      inside == Walk(child.mem, child.elem, depth + 1,
                     Append(seen, <<depth, Contents(child.mem, child.elem)>>))
  IN  IF ~child.ok THEN [mem |-> child.mem, seen |-> seen]
      ELSE Walk(inside.mem, [elem EXCEPT !.children = child.buf], depth, inside.seen)

(* The tree is read as it was written, although reading an element changes *)
(* the memory all others lie in.                                           *)
TreeRead(parts) ==
  LET root == Root(Tree(parts))
  IN  /\ root.ok
      /\ Contents(root.mem, root.elem) = AttributesBehind(parts, 0)
      /\ Walk(root.mem, root.elem, 0, <<>>).seen = Children(parts)

(* A file that ends early has no root, except if it ends in the attributes *)
(* of the root: then it has one, whose children nothing has set.           *)
TreeCutNoticed(parts) ==
  LET first == Len(Magic) + 2
      last  == first + Len(Escaped(AttributesBehind(parts, 0)))
  IN  \A n \in 0 .. Len(Tree(parts)) - 1 :
        Root(SubSeq(Tree(parts), 1, n)).ok => n \in first .. last

-----------------------------------------------------------------------------
(* A map as the listing expects it: a root of 16 bytes, and one child with *)
(* strings for attributes.                                                 *)
String(id, s) == [id |-> id, text |-> s]

RootBytes == <<253, 0, 0, 1, 255, 0, 0, 2, 3, 0, 0, 0, 254, 0, 0, 0>>

Map(strings) ==
  Magic \o <<ELEMENT_START, 0>> \o Escaped(RootBytes) \o <<ELEMENT_START, 2>>
    \o FlattenSeq([i \in DOMAIN strings |->
                     Escaped(<<strings[i].id, Len(strings[i].text), 0>> \o strings[i].text)])
    \o <<ELEMENT_END, ELEMENT_END>>

(* The listing has all strings up to the first of an unknown id, and ends  *)
(* before it if the file ends early.  (Behind the last byte of the root's  *)
(* attributes the listing depends on what was never set.)                  *)
MapRead(strings) ==
  LET list    == ListOtbm(Map(strings))
      unknown == {i \in DOMAIN strings : strings[i].id \notin {1, 11, 13}}
      known   == Min(unknown \union {Len(strings) + 1}) - 1
  IN  /\ list.result = IF unknown = {} THEN "listed" ELSE "unknown attribute"
      /\ list.root = <<<<253, 0, 0, 1>>, 255, 512, <<3, 0, 0, 0>>, <<254, 0, 0, 0>>>>
      /\ list.attributes = [i \in 1 .. known |-> <<strings[i].id, strings[i].text>>]
      /\ \A n \in 0 .. Len(Map(strings)) - 1 :
           n # 6 + Len(Escaped(RootBytes)) =>
             ListOtbm(SubSeq(Map(strings), 1, n)).result \in {"no root", "root size"}

=============================================================================
