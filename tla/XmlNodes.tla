------------------------------ MODULE XmlNodes ------------------------------
(***************************************************************************)
(* The parser of xml.cc: tags with attributes, read through a window of    *)
(* eight tokens, and the string helpers of otcvt/common.cc.  The window is *)
(* a circular buffer in the code and a queue here.                         *)
(***************************************************************************)
EXTENDS XmlLexer
LOCAL INSTANCE SequencesExt

CONSTANTS
  TagSize, KeySize, ValueSize,  \* sizes of the arrays for names and values
  MaxAttributes                 \* attributes there is room for in a node

Window == 8

-----------------------------------------------------------------------------
(* Strings; what does not fit into an array of `size' is cut off.          *)
Copied(s, size) == SubSeq(s, 1, IF Len(s) < size THEN Len(s) ELSE size - 1)

AsLower(s, size) ==
  [i \in DOMAIN Copied(s, size) |-> IF s[i] \in DOMAIN LowerOf THEN LowerOf[s[i]] ELSE s[i]]

-----------------------------------------------------------------------------
(* The state of a reader: the text, the position in it, whether an error   *)
(* was met, and the next tokens.                                           *)

(* One more token at the end of the window.                                *)
Pull(x) ==
  LET next == NextToken(x.text, x.ptr)
      put(token, s) == Append(x.tokens, [token |-> token, text |-> s])
  IN  IF x.error THEN [x EXCEPT !.tokens = put("invalid", <<>>)]
      ELSE [x EXCEPT !.tokens = put(next.token, next.text),
                     !.ptr = next.ptr, !.error = next.error]

(* xml_init_from_file: a byte order mark is skipped.                       *)
OpenXml(text) ==
  LET start == IF Here(text, 1, <<"EF", "BB", "BF">>) THEN 4 ELSE 1
  IN  FoldLeft(LAMBDA x, i : Pull(x),
               [text |-> text, ptr |-> start, error |-> FALSE, tokens |-> <<>>],
               [i \in 1 .. Window |-> i])

Match(x, kinds) == \A i \in DOMAIN kinds : x.tokens[i].token = kinds[i]

Consume(x, n) ==
  FoldLeft(LAMBDA y, i : Pull([y EXCEPT !.tokens = Tail(@)]), x, [i \in 1 .. n |-> i])

-----------------------------------------------------------------------------
(* Parsing *)

IsAttribute(x) == Match(x, <<"ident", "=", "string">>)

RECURSIVE NodeAttributes(_, _)
NodeAttributes(x, read) ==
  IF IsAttribute(x)
  THEN NodeAttributes(Consume(x, 3),
                      Append(read, [key   |-> Copied(x.tokens[1].text, KeySize),
                                    value |-> Copied(x.tokens[3].text, ValueSize)]))
  ELSE [x |-> x, attributes |-> read]

(* xml_read_node.  Attributes there is no room for are counted only.       *)
ReadNode(x) ==
  LET list == NodeAttributes(Consume(x, 2), <<>>)
      node(closed, rest) ==
        [ok |-> TRUE, x |-> rest, tag |-> Copied(x.tokens[2].text, TagSize),
         num_attributes |-> Len(list.attributes),
         attributes |-> SubSeq(list.attributes, 1, IF Len(list.attributes) < MaxAttributes
                                                   THEN Len(list.attributes) ELSE MaxAttributes),
         self_closed |-> closed]
  IN  IF x.error \/ ~Match(x, <<"<", "ident">>) THEN [ok |-> FALSE, x |-> x]
      ELSE IF Match(list.x, <<">">>) THEN node(FALSE, Consume(list.x, 1))
      ELSE IF Match(list.x, <<"/", ">">>) THEN node(TRUE, Consume(list.x, 2))
      ELSE [ok |-> FALSE, x |-> [list.x EXCEPT !.error = TRUE]]

(* xml_close_node: the closing tag of `tag', if one comes next.            *)
CloseNode(x, tag) ==
  LET rest == Consume(x, 4)
  IN  IF x.error \/ ~Match(x, <<"<", "/", "ident", ">">>) THEN [ok |-> FALSE, x |-> x]
      ELSE IF x.tokens[3].text # tag THEN [ok |-> FALSE, x |-> [rest EXCEPT !.error = TRUE]]
      ELSE [ok |-> TRUE, x |-> rest]

=============================================================================
