------------------------------ MODULE ItemsXml ------------------------------
(***************************************************************************)
(* items_list.cc and items_stats.cc: what the two tools for items.xml list *)
(* and count.  Names are sequences of letters, as short as the instance    *)
(* likes them.                                                             *)
(***************************************************************************)
EXTENDS XmlNodes
LOCAL INSTANCE SequencesExt

CONSTANTS
  ItemsName, ItemName, AttributeName,   \* "items", "item", "attribute"
  KeyName,                              \* "key"
  NodeKeys,         \* attributes of <item> that have a counter
  ItemKeys          \* keys of <attribute> that have a counter

(* How both tools start: the root node, or why there is none.              *)
ReadRoot(text) ==
  LET root == ReadNode(OpenXml(text))
  IN  [x      |-> root.x,
       result |-> IF ~root.ok THEN IF root.x.error THEN "error" ELSE "no root"
                  ELSE IF root.tag # ItemsName \/ root.num_attributes > 0 THEN "not <items>"
                  ELSE "root"]

(* How both end: the closing tag of the root is read if it is there, and   *)
(* not missed if it is not.                                                *)
EndOfItems(x) == IF CloseNode(x, ItemsName).x.error THEN "error" ELSE "done"

-----------------------------------------------------------------------------
(* items_list.cc *)

Line(name, node) == <<name, node.attributes, node.self_closed>>

(* The <attribute> nodes of an item.  stop is the tool's early return.     *)
RECURSIVE ListAttributes(_, _)
ListAttributes(x, shown) ==
  LET node == ReadNode(x)
      line == Append(shown, Line("attribute", node))
  IN  IF ~node.ok THEN [x |-> node.x, shown |-> shown, stop |-> FALSE]
      ELSE IF node.tag # AttributeName THEN [x |-> node.x, shown |-> shown, stop |-> TRUE]
      ELSE IF ~node.self_closed THEN [x |-> node.x, shown |-> line, stop |-> TRUE]
      ELSE ListAttributes(node.x, line)

RECURSIVE ListItems(_, _)
ListItems(x, shown) ==
  LET node     == ReadNode(x)
      line     == Append(shown, Line("item", node))
      children == ListAttributes(node.x, line)
      listed   == Append(children.shown, <<"/item">>)
      close    == CloseNode(children.x, node.tag)
  IN  IF ~node.ok THEN [x |-> node.x, shown |-> shown, stop |-> FALSE]
      ELSE IF node.tag # ItemName THEN [x |-> node.x, shown |-> shown, stop |-> TRUE]
      ELSE IF node.self_closed THEN ListItems(node.x, line)
      ELSE IF children.stop THEN children
      ELSE IF close.ok THEN ListItems(close.x, listed)
      ELSE [x |-> close.x, shown |-> listed, stop |-> FALSE]

(* The tool: the result, and the lines it has printed.                     *)
ListXml(text) ==
  LET root == ReadRoot(text)
      list == ListItems(root.x, <<>>)
  IN  IF root.result # "root" THEN [result |-> root.result, shown |-> <<>>]
      ELSE [result |-> IF list.stop THEN "unexpected node" ELSE EndOfItems(list.x),
            shown  |-> list.shown]

-----------------------------------------------------------------------------
(* items_stats.cc *)

(* Keys without a counter of their own share one; no key is empty.         *)
Other == <<>>

NoCounts ==
  [nodeKeys |-> [k \in NodeKeys \union {Other} |-> 0],
   itemKeys |-> [k \in ItemKeys \union {Other} |-> 0],
   items    |-> 0,
   itemsWithAttributes |-> 0]

CountIn(counts, key) ==
  IF key \in DOMAIN counts THEN [counts EXCEPT ![key] = @ + 1]
  ELSE [counts EXCEPT ![Other] = @ + 1]

(* The attributes of an item node.                                         *)
CountNodeKeys(counts, node) ==
  [counts EXCEPT !.nodeKeys =
     FoldLeft(LAMBDA c, a : CountIn(c, AsLower(a.key, TokenSize)), @, node.attributes)]

(* Mutant: the key is compared as it is written.                           *)
CountItemKeysAsWritten(counts, node) ==
  [counts EXCEPT !.itemKeys =
     FoldLeft(LAMBDA c, a : IF a.key = KeyName THEN CountIn(c, AsLower(a.value, TokenSize)) ELSE c,
              @, node.attributes)]

(* The value of key=".." in an attribute node.                             *)
CountItemKeys(counts, node) ==
  [counts EXCEPT !.itemKeys =
     FoldLeft(LAMBDA c, a : IF AsLower(a.key, TokenSize) = KeyName
                            THEN CountIn(c, AsLower(a.value, TokenSize)) ELSE c,
              @, node.attributes)]

(* recursive_close_node: past whatever is inside a node, and its closing   *)
(* tag.                                                                    *)
RECURSIVE CloseAll(_, _), CloseChildren(_)
CloseAll(x, node) ==
  LET inside == CloseChildren(x)
  IN  IF node.self_closed THEN [ok |-> TRUE, x |-> x]
      ELSE IF ~inside.ok THEN inside
      ELSE CloseNode(inside.x, node.tag)
CloseChildren(x) ==
  LET child  == ReadNode(x)
      closed == CloseAll(child.x, child)
  IN  IF ~child.ok THEN [ok |-> TRUE, x |-> child.x]
      ELSE IF ~closed.ok THEN closed
      ELSE CloseChildren(closed.x)

RECURSIVE CountAttributes(_, _, _)
CountAttributes(x, counts, any) ==
  LET node   == ReadNode(x)
      closed == CloseAll(node.x, node)
      result(y, stop) == [x |-> y, counts |-> counts, any |-> any, stop |-> stop]
  IN  IF ~node.ok THEN result(node.x, FALSE)
      ELSE IF node.tag # AttributeName \/ ~closed.ok THEN result(node.x, TRUE)
      ELSE CountAttributes(closed.x, CountItemKeys(counts, node), TRUE)

(* An item counts when its closing tag was read.                           *)
RECURSIVE CountItems(_, _)
CountItems(x, counts) ==
  LET node     == ReadNode(x)
      keys     == CountNodeKeys(counts, node)
      children == IF node.self_closed
                  THEN [x |-> node.x, counts |-> keys, any |-> FALSE, stop |-> FALSE]
                  ELSE CountAttributes(node.x, keys, FALSE)
      close    == IF node.self_closed THEN [ok |-> TRUE, x |-> node.x]
                  ELSE CloseNode(children.x, node.tag)
      done     == [children.counts EXCEPT
                     !.items = @ + 1,
                     !.itemsWithAttributes = IF children.any THEN @ + 1 ELSE @]
  IN  IF ~node.ok THEN [x |-> node.x, counts |-> counts, stop |-> FALSE]
      ELSE IF node.tag # ItemName THEN [x |-> node.x, counts |-> counts, stop |-> TRUE]
      ELSE IF children.stop THEN children
      ELSE IF close.ok THEN CountItems(close.x, done)
      ELSE [x |-> close.x, counts |-> children.counts, stop |-> FALSE]

(* The tool: the result, and the counters it prints if there is no error.  *)
CountXml(text) ==
  LET root  == ReadRoot(text)
      count == CountItems(root.x, NoCounts)
      result == IF root.result # "root" THEN root.result
                ELSE IF count.stop THEN "unexpected node" ELSE EndOfItems(count.x)
  IN  [result |-> result, counts |-> IF result = "done" THEN count.counts ELSE NoCounts]

=============================================================================
