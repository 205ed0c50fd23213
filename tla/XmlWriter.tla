----------------------------- MODULE XmlWriter ------------------------------
(***************************************************************************)
(* XML texts as an editor writes them, and what XmlLexer, XmlNodes and     *)
(* ItemsXml must find in them.                                             *)
(***************************************************************************)
EXTENDS ItemsXml
LOCAL INSTANCE TLC
LOCAL INSTANCE SequencesExt
LOCAL INSTANCE FiniteSetsExt

-----------------------------------------------------------------------------
(* Any mixture of tokens and of what lies between them.  Every piece has   *)
(* its characters and the tokens it stands for.                            *)
Piece(chars, tokens) == [chars |-> chars, tokens |-> tokens]

Mark(c) == Piece(<<c>>, <<[token |-> c, text |-> <<>>]>>)

Ident(s) == Piece(s \o <<"blank">>, <<[token |-> "ident", text |-> s]>>)

Quoted(s) == Piece(<<"quote">> \o s \o <<"quote">>, <<[token |-> "string", text |-> s]>>)

Skipped(chars) == Piece(chars, <<>>)

Comment(s) == Skipped(<<"<", "!", "-", "-">> \o s \o <<"-", "-", ">">>)

Prolog(s) == Skipped(<<"<", "?">> \o s \o <<"?", ">">>)

Wrong(chars) == Piece(chars, <<[token |-> "invalid", text |-> <<>>]>>)

(* A text ends with a new line: what has nothing at all behind it counts   *)
(* as not closed, if it is a comment or a prolog.                          *)
Text(pieces) == FlattenSeq([i \in DOMAIN pieces |-> pieces[i].chars]) \o <<"newline">>

(* The tokens up to the first error.                                       *)
TokensOf(pieces) ==
  LET all == FlattenSeq([i \in DOMAIN pieces |-> pieces[i].tokens])
      bad == SelectInSeq(all, LAMBDA t : t.token = "invalid")
  IN  IF bad = 0 THEN all ELSE SubSeq(all, 1, bad)

RECURSIVE TokensFrom(_, _, _)
TokensFrom(text, p, read) ==
  LET next == NextToken(text, p)
      all  == Append(read, [token |-> next.token, text |-> next.text])
  IN  IF next.token = "eof" THEN read
      ELSE IF next.error THEN all
      ELSE TokensFrom(text, next.ptr, all)

(* The tokens are those that were written, and the parser sees the first   *)
(* of them in its window, up to an error.                                  *)
TokensRead(pieces) ==
  LET x == OpenXml(Text(pieces))
      y == OpenXml(<<"EF", "BB", "BF">> \o Text(pieces))
      n == Min({Window, Len(TokensOf(pieces))})
  IN  /\ TokensFrom(Text(pieces), 1, <<>>) = TokensOf(pieces)
      /\ SubSeq(x.tokens, 1, n) = SubSeq(TokensOf(pieces), 1, n)
      /\ y.tokens = x.tokens

-----------------------------------------------------------------------------
(* Files of items.  An attribute of a node has a key and a value; a node   *)
(* <attribute> is closed in itself, or by a tag of its own, which the      *)
(* listing does not expect.                                                *)
Keyed(key, value) == [key |-> key, value |-> value]

Item(attributes, closed) == [part |-> "item", attributes |-> attributes, closed |-> closed]

Child(attributes, closed) == [part |-> "attribute", attributes |-> attributes, closed |-> closed]

Close == [part |-> "close"]

(* Is an item open behind parts?                                           *)
IsOpen(parts) ==
  LET i == SelectLastInSeq(parts, LAMBDA p : p.part # "attribute")
  IN  i # 0 /\ parts[i].part = "item" /\ ~parts[i].closed

Fits(parts, part) == IsOpen(parts) <=> part.part # "item"

Tag(name, attributes, closed) ==
  <<"<">> \o name
    \o FlattenSeq([i \in DOMAIN attributes |->
         <<"blank">> \o attributes[i].key \o <<"=", "quote">> \o attributes[i].value \o <<"quote">>])
    \o (IF closed THEN <<"/", ">">> ELSE <<">">>)

ClosingTag(name) == <<"<", "/">> \o name \o <<">", "newline">>

PartText(part) ==
  CASE part.part = "item"  -> Tag(ItemName, part.attributes, part.closed)
    [] part.part = "close" -> ClosingTag(ItemName)
    [] OTHER -> Tag(AttributeName, part.attributes, part.closed)
                  \o (IF part.closed THEN <<>> ELSE ClosingTag(AttributeName))

(* What is still open is closed in the end.                                *)
Items(parts) ==
  Tag(ItemsName, <<>>, FALSE) \o FlattenSeq([i \in DOMAIN parts |-> PartText(parts[i])])
    \o (IF IsOpen(parts) THEN ClosingTag(ItemName) ELSE <<>>) \o ClosingTag(ItemsName)

(* The lines of the listing: up to the first node it does not expect.      *)
Lines(parts) ==
  [i \in DOMAIN parts |->
     IF parts[i].part = "close" THEN <<"/item">>
     ELSE <<parts[i].part, parts[i].attributes, parts[i].closed>>]

Listing(parts) ==
  LET odd == SelectInSeq(parts, LAMBDA p : p.part = "attribute" /\ ~p.closed)
      end == IF IsOpen(parts) THEN <<<<"/item">>>> ELSE <<>>
  IN  IF odd = 0 THEN [result |-> "done", shown |-> Lines(parts) \o end]
      ELSE [result |-> "unexpected node", shown |-> SubSeq(Lines(parts), 1, odd)]

(* The attributes of all nodes of one kind.                                *)
AllAttributes(parts, kind) ==
  FlattenSeq([i \in DOMAIN parts |-> IF parts[i].part = kind THEN parts[i].attributes ELSE <<>>])

Lower(s) == [i \in DOMAIN s |-> IF s[i] \in DOMAIN LowerOf THEN LowerOf[s[i]] ELSE s[i]]

HowMany(s, P(_)) == Cardinality({i \in DOMAIN s : P(s[i])})

CountsOf(parts) ==
  LET keys  == AllAttributes(parts, "item")
      types == SelectSeq(AllAttributes(parts, "attribute"), LAMBDA a : Lower(a.key) = KeyName)
      items == {i \in DOMAIN parts : parts[i].part = "item"}
  IN  [nodeKeys |-> [k \in NodeKeys |-> HowMany(keys, LAMBDA a : Lower(a.key) = k)]
                      @@ (Other :> HowMany(keys, LAMBDA a : Lower(a.key) \notin NodeKeys)),
       itemKeys |-> [k \in ItemKeys |-> HowMany(types, LAMBDA a : Lower(a.value) = k)]
                      @@ (Other :> HowMany(types, LAMBDA a : Lower(a.value) \notin ItemKeys)),
       items    |-> Cardinality(items),
       itemsWithAttributes |->
         Cardinality({i \in items : i + 1 \in DOMAIN parts /\ parts[i + 1].part = "attribute"})]

(* Do the first n characters end inside a tag that opens a node?           *)
InOpeningTag(text, n) ==
  LET start == Max({i \in 1 .. n : text[i] = "<"} \union {0})
  IN  /\ start # 0
      /\ start < n
      /\ text[start + 1] # "/"
      /\ \A i \in start .. n : text[i] # ">"

(* The nodes of a listing.  The end of an item is printed before its       *)
(* closing tag is read.                                                    *)
Nodes(shown) == SelectSeq(shown, LAMBDA line : line # <<"/item">>)

(* Both tools read what was written.  Of a text that ends early the        *)
(* listing shows the first nodes, and it does not take it for a whole one if   *)
(* it ends inside a tag that opens a node.                                 *)
ItemsRead(parts) ==
  LET text == Items(parts)
      list == ListXml(text)
  IN  /\ list = Listing(parts)
      /\ CountXml(text) = [result |-> "done", counts |-> CountsOf(parts)]
      /\ \A n \in 0 .. Len(text) - 1 :
           LET cut == ListXml(SubSeq(text, 1, n))
           IN  /\ IsPrefix(Nodes(cut.shown), Nodes(list.shown))
               /\ InOpeningTag(text, n) => cut.result # "done"

=============================================================================
