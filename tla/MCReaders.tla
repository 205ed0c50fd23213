----------------------------- MODULE MCReaders ------------------------------
(***************************************************************************)
(* Model-checking instance of Readers.tla: the parts input is made of.     *)
(* Two kinds of input are put together and read step by step, by Messages  *)
(* and World; they take their steps while that kind is the one written.    *)
(***************************************************************************)
EXTENDS Readers, Messages, World

Wire == INSTANCE BuffersReference WITH ByteBase <- 4

Rsa == INSTANCE RsaReference WITH ByteBase <- 8, HalfBits <- 3, LimbBytes <- 2

Narrow == INSTANCE GmpReference WITH HalfBits <- 2, LimbBytes <- 2

Broad == INSTANCE GmpReference WITH HalfBits <- 4, LimbBytes <- 2

Otb == INSTANCE OtbWriter

Otbm == INSTANCE OtbmWriter

Xml == INSTANCE XmlWriter
         WITH TokenSize <- 4, TagSize <- 3, KeySize <- 3, ValueSize <- 4, MaxAttributes <- 2,
              ItemsName <- <<"s">>, ItemName <- <<"i">>, AttributeName <- <<"a">>,
              KeyName <- <<"k">>, NodeKeys <- {<<"i", "d">>}, ItemKeys <- {<<"w">>}

-----------------------------------------------------------------------------
(* How each kind of input goes on and is read.  (Where a definition is a   *)
(* LET, TLC's statistics stop at it: below it they would outgrow it.)      *)
MCMayFollow(kind_, parts_, part) ==
  CASE kind_ = "otb"   -> Otb!Fits(parts_, part)
    [] kind_ = "tree"  -> Otbm!Fits(parts_, part)
    [] kind_ = "items" -> Xml!Fits(parts_, part)
    [] OTHER           -> TRUE

MCReadsBytes(none, bytes) == Wire!BuffersAgree(bytes)

(* A setup is the number of limbs of the numbers each is taken with.       *)
MCReadsLimbs(n, limbs) == LET Limb == Parts["limbs"] IN Narrow!NumbersExactly(n, Limb, limbs)

MCReadsDigits(none, digits) ==
  LET first == digits = <<>>
  IN  IF first THEN Broad!InversesExact ELSE Broad!DigitsExact(digits)

(* A setup is p, q and e, and parts are the bytes of what is encoded.      *)
MCReadsKey(choice, bytes) ==
  LET p == choice[1]
      q == choice[2]
      e == choice[3]
  IN  (bytes = <<>> => Rsa!KeyRefusedRightly(p, q, e)) /\ Rsa!Decodes(p, q, e, bytes)

(* A setup says whether the version of the file is one the tools know.     *)
MCReadsOtb(known, items) == Otb!OtbRead(known, items) /\ Otb!OtbCutNoticed(known, items)

MCReadsTree(none, tree) ==
  LET read    == Otbm!TreeRead(tree)
      noticed == Otbm!TreeCutNoticed(tree)
  IN  read /\ noticed

MCReadsMap(none, strings) == LET read == Otbm!MapRead(strings) IN read

MCReadsTokens(none, tokens) == Xml!TokensRead(tokens)

MCReadsItems(none, nodes) == LET read == Xml!ItemsRead(nodes) IN read

-----------------------------------------------------------------------------

MCSetups ==
  [bytes    |-> {"none"},
   key      |-> {<<k[1], k[2], e>> : k \in {<<3, 7>>, <<7, 3>>, <<5, 11>>, <<11, 5>>, <<5, 7>>}, e \in (1 .. 11)},
   limbs    |-> {1, 2, 3},
   digits   |-> {"none"},
   otb      |-> {TRUE, FALSE},
   tree     |-> {"none"},
   map      |-> {"none"},
   tokens   |-> {"none"},
   items    |-> {"none"},
   message  |-> {"none"},
   world    |-> {"none"}]

OtbParts ==
  {Otb!Item(1, <<253, 0, 0, 0>>), Otb!Item(9, <<1, 255, 0, 254>>),
   Otb!Attribute(16, <<253, 1>>), Otb!Attribute(16, <<255, 0>>), Otb!Attribute(20, <<1>>),
   Otb!Attribute(42, <<254, 0, 253, 255>>), Otb!Attribute(33, <<255, 253>>)}

TreeParts == {Otbm!Start, Otbm!End, Otbm!Attribute(7), Otbm!Attribute(253), Otbm!Attribute(255)}

MapParts == {Otbm!String(id, s) : id \in {1, 11, 9}, s \in {<<>>, <<253>>, <<65, 255>>}}

TokenParts ==
  {Xml!Ident(<<"a", "B">>), Xml!Quoted(<<"<", "blank">>), Xml!Quoted(<<>>),
   Xml!Mark("<"), Xml!Mark("/"), Xml!Mark("="), Xml!Mark(">"),
   Xml!Skipped(<<"return">>), Xml!Skipped(<<"newline">>), Xml!Skipped(<<"tab">>),
   Xml!Comment(<<"a", "-", ">", "newline", "blank">>), Xml!Prolog(<<"x", "?", "newline">>),
   Xml!Wrong(<<"a", "b", "c", "d", "blank">>), Xml!Wrong(<<"quote", "a", "newline">>),
   Xml!Wrong(<<"quote", "a", "b", "c", "d", "quote">>), Xml!Wrong(<<"control">>)}

ItemParts ==
  LET id == Xml!Keyed(<<"I", "D">>, <<"x">>)
      t  == Xml!Keyed(<<"t">>, <<>>)
  IN  {Xml!Item(<<id>>, TRUE), Xml!Item(<<id, t>>, FALSE), Xml!Close,
       Xml!Child(<<Xml!Keyed(<<"K">>, <<"W">>)>>, TRUE),
       Xml!Child(<<Xml!Keyed(<<"k">>, <<"z">>), t>>, FALSE)}

MCParts ==
  [bytes |-> {0, 1, 2, 3}, key |-> {0, 1, 3, 7}, limbs |-> {0, 1, 8, 15}, digits |-> {0, 1, 9},
   otb |-> OtbParts, tree |-> TreeParts, map |-> MapParts, tokens |-> TokenParts, items |-> ItemParts,
   message |-> {}, world |-> {}]

MCMaxParts ==
  [bytes |-> 4, key |-> 2, limbs |-> 4, digits |-> 6, otb |-> 4, tree |-> 6, map |-> 3,
   tokens |-> 3, items |-> 5, message |-> 0, world |-> 0]

-----------------------------------------------------------------------------
(* The fields of a message.  A byte has 8 values, so that the length of a  *)
(* string wraps at 64.                                                     *)
Number(x, n) == [kind |-> "int", size |-> n, value |-> x]

Text(n) == [kind |-> "string", value |-> [i \in 1 .. n |-> i % 8]]

MCFields ==
  {Number(6, 1), Number(63, 2), Number(2058, 4)} \union {Text(n) : n \in {0, 5, 6, 63, 64 + 16}}

MCKeys == {<<7, 1234, 4095, 300>>}

(* The elements of a world file: the info of a world of 2 x 1 x 1 chunks   *)
(* of 1 x 2 x 2 tiles, pairs of a chunk and its place, half a pair, and an *)
(* element of another kind.                                                *)
InfoOf(dense) ==
  LET version == <<1, 0, 7, 0, 7, 0>>
      chunk   == WriteLE(1, 2) \o WriteLE(2, 2) \o <<2>>
      world   == WriteLE(2, 2) \o WriteLE(1, 2) \o <<1>>
  IN  version \o chunk \o world \o WriteLE(dense, 4) \o [i \in 1 .. 12 |-> 0]

PairOf(chunk, dense) == WriteLE(chunk, 4) \o WriteLE(dense, 4)

MCElements ==
  {[id |-> WORLD_INFO, data |-> InfoOf(dense)] : dense \in {0, 2, 3}}
    \union {[id |-> WORLD_SPARSE_DATA, data |-> data] :
              data \in {PairOf(0, 1), PairOf(2, 0), PairOf(1, 2), PairOf(1, 1) \o PairOf(0, 0), <<1, 0, 0, 0>>}}
    \union {[id |-> 4, data |-> <<1>>]}

-----------------------------------------------------------------------------
MCInit == Init /\ MsgInit /\ WorldInit

MCNext ==
  \/ Next /\ UNCHANGED <<msgVars, worldVars>>
  \/ kind = "message" /\ MsgNext /\ UNCHANGED <<vars, worldVars>>
  \/ kind = "world" /\ WorldNext /\ UNCHANGED <<vars, msgVars>>

MCSpec == MCInit /\ [][MCNext]_<<vars, msgVars, worldVars>>

=============================================================================
