------------------------------ MODULE OtbStats ------------------------------
(***************************************************************************)
(* otb_stats.cc: reads the file as otb_list.cc does, with a copy of its    *)
(* reader, and counts groups, flags and attributes of the items.           *)
(***************************************************************************)
EXTENDS OtbItems, TLC
LOCAL INSTANCE SequencesExt

(* The groups that have a counter.                                         *)
GroupNames ==
  (0 :> "none") @@ (1 :> "ground") @@ (2 :> "container") @@ (6 :> "charges")
  @@ (11 :> "splash") @@ (12 :> "fluid") @@ (14 :> "deprecated")

GroupOf(type) == IF type \in DOMAIN GroupNames THEN GroupNames[type] ELSE "other"

(* The attributes that have a counter: those that are looked into, and     *)
(* sprite hash, minimap color, 07, 08 and light.                           *)
CountedAttributes == DOMAIN SizeOf \union {32, 33, 34, 35, 36}

AttributeOf(id) == IF id \in CountedAttributes THEN id ELSE 0

(* The flags of an item: the numbers of its bits, all above bit 23 being   *)
(* one flag, number 24.                                                    *)
BitSet(flags, i) == (flags[1 + i \div 8] \div 2^(i % 8)) % 2 = 1

FlagsOf(flags) ==
  {i \in 0 .. 23 : BitSet(flags, i)} \union (IF flags[4] # 0 THEN {24} ELSE {})

(* The values a maximum is kept of: the attribute each is part of, and     *)
(* which part.                                                             *)
PlaceOf ==
  ("server_id" :> <<SERVER_ID, 1>>) @@ ("client_id" :> <<CLIENT_ID, 1>>)
  @@ ("speed" :> <<SPEED, 1>>) @@ ("top_order" :> <<TOP_ORDER, 1>>)
  @@ ("light_level" :> <<LIGHT2, 1>>) @@ ("light_color" :> <<LIGHT2, 2>>)

(* The value of q in an item: the last one given, or 0.                    *)
Quantity(item, q) ==
  LET i == SelectLastInSeq(item.attributes, LAMBDA a : a.id = PlaceOf[q][1])
  IN  IF i = 0 THEN 0 ELSE item.attributes[i].value[PlaceOf[q][2]]

-----------------------------------------------------------------------------
NoStats ==
  [groups     |-> [g \in {GroupNames[t] : t \in DOMAIN GroupNames} \union {"other"} |-> 0],
   attributes |-> [a \in CountedAttributes \union {0} |-> 0],
   flags      |-> [f \in 0 .. 24 |-> 0],
   nodes      |-> 0,
   max        |-> [q \in DOMAIN PlaceOf |-> 0]]

CountAttribute(counts, attribute) == [counts EXCEPT ![AttributeOf(attribute.id)] = @ + 1]

(* One turn of the loop over the items.                                    *)
Count(stats, item) ==
  [groups     |-> [stats.groups EXCEPT ![GroupOf(item.type)] = @ + 1],
   attributes |-> FoldLeft(CountAttribute, stats.attributes, item.attributes),
   flags      |-> [f \in 0 .. 24 |-> stats.flags[f] + (IF f \in FlagsOf(item.flags) THEN 1 ELSE 0)],
   nodes      |-> stats.nodes + 1,
   max        |-> [q \in DOMAIN PlaceOf |-> IF Quantity(item, q) > stats.max[q]
                                        THEN Quantity(item, q) ELSE stats.max[q]]]

(* The tool's own copy of what otb_list.cc does up to the items, the same  *)
(* line by line.                                                           *)
LoadOtb(file) == ListOtb(file)

(* The tool's result and statistics.  A refused file has none; after an    *)
(* unexpected ending they are printed all the same.                        *)
StatsOfOtb(file) ==
  LET load == LoadOtb(file)
  IN  [result |-> load.result,
       stats  |-> IF load.result \in {"listed", "unexpected ending"}
                  THEN FoldLeft(Count, NoStats, load.items) ELSE NoStats]

=============================================================================
