----------------------------- MODULE OtbWriter ------------------------------
(***************************************************************************)
(* OTB files as an item editor writes them, and what OtbItems and OtbStats *)
(* must find in them.  A file is put together from parts: the start of an  *)
(* item, which ends the one before, and attributes.                        *)
(***************************************************************************)
EXTENDS OtbStats
LOCAL INSTANCE SequencesExt
LOCAL INSTANCE FiniteSetsExt

Item(type, flags) == [part |-> "item", type |-> type, flags |-> flags]

Attribute(id, data) == [part |-> "attribute", id |-> id, data |-> data]

(* The first part is an item.                                              *)
Fits(parts, part) == parts = <<>> => part.part = "item"

Escaped(bytes) ==
  FlattenSeq([i \in DOMAIN bytes |-> IF bytes[i] >= ESCAPE THEN <<ESCAPE, bytes[i]>> ELSE <<bytes[i]>>])

Start(known) ==
  <<0, 0, 0, 0, NODE_START, 0, 0, 0, 0, 0, 1, 140, 0>>
    \o (IF known THEN <<3, 0, 0, 0, 23, 0, 0, 0, 0, 0, 0, 0>> ELSE <<4, 0, 0, 0, 24, 0, 0, 0, 0, 0, 0, 0>>)
    \o [i \in 1 .. 128 |-> 0]

PartBytes(parts, i) ==
  LET part == parts[i]
  IN  IF part.part = "attribute"
      THEN <<part.id>> \o Escaped(<<Len(part.data), 0>>) \o Escaped(part.data)
      ELSE (IF i = 1 THEN <<>> ELSE <<NODE_END>>) \o <<NODE_START, part.type>> \o Escaped(part.flags)

File(known, parts) ==
  Start(known) \o FlattenSeq([i \in DOMAIN parts |-> PartBytes(parts, i)])
    \o (IF parts = <<>> THEN <<NODE_END>> ELSE <<NODE_END, NODE_END>>)

-----------------------------------------------------------------------------
(* What the parts say.                                                     *)
Bad(part) ==
  part.part = "attribute" /\ part.id \in DOMAIN SizeOf /\ Len(part.data) # SizeOf[part.id]

Shown(part) ==
  [id    |-> part.id,
   value |-> CASE part.id \in {16, 17, 20} -> <<part.data[1] + 256 * part.data[2]>>
               [] part.id = 42 -> <<part.data[1] + 256 * part.data[2], part.data[3] + 256 * part.data[4]>>
               [] part.id = 43 -> <<part.data[1]>>
               [] OTHER -> <<Len(part.data)>>]

Starts(parts) == {i \in DOMAIN parts : parts[i].part = "item"}

(* The item that starts at part i.                                         *)
ItemAt(parts, i) ==
  LET end == Min({j \in Starts(parts) : j > i} \union {Len(parts) + 1})
  IN  [type |-> parts[i].type, flags |-> parts[i].flags,
       attributes |-> [j \in 1 .. end - i - 1 |-> Shown(parts[i + j])]]

(* The items before part n.                                                *)
ItemsBefore(parts, n) ==
  LET firsts == SetToSortSeq({i \in Starts(parts) : i < n}, <)
  IN  [k \in DOMAIN firsts |-> ItemAt(parts, firsts[k])]

(* A file is listed, up to the first attribute of a wrong size.            *)
Listing(known, parts) ==
  LET bad == {i \in DOMAIN parts : Bad(parts[i])}
  IN  CASE ~known   -> [result |-> "version", items |-> <<>>]
        [] bad = {} -> [result |-> "listed", items |-> ItemsBefore(parts, Len(parts) + 1)]
        [] OTHER    -> LET last == Max({i \in Starts(parts) : i < Min(bad)})
                       IN  [result |-> "refused", items |-> ItemsBefore(parts, last)]

(* How many of items have P.                                               *)
HowMany(items, P(_)) == Cardinality({i \in DOMAIN items : P(items[i])})

(* The last value an item has for an attribute.                            *)
LastOf(item, id, i) ==
  LET at == {j \in DOMAIN item.attributes : item.attributes[j].id = id}
  IN  IF at = {} THEN 0 ELSE item.attributes[Max(at)].value[i]

Greatest(items, id, i) == Max({0} \union {LastOf(items[k], id, i) : k \in DOMAIN items})

StatsOf(parts, items, stats) ==
  /\ stats.nodes = Len(items)
  /\ stats.groups["ground"] = HowMany(items, LAMBDA item : item.type = 1)
  /\ stats.groups["other"] = HowMany(items, LAMBDA item : item.type \notin {0, 1, 2, 6, 11, 12, 14})
  /\ \A f \in 0 .. 23 :
       stats.flags[f] = HowMany(items, LAMBDA item : (item.flags[f \div 8 + 1] \div 2^(f % 8)) % 2 = 1)
  /\ stats.flags[24] = HowMany(items, LAMBDA item : item.flags[4] > 0)
  /\ \A id \in {16, 17, 20, 42, 43, 33} :
       stats.attributes[id] = Cardinality({i \in DOMAIN parts : parts[i].part = "attribute" /\ parts[i].id = id})
  /\ stats.max["server_id"] = Greatest(items, 16, 1)
  /\ stats.max["light_level"] = Greatest(items, 42, 1)
  /\ stats.max["light_color"] = Greatest(items, 42, 2)

-----------------------------------------------------------------------------
(* Both tools read what was written.                                       *)
OtbRead(known, parts) ==
  LET list  == ListOtb(File(known, parts))
      stats == StatsOfOtb(File(known, parts))
  IN  /\ list = Listing(known, parts)
      /\ stats.result = list.result
      /\ list.result = "listed" => StatsOf(parts, list.items, stats.stats)

(* A file that ends early is never taken for a whole one.                  *)
OtbCutNoticed(known, parts) ==
  \A n \in Len(Start(known)) - 1 .. Len(File(known, parts)) - 1 :
    ListOtb(SubSeq(File(known, parts), 1, n)).result # "listed"

=============================================================================
