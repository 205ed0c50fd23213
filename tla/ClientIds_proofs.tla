-------------------------- MODULE ClientIds_proofs --------------------------
(***************************************************************************)
(* Proofs about ClientIds.tla, for any number of slots, any width of the   *)
(* counter and any number of drops.                                        *)
(***************************************************************************)
EXTENDS ClientIds, TLAPS

IdTypes ==
  /\ open \in [Slots -> BOOLEAN]
  /\ counter \in [Slots -> Counters]
  /\ drops \in [Slots -> Nat]
  /\ held \subseteq [id : [counter : Counters, index : Slots], drops : Nat]

Ahead(h) == drops[h.id.index] - h.drops

(* The counter of a slot is as far ahead of an id as the slot has been     *)
(* dropped since, going round at most once while that is less than a       *)
(* round; and the client of an id made after the last drop is still there. *)
IdInv ==
  /\ IdTypes
  /\ \A h \in held :
       /\ h.drops <= drops[h.id.index]
       /\ h.drops = drops[h.id.index] => open[h.id.index]
       /\ Ahead(h) < CounterBase =>
            \/ counter[h.id.index] = h.id.counter + Ahead(h)
            \/ counter[h.id.index] = h.id.counter + Ahead(h) - CounterBase

-----------------------------------------------------------------------------
(* What the increment of a 16-bit counter does.                            *)
LEMMA CounterStep ==
  ASSUME NEW k \in Counters
  PROVE  /\ (k + 1) % CounterBase = IF k + 1 = CounterBase THEN 0 ELSE k + 1
         /\ (k + 1) % CounterBase \in Counters
<1>1. k \in Nat /\ CounterBase \in Nat \ {0} /\ k + 1 <= CounterBase
  BY ClientIdsAssumption DEF Counters
<1>2. CASE k + 1 = CounterBase
  BY <1>1, <1>2 DEF Counters
<1>3. CASE k + 1 < CounterBase
  BY <1>1, <1>3 DEF Counters
<1> QED
  BY <1>1, <1>2, <1>3

LEMMA IdInitInv == IdInit => IdInv
  BY DEF IdInit, CbInit, IdInv, IdTypes

LEMMA IdOnAcceptInv ==
  ASSUME IdInv, NEW c \in Slots, IdOnAccept(c)
  PROVE  IdInv'
  BY DEF IdInv, IdTypes, Ahead, IdOnAccept, OnAccept

LEMMA KeepIdInv ==
  ASSUME IdInv, NEW c \in Slots, KeepId(c)
  PROVE  IdInv'
<1> DEFINE new == [id |-> make_client_id(counter[c], c), drops |-> drops[c]]
<1>1. /\ new \in [id : [counter : Counters, index : Slots], drops : Nat]
      /\ new.id.index = c /\ new.id.counter = counter[c] /\ new.drops = drops[c]
  BY DEF IdInv, IdTypes, make_client_id
<1>2. /\ held' = held \union {new} /\ open[c]
      /\ UNCHANGED <<open, counter, drops>>
  BY DEF KeepId, cbVars
<1> HIDE DEF new
<1>3. counter[c] \in Nat /\ drops[c] \in Nat
  BY ClientIdsAssumption DEF IdInv, IdTypes, Counters
<1> QED
  BY <1>1, <1>2, <1>3 DEF IdInv, IdTypes, Ahead

LEMMA IdOnDropInv ==
  ASSUME IdInv, NEW c \in Slots, IdOnDrop(c)
  PROVE  IdInv'
<1>1. /\ open' = [open EXCEPT ![c] = FALSE]
      /\ counter' = [counter EXCEPT ![c] = (counter[c] + 1) % CounterBase]
      /\ drops' = [drops EXCEPT ![c] = drops[c] + 1]
      /\ held' = held
  BY DEF IdOnDrop, OnDrop, NextCounter
<1>2. counter[c] \in Counters
  BY DEF IdInv, IdTypes
<1>3. IdTypes'
  BY <1>1, <1>2, CounterStep DEF IdInv, IdTypes
<1>4. ASSUME NEW h \in held
      PROVE  /\ h.drops <= drops'[h.id.index]
             /\ h.drops = drops'[h.id.index] => open'[h.id.index]
             /\ Ahead(h)' < CounterBase =>
                  \/ counter'[h.id.index] = h.id.counter + Ahead(h)'
                  \/ counter'[h.id.index] = h.id.counter + Ahead(h)' - CounterBase
  <2>1. /\ h.id.index \in Slots /\ h.drops \in Nat /\ drops[h.id.index] \in Nat
        /\ h.id.counter \in Nat /\ h.id.counter < CounterBase
        /\ counter[h.id.index] \in Nat /\ counter[h.id.index] < CounterBase
        /\ CounterBase \in Nat
    BY ClientIdsAssumption DEF IdInv, IdTypes, Counters
  <2>2. CASE h.id.index = c
    <3>1. Ahead(h)' = Ahead(h) + 1 /\ drops'[c] = drops[c] + 1
      BY <1>1, <2>1, <2>2 DEF Ahead, IdInv, IdTypes
    <3>2. counter'[c] = IF counter[c] + 1 = CounterBase THEN 0 ELSE counter[c] + 1
      BY <1>1, <1>2, CounterStep DEF IdInv, IdTypes
    <3>3. h.drops <= drops[c]
      BY <2>2 DEF IdInv
    <3>4. Ahead(h) < CounterBase =>
            \/ counter[c] = h.id.counter + Ahead(h)
            \/ counter[c] = h.id.counter + Ahead(h) - CounterBase
      BY <2>2 DEF IdInv
    <3>5. Ahead(h) \in Nat
      BY <2>1, <2>2, <3>3 DEF Ahead
    <3> QED
      BY <2>1, <2>2, <3>1, <3>2, <3>3, <3>4, <3>5
  <2>3. CASE h.id.index # c
    <3>1. /\ drops'[h.id.index] = drops[h.id.index]
          /\ counter'[h.id.index] = counter[h.id.index]
          /\ open'[h.id.index] = open[h.id.index]
      BY <1>1, <2>1, <2>3 DEF IdInv, IdTypes
    <3> QED
      BY <3>1 DEF IdInv, Ahead
  <2> QED
    BY <2>2, <2>3
<1> QED
  BY <1>1, <1>3, <1>4 DEF IdInv

LEMMA IdStepInv == IdInv /\ [IdNext]_idVars => IdInv'
<1> SUFFICES ASSUME IdInv, [IdNext]_idVars PROVE IdInv'
  OBVIOUS
<1>1. CASE UNCHANGED idVars
  BY <1>1 DEF idVars, cbVars, IdInv, IdTypes, Ahead
<1>2. CASE IdNext
  BY <1>2, IdOnAcceptInv, IdOnDropInv, KeepIdInv DEF IdNext
<1> QED
  BY <1>1, <1>2

LEMMA InvDistinguishes == IdInv => IdsDistinguish
<1> SUFFICES ASSUME IdInv, NEW h \in held, Ahead(h) < CounterBase
             PROVE  Resolves(h.id) <=> SameClient(h)
  BY DEF IdsDistinguish, Ahead
<1>1. /\ h.id.index \in Slots /\ h.drops \in Nat /\ drops[h.id.index] \in Nat
      /\ h.id.counter \in Nat /\ h.id.counter < CounterBase
      /\ counter[h.id.index] \in Nat /\ counter[h.id.index] < CounterBase
      /\ CounterBase \in Nat
  BY ClientIdsAssumption DEF IdInv, IdTypes, Counters
<1>2. Ahead(h) \in Nat /\ (Ahead(h) = 0 <=> drops[h.id.index] = h.drops)
  BY <1>1 DEF IdInv, Ahead
<1>3. counter[h.id.index] = h.id.counter <=> Ahead(h) = 0
  BY <1>1, <1>2 DEF IdInv
<1> QED
  BY <1>1, <1>2, <1>3 DEF IdInv, Resolves, SameClient

(* An id resolves to the client it was made for and to no other client of  *)
(* the same slot, until the slot has been dropped as often as the counter  *)
(* has values.                                                             *)
THEOREM IdsAreDistinct == IdSpec => []IdsDistinguish
<1>1. IdSpec => []IdInv
  BY IdInitInv, IdStepInv, PTL DEF IdSpec
<1> QED
  BY <1>1, InvDistinguishes, PTL
=============================================================================
