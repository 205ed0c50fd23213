------------------------------ MODULE ClientIds ------------------------------
(***************************************************************************)
(* The client ids of game_server.cc: the 16-bit counter of a slot, which   *)
(* game_on_drop increments, together with the index of the slot.  An id is *)
(* made for a connected client, kept by some part of the game for as long  *)
(* as it likes, and looked up with game_get_client.  (Nothing in the       *)
(* repository keeps an id yet; the holder here is any code that may.)      *)
(***************************************************************************)
EXTENDS Callbacks

CONSTANTS
  CounterBase,    \* number of values of Client.counter (2^16)
  MaxDrops        \* bound: drops of one slot

ASSUME ClientIdsAssumption ==
  /\ CounterBase \in Nat \ {0}
  /\ MaxDrops \in Nat

VARIABLES
  counter,    \* Client.counter
  drops,      \* history: how often each slot was dropped
  held        \* the ids that were made, each with the drops of its slot then

idVars == <<cbVars, counter, drops, held>>

Counters == 0 .. CounterBase - 1

(* make_client_id and its inverse: both halves are 16 bits wide, so no     *)
(* part of one gets into the other.                                        *)
make_client_id(cnt, index) == [counter |-> cnt, index |-> index]

(* game_get_client: the slot of an id, unless the counter has moved on.    *)
Resolves(id) == counter[id.index] = id.counter

(* Mutant: the counter is zeroed with the rest of the client.              *)
NextCounterZeroed(c) == 0

NextCounter(c) == (counter[c] + 1) % CounterBase

IdOnAccept(c) ==
  /\ OnAccept(c)
  /\ UNCHANGED <<counter, drops, held>>

IdOnDrop(c) ==
  /\ drops[c] < MaxDrops
  /\ OnDrop(c)
  /\ counter' = [counter EXCEPT ![c] = NextCounter(c)]
  /\ drops' = [drops EXCEPT ![c] = @ + 1]
  /\ UNCHANGED held

KeepId(c) ==
  /\ open[c]
  /\ held' = held \union {[id |-> make_client_id(counter[c], c), drops |-> drops[c]]}
  /\ UNCHANGED <<cbVars, counter, drops>>

(* Nothing initializes the counters, and it does not matter.               *)
IdInit ==
  /\ CbInit
  /\ counter \in [Slots -> Counters]
  /\ drops = [c \in Slots |-> 0]
  /\ held = {}

IdNext == \E c \in Slots : IdOnAccept(c) \/ IdOnDrop(c) \/ KeepId(c)

IdSpec == IdInit /\ [][IdNext]_idVars

-----------------------------------------------------------------------------
(* Whether the client an id was made for is still the one in its slot.     *)
SameClient(h) == open[h.id.index] /\ drops[h.id.index] = h.drops

(* An id leads to the client it was made for, and to it only, until its    *)
(* slot has been dropped 2^16 times.                                       *)
IdsDistinguish ==
  \A h \in held :
    drops[h.id.index] - h.drops < CounterBase =>
      (Resolves(h.id) <=> SameClient(h))

=============================================================================
