----------------------------- MODULE Arena_proofs -----------------------------
(***************************************************************************)
(* Proofs about Arena.tla: for every page size, granularity and sequence   *)
(* of requests, the blocks are inside what is committed and no two of them *)
(* share a byte.                                                           *)
(***************************************************************************)
EXTENDS Arena, TLAPS

(* align_up never goes below the address it is given.                      *)
LEMMA AlignUpType ==
  ASSUME NEW x \in Nat, NEW a \in Nat \ {0}
  PROVE  align_up(x, a) \in Nat /\ align_up(x, a) >= x
<1> DEFINE q == (x + a - 1) \div a
           r == (x + a - 1) % a
<1>1. q \in Nat /\ r \in 0 .. a - 1 /\ x + a - 1 = a * q + r
  OBVIOUS
<1>2. a * q = q * a
  BY <1>1
<1>3. q * a \in Nat
  BY <1>1
<1>4. q * a >= x
  BY <1>1, <1>2, <1>3
<1> QED
  BY <1>3, <1>4 DEF align_up

LEMMA ModStep ==
  ASSUME NEW x \in Nat, NEW g \in Nat \ {0}, x % g = 0
  PROVE  (x + g) % g = 0
<1> DEFINE q == x \div g
           p == (x + g) \div g
           r == (x + g) % g
<1>1. q \in Int /\ x = g * q
  OBVIOUS
<1>2. p \in Int /\ r \in 0 .. g - 1 /\ x + g = g * p + r
  OBVIOUS
<1>3. r = g * q + g - g * p
  BY <1>1, <1>2
<1> DEFINE d == q + 1 - p
<1>4. d \in Int /\ g * d = g * q + g - g * p
  BY <1>1, <1>2
<1>5. d >= 1 => g * d >= g
  BY <1>4
<1>6. d <= -1 => g * d <= -g
  BY <1>4
<1>7. r = g * d
  BY <1>3, <1>4
<1>8. d = 0
  <2> HIDE DEF d, r
  <2> QED
    BY <1>2, <1>4, <1>5, <1>6, <1>7
<1>9. g * d = 0
  BY <1>8
<1> QED
  BY <1>7, <1>9

-----------------------------------------------------------------------------
(* Where the request being served lies, and what is behind the last block. *)
RequestInv ==
  /\ granularity > 0
  /\ pc = "idle" => memptr <= memend
  /\ pc = "alloc" => Base <= memptr /\ memptr <= ptr /\ ptr <= new_memptr
  /\ Base <= memptr /\ Base <= memend

ArenaInv ==
  /\ ArenaTypeOK
  /\ RequestInv
  /\ BlocksCommitted
  /\ BlocksDisjoint
  /\ OnDemand

-----------------------------------------------------------------------------
LEMMA ArenaInitInv == ArenaInit => ArenaInv
<1> SUFFICES ASSUME ArenaInit PROVE ArenaInv
  OBVIOUS
<1>1. virtual_size \in Nat
  BY AlignUpType, ArenaAssumption DEF ArenaInit
<1>2. granularity \in Nat /\ granularity > 0
  <2>1. PICK size \in Granularities : granularity = align_up(size, PageSize)
    BY DEF ArenaInit
  <2>2. size \in Nat \ {0} /\ PageSize \in Nat \ {0}
    BY ArenaAssumption
  <2> QED
    BY <2>1, <2>2, AlignUpType
<1>3. 0 % granularity = 0
  BY <1>2
<1>4. ArenaTypeOK
  BY <1>1, <1>2, <1>3, ArenaAssumption DEF ArenaInit, ArenaTypeOK
<1>5. RequestInv /\ BlocksCommitted /\ BlocksDisjoint /\ OnDemand
  BY <1>2, ArenaAssumption
     DEF ArenaInit, RequestInv, BlocksCommitted, BlocksDisjoint, OnDemand
<1> QED
  BY <1>4, <1>5 DEF ArenaInv

(* One step per action; Commit and HandOut are those with something to     *)
(* show, the others leave the blocks and what is committed alone.          *)
LEMMA ArenaStepInv == ArenaInv /\ [ArenaNext]_arenaVars => ArenaInv'
<1> SUFFICES ASSUME ArenaInv, [ArenaNext]_arenaVars PROVE ArenaInv'
  OBVIOUS
<1> USE DEF ArenaInv
<1>1. ASSUME NEW size \in Sizes, NEW alignment \in Alignments,
             AllocRaw(size, alignment)
      PROVE  ArenaInv'
  <2>1. size \in Nat /\ alignment \in Nat \ {0}
    BY ArenaAssumption
  <2>2. memptr \in Nat
    BY DEF ArenaTypeOK
  <2>3. ptr' \in Nat /\ ptr' >= memptr /\ new_memptr' = ptr' + size
    BY <1>1, <2>1, <2>2, AlignUpType DEF AllocRaw
  <2>4. ArenaTypeOK'
    BY <1>1, <2>1, <2>3 DEF AllocRaw, ArenaTypeOK, arena
  <2>5. RequestInv' /\ OnDemand'
    BY <1>1, <2>1, <2>3, ArenaAssumption
       DEF AllocRaw, ArenaTypeOK, RequestInv, OnDemand, arena
  <2>6. BlocksCommitted' /\ BlocksDisjoint'
    BY <1>1 DEF AllocRaw, BlocksCommitted, BlocksDisjoint, arena
  <2> QED
    BY <2>4, <2>5, <2>6
<1>2. ASSUME Overflow \/ CommitFails PROVE ArenaInv'
  BY <1>2 DEF Overflow, CommitFails, Commits, ArenaTypeOK, RequestInv,
              BlocksCommitted, BlocksDisjoint, OnDemand, arena
<1>3. ASSUME Commit PROVE ArenaInv'
  <2>1. /\ memend' = memend + granularity
        /\ pc = "alloc" /\ new_memptr >= memend
        /\ UNCHANGED <<pc, granularity, virtual_size, committed_size, memptr,
                       ptr, new_memptr, blocks>>
    BY <1>3 DEF Commit, Commits
  <2>2. (memend' - Base) % granularity = 0
    <3>1. /\ memend \in Nat /\ granularity \in Nat \ {0} /\ Base \in Nat
          /\ (memend - Base) % granularity = 0
      BY ArenaAssumption DEF ArenaTypeOK, RequestInv
    <3>2. memend - Base \in Nat
      BY <3>1 DEF RequestInv
    <3>3. memend' - Base = (memend - Base) + granularity
      BY <2>1, <3>1
    <3> QED
      BY <3>1, <3>2, <3>3, ModStep
  <2>3. ArenaTypeOK'
    BY <2>1, <2>2 DEF ArenaTypeOK
  <2>4. RequestInv' /\ OnDemand'
    BY <2>1, ArenaAssumption DEF ArenaTypeOK, RequestInv, OnDemand
  <2>5. BlocksCommitted' /\ BlocksDisjoint'
    BY <2>1 DEF ArenaTypeOK, RequestInv, BlocksCommitted, BlocksDisjoint
  <2> QED
    BY <2>3, <2>4, <2>5
<1>4. ASSUME HandOut PROVE ArenaInv'
  <2>1. /\ pc = "alloc" /\ new_memptr < memend
        /\ memptr' = new_memptr /\ pc' = "idle"
        /\ blocks' = blocks \union {<<ptr, new_memptr>>}
        /\ UNCHANGED <<granularity, virtual_size, committed_size, memend,
                       ptr, new_memptr>>
    BY <1>4 DEF HandOut
  <2>2. /\ memptr \in Nat /\ ptr \in Nat /\ new_memptr \in Nat /\ memend \in Nat
        /\ Base \in Nat /\ Base <= ptr /\ memptr <= ptr /\ ptr <= new_memptr
    BY <2>1, ArenaAssumption DEF ArenaTypeOK, RequestInv
  <2>3. ArenaTypeOK'
    BY <2>1, <2>2 DEF ArenaTypeOK
  <2>4. RequestInv' /\ OnDemand'
    BY <2>1, <2>2 DEF RequestInv, OnDemand
  <2>5. \A b \in blocks : b \in Nat \X Nat /\ b[2] <= memptr
    BY DEF ArenaTypeOK, BlocksCommitted
  <2>6. BlocksCommitted'
    BY <2>1, <2>2, <2>5 DEF BlocksCommitted
  <2>7. BlocksDisjoint'
    BY <2>1, <2>2, <2>5 DEF BlocksDisjoint
  <2> QED
    BY <2>3, <2>4, <2>6, <2>7
<1>5. ASSUME UNCHANGED arenaVars PROVE ArenaInv'
  BY <1>5 DEF arenaVars, arena, ArenaTypeOK, RequestInv, BlocksCommitted,
              BlocksDisjoint, OnDemand
<1> QED
  BY <1>1, <1>2, <1>3, <1>4, <1>5 DEF ArenaNext

LEMMA ArenaInvariant == ArenaSpec => []ArenaInv
  BY ArenaInitInv, ArenaStepInv, PTL DEF ArenaSpec

-----------------------------------------------------------------------------
(* Type correctness of the arena; what is committed is always a whole      *)
(* number of granules.                                                     *)
THEOREM ArenaTypeCorrect == ArenaSpec => []ArenaTypeOK
  BY ArenaInvariant, PTL DEF ArenaInv

(* arena_alloc_raw hands out committed memory only.                        *)
THEOREM BlocksUsable == ArenaSpec => []BlocksCommitted
  BY ArenaInvariant, PTL DEF ArenaInv

(* arena_alloc_raw never hands out a byte twice.                           *)
THEOREM BlocksSeparate == ArenaSpec => []BlocksDisjoint
  BY ArenaInvariant, PTL DEF ArenaInv

(* arena_commit is called no more often than the requests need.            *)
THEOREM CommitsOnDemand == ArenaSpec => []OnDemand
  BY ArenaInvariant, PTL DEF ArenaInv
=============================================================================
