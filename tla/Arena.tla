-------------------------------- MODULE Arena --------------------------------
(***************************************************************************)
(* The memory arena of common.cc: a range of addresses is reserved once    *)
(* and committed granule by granule as blocks are taken from its front.    *)
(* Blocks are never given back.  arena_alloc_raw is one action per turn of *)
(* its loop, so that a commit may fail with the request half served; the   *)
(* first request is arena_init's own, for the MemArena itself.             *)
(***************************************************************************)
EXTENDS Integers

CONSTANTS
  PageSize,        \* os_page_size()
  VirtualSizes, Granularities,   \* the parameters arena_init may get
  Base,            \* the address the system reserves the range at
  HeaderSize,      \* sizeof(MemArena)
  Sizes,           \* the sizes of blocks asked for
  Alignments,      \* the alignments asked for, powers of two
  MaxAddress       \* bound: where the requests stop

ASSUME ArenaAssumption ==
  /\ PageSize \in Nat \ {0}
  /\ VirtualSizes \subseteq Nat \ {0} /\ Granularities \subseteq Nat \ {0}
  /\ Base \in Nat /\ Base % PageSize = 0
  /\ HeaderSize \in Nat
  /\ Sizes \subseteq Nat
  /\ Alignments \subseteq Nat \ {0}
  /\ MaxAddress \in Nat

VARIABLES
  pc,              \* "alloc" inside arena_alloc_raw, "idle" outside, "panic"
  granularity, virtual_size, committed_size, memend, memptr,   \* of the MemArena
  ptr, new_memptr, \* of the request that is being served
  blocks           \* history: the blocks handed out, <<first, first past it>>

arena == <<granularity, virtual_size, committed_size, memend, memptr>>
arenaVars == <<pc, arena, ptr, new_memptr, blocks>>

-----------------------------------------------------------------------------
(* Mutant: sizes are rounded down.                                         *)
align_down(size, alignment) == (size \div alignment) * alignment

(* (size + mask) & ~mask for the mask of a power of two.                   *)
align_up(size, alignment) == ((size + alignment - 1) \div alignment) * alignment

-----------------------------------------------------------------------------
ArenaInit ==
  /\ pc = "alloc"
  /\ \E size \in VirtualSizes : virtual_size = align_up(size, PageSize)
  /\ \E size \in Granularities : granularity = align_up(size, PageSize)
  /\ committed_size = 0 /\ memend = Base /\ memptr = Base
  /\ ptr = Base /\ new_memptr = Base + HeaderSize
  /\ blocks = {}

AllocRaw(size, alignment) ==
  /\ pc = "idle"
  /\ memptr < MaxAddress
  /\ ptr' = align_up(memptr, alignment)
  /\ new_memptr' = ptr' + size
  /\ pc' = "alloc"
  /\ UNCHANGED <<arena, blocks>>

Commits == pc = "alloc" /\ new_memptr >= memend

(* The check of arena_commit reads committed_size.                         *)
Overflows == committed_size + granularity > virtual_size

Overflow ==
  /\ Commits
  /\ Overflows
  /\ pc' = "panic"
  /\ UNCHANGED <<arena, ptr, new_memptr, blocks>>

(* Mutant: an arena that is asked for more commits a granule too many.     *)
CommitTwice ==
  /\ Commits
  /\ ~Overflows
  /\ memend' = memend + 2 * granularity
  /\ UNCHANGED <<pc, granularity, virtual_size, committed_size, memptr,
                 ptr, new_memptr, blocks>>

(* Mutant: an arena commits no more than the request lacks.                *)
CommitExactly ==
  /\ Commits
  /\ ~Overflows
  /\ memend' = new_memptr + 1
  /\ UNCHANGED <<pc, granularity, virtual_size, committed_size, memptr,
                 ptr, new_memptr, blocks>>

(* The system commits the granule behind memend.  It may do so behind the  *)
(* end of the reserved range too, when something else is mapped there.     *)
Commit ==
  /\ Commits
  /\ ~Overflows
  /\ memend' = memend + granularity
  /\ UNCHANGED <<pc, granularity, virtual_size, committed_size, memptr,
                 ptr, new_memptr, blocks>>

(* Or it cannot: out of memory, or nothing there to commit.                *)
CommitFails ==
  /\ Commits
  /\ ~Overflows
  /\ pc' = "panic"
  /\ UNCHANGED <<arena, ptr, new_memptr, blocks>>

(* Mutant: the loop around arena_commit is an if.                          *)
HandOutAtOnce ==
  /\ pc = "alloc"
  /\ memptr' = new_memptr
  /\ blocks' = blocks \union {<<ptr, new_memptr>>}
  /\ pc' = "idle"
  /\ UNCHANGED <<granularity, virtual_size, committed_size, memend, ptr, new_memptr>>

HandOut ==
  /\ pc = "alloc"
  /\ new_memptr < memend
  /\ memptr' = new_memptr
  /\ blocks' = blocks \union {<<ptr, new_memptr>>}
  /\ pc' = "idle"
  /\ UNCHANGED <<granularity, virtual_size, committed_size, memend, ptr, new_memptr>>

ArenaNext ==
  \/ \E size \in Sizes, alignment \in Alignments : AllocRaw(size, alignment)
  \/ Overflow \/ Commit \/ CommitFails \/ HandOut

ArenaSpec == ArenaInit /\ [][ArenaNext]_arenaVars

-----------------------------------------------------------------------------
(* Type correctness of the arena and of the request being served; what is  *)
(* committed is a whole number of granules.                                *)
ArenaTypeOK ==
  /\ pc \in {"idle", "alloc", "panic"}
  /\ granularity \in Nat /\ virtual_size \in Nat /\ committed_size \in Nat
  /\ memend \in Nat /\ memptr \in Nat
  /\ (memend - Base) % granularity = 0
  /\ ptr \in Nat /\ new_memptr \in Nat
  /\ blocks \in SUBSET (Nat \X Nat)

(* Whatever mixture of sizes and alignments was asked for, every block     *)
(* lies behind the start of the arena and inside what is committed.        *)
BlocksCommitted ==
  \A b \in blocks : Base <= b[1] /\ b[1] <= b[2] /\ b[2] <= memptr /\ b[2] <= memend

(* No byte belongs to two blocks.                                          *)
BlocksDisjoint ==
  \A b, d \in blocks : b # d => b[2] <= d[1] \/ d[2] <= b[1]

(* Commits are made on demand: no more than one granule is ahead of what   *)
(* has been handed out, or is being.                                       *)
OnDemand == memend - (IF pc = "idle" THEN memptr ELSE new_memptr) <= granularity

(* arena_commit's PANIC("arena overflow"): the arena never commits, and so *)
(* never hands out, memory behind the range it reserved.                   *)
StaysReserved == memend <= Base + virtual_size
=============================================================================
