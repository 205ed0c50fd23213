----------------------------- MODULE OutPackets -----------------------------
(***************************************************************************)
(* The output packets of game_server.cc: buffers that are taken from a     *)
(* list of recycled ones (or from the arena when there is none), linked    *)
(* into a client's write queue, wrapped, handed to the server as           *)
(* out_writing and recycled afterwards.  Queues and list are the linked    *)
(* structures of the code: one `next' pointer per packet, a head and a     *)
(* tail per client.  GameServer.tla conjoins these operations with the     *)
(* callbacks that make them.                                               *)
(***************************************************************************)
EXTENDS ConnectionSlots, SequencesExt

CONSTANTS
  MaxPackets,       \* bound: packets the arena is asked for
  BufSize           \* OUT_PACKET_BUFFER_SIZE

HeaderSize == 8     \* what get_out_packet leaves for the header

ASSUME OutPacketsAssumption ==
  /\ MaxPackets \in Nat
  /\ BufSize \in Nat /\ BufSize > HeaderSize /\ BufSize % 8 = 0

Packets == 1 .. MaxPackets
NULL == 0
PacketOrNull == Packets \union {NULL}

VARIABLES
  next,             \* OutPacket.next
  bufpos,           \* OutPacket.bufpos
  allocated,        \* number of packets taken from the arena so far
  output_head,      \* Game.output_head, the first recycled packet
  out_writing, out_queue_head, out_queue_tail   \* of each Client

queueVars == <<out_writing, out_queue_head, out_queue_tail>>
packetVars == <<next, bufpos, allocated, output_head, queueVars>>

-----------------------------------------------------------------------------
(* The packets from p on along the links nxt.  No chain is longer than the *)
(* number of packets.                                                      *)
ChainAlong(nxt, p) ==
  LET From[n \in 0 .. MaxPackets] ==
        [q \in PacketOrNull |->
           IF q = NULL \/ n = 0 THEN <<>> ELSE <<q>> \o From[n - 1][nxt[q]]]
  IN  From[MaxPackets][p]

Chain(p) == ChainAlong(next, p)

CanWrite(p, n) == BufSize - bufpos[p] >= n

-----------------------------------------------------------------------------
(***************************************************************************)
(* get_out_packet(client, size), and the writer that puts `written' bytes  *)
(* into the packet it returns.                                             *)
(***************************************************************************)

(* Mutant: no bytes are kept for the padding.                              *)
FitsTailExactly(c, size) ==
  /\ out_queue_tail[c] # NULL
  /\ size > 0
  /\ CanWrite(out_queue_tail[c], size)

(* The packet at the tail is used again if `size' bytes leave room for any *)
(* padding; size 0 asks for a packet of its own.                           *)
FitsTail(c, size) ==
  /\ out_queue_tail[c] # NULL
  /\ size > 0
  /\ CanWrite(out_queue_tail[c], size + 7)

AppendToTail(c, size, written) ==
  /\ FitsTail(c, size)
  /\ bufpos' = [bufpos EXCEPT ![out_queue_tail[c]] = @ + written]
  /\ UNCHANGED <<next, allocated, output_head, queueVars>>

(* Mutant: the count of packets runs ahead of the packets.                 *)
FreshPacketMiscounts(p) ==
  \/ /\ output_head # NULL
     /\ p = output_head
     /\ output_head' = next[p]
     /\ UNCHANGED allocated
  \/ /\ output_head = NULL
     /\ allocated < MaxPackets
     /\ p = allocated + 1
     /\ allocated' = p + 1
     /\ UNCHANGED output_head

(* A recycled packet, or a new one from the arena.                         *)
FreshPacket(p) ==
  \/ /\ output_head # NULL
     /\ p = output_head
     /\ output_head' = next[p]
     /\ UNCHANGED allocated
  \/ /\ output_head = NULL
     /\ allocated < MaxPackets
     /\ p = allocated + 1
     /\ allocated' = p
     /\ UNCHANGED output_head

(* Mutant: the old tail is not linked to the new packet.                   *)
AppendFreshUnlinked(c, size, written) ==
  /\ ~FitsTail(c, size)
  /\ \E p \in Packets :
       /\ FreshPacket(p)
       /\ next' = [next EXCEPT ![p] = NULL]
       /\ bufpos' = [bufpos EXCEPT ![p] = HeaderSize + written]
       /\ out_queue_tail' = [out_queue_tail EXCEPT ![c] = p]
       /\ out_queue_head' = [out_queue_head EXCEPT ![c] =
                               IF out_queue_tail[c] = NULL THEN p ELSE @]
  /\ UNCHANGED out_writing

AppendFresh(c, size, written) ==
  /\ ~FitsTail(c, size)
  /\ \E p \in Packets :
       /\ FreshPacket(p)
       /\ next' = [q \in Packets |-> IF q = p THEN NULL
                                     ELSE IF q = out_queue_tail[c] THEN p
                                     ELSE next[q]]
       /\ bufpos' = [bufpos EXCEPT ![p] = HeaderSize + written]
       /\ out_queue_tail' = [out_queue_tail EXCEPT ![c] = p]
       /\ out_queue_head' = [out_queue_head EXCEPT ![c] =
                               IF out_queue_tail[c] = NULL THEN p ELSE @]
  /\ UNCHANGED out_writing

PutMessage(c, size, written) ==
  AppendToTail(c, size, written) \/ AppendFresh(c, size, written)

-----------------------------------------------------------------------------
(***************************************************************************)
(* release_out_packet, once for each packet of a sequence in turn.         *)
(***************************************************************************)

NextAfterRelease(ps) ==
  [q \in Packets |->
     IF \E i \in DOMAIN ps : ps[i] = q
       THEN LET i == CHOOSE j \in DOMAIN ps : ps[j] = q
            IN  IF i = 1 THEN output_head ELSE ps[i - 1]
       ELSE next[q]]

Release(ps) ==
  /\ next' = NextAfterRelease(ps)
  /\ output_head' = IF ps = <<>> THEN output_head ELSE ps[Len(ps)]

Written(c) == IF out_writing[c] = NULL THEN <<>> ELSE <<out_writing[c]>>

(* Mutant: the packets are recycled, the client still points to them.      *)
ReleaseClientKeepsPointers(c) ==
  /\ Release(Written(c) \o Chain(out_queue_tail[c]))
  /\ UNCHANGED <<bufpos, allocated, queueVars>>

(* on_drop: the packet being written and what the loop from the tail finds.*)
ReleaseClient(c) ==
  /\ Release(Written(c) \o Chain(out_queue_tail[c]))
  /\ out_writing' = [out_writing EXCEPT ![c] = NULL]
  /\ out_queue_head' = [out_queue_head EXCEPT ![c] = NULL]
  /\ out_queue_tail' = [out_queue_tail EXCEPT ![c] = NULL]
  /\ UNCHANGED <<bufpos, allocated>>

-----------------------------------------------------------------------------
(***************************************************************************)
(* packet_wrap pads a packet so that what follows its first 6 bytes is a   *)
(* multiple of 8 long, and fails when the padding does not fit.            *)
(***************************************************************************)

Padding(p) == (HeaderSize - 2 - bufpos[p]) % 8
WrapFits(p) == CanWrite(p, Padding(p))

(* Mutant: the tail still points to the last packet when it leaves.        *)
WriteHeadKeepsTail(c) ==
  LET p == out_queue_head[c]
  IN  /\ p # NULL
      /\ WrapFits(p)
      /\ Release(Written(c))
      /\ bufpos' = [bufpos EXCEPT ![p] = @ + Padding(p)]
      /\ out_writing' = [out_writing EXCEPT ![c] = p]
      /\ out_queue_head' = [out_queue_head EXCEPT ![c] = next[p]]
      /\ UNCHANGED <<allocated, out_queue_tail>>

(* Mutant: the packet is recycled when its writing begins.                 *)
WriteHeadReleasesEarly(c) ==
  LET p == out_queue_head[c]
  IN  /\ p # NULL
      /\ WrapFits(p)
      /\ Release(Written(c) \o <<p>>)
      /\ bufpos' = [bufpos EXCEPT ![p] = @ + Padding(p)]
      /\ out_writing' = [out_writing EXCEPT ![c] = p]
      /\ out_queue_head' = [out_queue_head EXCEPT ![c] = next[p]]
      /\ out_queue_tail' = [out_queue_tail EXCEPT ![c] =
                              IF next[p] = NULL THEN NULL ELSE @]
      /\ UNCHANGED allocated

(* Mutant: the packet written before is forgotten when another follows.    *)
WriteHeadForgetsWritten(c) ==
  LET p == out_queue_head[c]
  IN  /\ p # NULL
      /\ WrapFits(p)
      /\ bufpos' = [bufpos EXCEPT ![p] = @ + Padding(p)]
      /\ out_writing' = [out_writing EXCEPT ![c] = p]
      /\ out_queue_head' = [out_queue_head EXCEPT ![c] = next[p]]
      /\ out_queue_tail' = [out_queue_tail EXCEPT ![c] =
                              IF next[p] = NULL THEN NULL ELSE @]
      /\ UNCHANGED <<next, allocated, output_head>>

(* request_output: the packet written before is recycled, and the head of  *)
(* the queue, if it can be wrapped, is the next one to be written.         *)
WriteHead(c) ==
  LET p == out_queue_head[c]
  IN  /\ p # NULL
      /\ WrapFits(p)
      /\ Release(Written(c))
      /\ bufpos' = [bufpos EXCEPT ![p] = @ + Padding(p)]
      /\ out_writing' = [out_writing EXCEPT ![c] = p]
      /\ out_queue_head' = [out_queue_head EXCEPT ![c] = next[p]]
      /\ out_queue_tail' = [out_queue_tail EXCEPT ![c] =
                              IF next[p] = NULL THEN NULL ELSE @]
      /\ UNCHANGED allocated

(* Mutant: out_writing is not reset after its packet is recycled.          *)
WriteNothingKeepsPointer(c) ==
  /\ Release(Written(c))
  /\ UNCHANGED <<bufpos, allocated, queueVars>>

WriteNothing(c) ==
  /\ Release(Written(c))
  /\ out_writing' = [out_writing EXCEPT ![c] = NULL]
  /\ UNCHANGED <<bufpos, allocated, out_queue_head, out_queue_tail>>

ForgetPackets(c) ==
  /\ out_writing' = [out_writing EXCEPT ![c] = NULL]
  /\ out_queue_head' = [out_queue_head EXCEPT ![c] = NULL]
  /\ out_queue_tail' = [out_queue_tail EXCEPT ![c] = NULL]
  /\ UNCHANGED <<next, bufpos, allocated, output_head>>

PacketsInit ==
  /\ next = [p \in Packets |-> NULL]
  /\ bufpos = [p \in Packets |-> 0]
  /\ allocated = 0
  /\ output_head = NULL
  /\ out_writing = [c \in Slots |-> NULL]
  /\ out_queue_head = [c \in Slots |-> NULL]
  /\ out_queue_tail = [c \in Slots |-> NULL]

-----------------------------------------------------------------------------
PacketsTypeOK ==
  /\ next \in [Packets -> PacketOrNull]
  /\ bufpos \in [Packets -> Nat]
  /\ allocated \in 0 .. MaxPackets
  /\ output_head \in PacketOrNull
  /\ out_writing \in [Slots -> PacketOrNull]
  /\ out_queue_head \in [Slots -> PacketOrNull]
  /\ out_queue_tail \in [Slots -> PacketOrNull]

Recycled == ToSet(Chain(output_head))
Queued(c) == ToSet(Chain(out_queue_head[c]))
InFlight(c) == ToSet(Written(c))

(* A packet has one owner: it is recycled, or in one client's queue, or    *)
(* being written for one client, never two of these, and never twice.      *)
PacketOwnership ==
  /\ Recycled \subseteq 1 .. allocated
  /\ \A c \in Slots :
       /\ Queued(c) \union InFlight(c) \subseteq 1 .. allocated
       /\ Queued(c) \intersect InFlight(c) = {}
       /\ (Queued(c) \union InFlight(c)) \intersect Recycled = {}
       /\ \A d \in Slots \ {c} :
            (Queued(c) \union InFlight(c)) \intersect (Queued(d) \union InFlight(d)) = {}

(* The queue of a client runs from its head to its tail and ends there     *)
(* (what get_out_packet, on_drop and request_output assert, and more).     *)
QueueShape ==
  \A c \in Slots :
    LET q == Chain(out_queue_head[c])
    IN  IF q = <<>> THEN out_queue_tail[c] = NULL
        ELSE out_queue_tail[c] = q[Len(q)] /\ next[q[Len(q)]] = NULL

(* Whatever mixture of messages filled a packet, it can be wrapped: the 7  *)
(* spare bytes of get_out_packet always hold the padding, also after the   *)
(* writer that puts in more than it asked for (send_cancel_walk).          *)
WrapAlwaysFits == \A p \in Packets : WrapFits(p)

(* Every packet taken from the arena is recycled, queued or being written: *)
(* the packets of a dropped client are "released" (game_on_drop).          *)
NoPacketLeak ==
  1 .. allocated = Recycled \union UNION {Queued(c) \union InFlight(c) : c \in Slots}

(* The packets taken from the arena that nobody has any more.              *)
Lost ==
  {p \in 1 .. allocated :
     p \notin Recycled /\ \A c \in Slots : p \notin Queued(c) \union InFlight(c)}
=============================================================================
