---------------------------- MODULE ServerFraming ----------------------------
(***************************************************************************)
(* What the frame reader of server.cc delivers, against a reference        *)
(* parser.  Server.tla is extended by two histories: the bytes recv gave   *)
(* the server for the connection in each slot, and the messages on_read    *)
(* got for it.  However the bytes were cut up on the way, and whoever had  *)
(* the slot and its readbuf before, the messages are those of the stream.  *)
(***************************************************************************)
EXTENDS Server

CONSTANT MaxReceived   \* bound: bytes received on one connection

VARIABLES
  received,    \* received[c]: everything recv returned since on_accept
  delivered    \* delivered[c]: the data of every on_read since on_accept

framingVars == <<received, delivered>>

-----------------------------------------------------------------------------
(***************************************************************************)
(* The reference: a stream is a sequence of frames, each a length of two   *)
(* bytes, low byte first, and that many bytes of data.                     *)
(***************************************************************************)

LengthAt(stream, i) == stream[i] + ByteBase * stream[i + 1]

(* A frame starting at i is whole.  An empty or oversized one never is:    *)
(* the connection ends there.                                              *)
WholeAt(stream, i) ==
  /\ i + 1 <= Len(stream)
  /\ LengthAt(stream, i) \in 1 .. ReadbufSize
  /\ i + 1 + LengthAt(stream, i) <= Len(stream)

(* The messages of the whole frames of a stream.                           *)
Messages(stream) ==
  LET From[i \in 1 .. Len(stream) + 1] ==
        IF WholeAt(stream, i)
          THEN LET n == LengthAt(stream, i)
               IN  <<SubSeq(stream, i + 2, i + 1 + n)>> \o From[i + 2 + n]
          ELSE <<>>
  IN  From[1]

-----------------------------------------------------------------------------
FramingInit ==
  /\ Init
  /\ received = [c \in Slots |-> <<>>]
  /\ delivered = [c \in Slots |-> <<>>]

FramingAccept(s) ==
  /\ AcceptConnection(s)
  /\ received' = [received EXCEPT ![freelist_head] = <<>>]
  /\ delivered' = [delivered EXCEPT ![freelist_head] = <<>>]

FramingRecv(c) ==
  /\ RecvPartial(c) \/ RecvHeader(c) \/ RecvOversize(c)
  /\ received' = [received EXCEPT ![c] = @ \o SubSeq(avail[fd[c]], 1, Received(c))]
  /\ UNCHANGED delivered

FramingMessage(c) ==
  /\ RecvMessage(c)
  /\ received' = [received EXCEPT ![c] = @ \o SubSeq(avail[fd[c]], 1, Received(c))]
  /\ delivered' = [delivered EXCEPT ![c] =
                     Append(@, SubSeq(Filled(c), 1, message_length[c]))]

(* The bound on a connection's bytes, and everything that reads nothing.   *)
WithinBound(s) ==
  \A c \in Slots : fd[c] = s => Len(received[c]) + Len(avail[s]) < MaxReceived

FramingOther ==
  /\ \/ AcceptNone
     \/ \E s \in Sockets : RejectConnection(s) \/ AcceptError(s)
     \/ Polling
     \/ \E c \in Slots :
          \/ Visit(c) \/ Write(c) \/ Settle(c)
          \/ RecvError(c) \/ RecvWouldBlock(c) \/ RecvNothing(c)
     \/ \E s \in Sockets :
          \/ Connect(s)
          \/ WithinBound(s) /\ \E b \in Bytes : PeerSend(s, b)
          \/ PeerFin(s) \/ PeerReset(s) \/ PeerRead(s) \/ Lingered(s)
  /\ UNCHANGED framingVars

FramingNext ==
  \/ \E s \in Sockets : FramingAccept(s)
  \/ \E c \in Slots : FramingRecv(c) \/ FramingMessage(c)
  \/ FramingOther

FramingSpec == FramingInit /\ [][FramingNext]_<<vars, framingVars>>

-----------------------------------------------------------------------------
(* At every moment on_read has been given the messages of the whole frames *)
(* received on this connection: none missing, none twice, none out of      *)
(* order, none cut or mixed with the data of an earlier frame or an        *)
(* earlier connection.                                                     *)
MessagesOfStream ==
  \A c \in Slots : Open(c) => delivered[c] = Messages(received[c])
=============================================================================
