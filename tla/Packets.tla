------------------------------ MODULE Packets -------------------------------
(***************************************************************************)
(* packet.hh: InPacket reads a message field by field, OutPacket writes    *)
(* one.  A field moves the position on by its size whether or not it is    *)
(* there; what is not there reads as 0, what does not fit is not written.  *)
(***************************************************************************)
EXTENDS Buffers

-----------------------------------------------------------------------------
(* InPacket *)

InPacket(buf) == [buf |-> buf, end |-> Len(buf), pos |-> 0]

PacketOk(p) == p.pos <= p.end

CanRead(p, n) == p.end - p.pos >= n

Remainder(p) == IF PacketOk(p) THEN p.end - p.pos ELSE 0

(* The n bytes at the position.                                            *)
Bytes(p, n) == SubSeq(p.buf, p.pos + 1, p.pos + n)

Skip(p, n) == [p EXCEPT !.pos = @ + n]

(* The integer of n bytes that packet_read_u8, _u16 or _u32 returns; the   *)
(* reader is Skip(p, n) afterwards.                                        *)
ReadInt(p, n) == IF CanRead(p, n) THEN ReadLE(Bytes(p, n)) ELSE 0

(* Mutant: a length that runs past the end is not counted.                 *)
SkipStringThatFits(p) ==
  LET len == ReadInt(p, 2)
  IN  IF CanRead(Skip(p, 2), len) THEN Skip(p, 2 + len) ELSE Skip(p, 2)

(* What packet_read_string leaves in outstr: the whole string, if it is    *)
(* there and shorter than maxlen, or none of it.                           *)
ReadString(p, maxlen) ==
  LET len == ReadInt(p, 2)
      at  == Skip(p, 2)
  IN  IF len > 0 /\ maxlen > len /\ CanRead(at, len) THEN Bytes(at, len) ELSE <<>>

SkipString(p) == Skip(p, 2 + ReadInt(p, 2))

-----------------------------------------------------------------------------
(* OutPacket *)

CanWrite(p, n) == p.end - p.pos >= n

WrittenLen(p) == IF PacketOk(p) THEN p.pos ELSE p.end

(* bytes put at the position, if they all fit.                             *)
Put(p, bytes) ==
  [p EXCEPT !.pos = @ + Len(bytes),
            !.buf = IF CanWrite(p, Len(bytes))
                    THEN [i \in DOMAIN @ |-> IF i - p.pos \in DOMAIN bytes
                                             THEN bytes[i - p.pos] ELSE @[i]]
                    ELSE @]

WriteInt(p, x, n) == Put(p, WriteLE(x, n))

(* packet_write_str and packet_write_lstr: the length is cut to 16 bits.   *)
WriteString(p, s) ==
  LET len == Len(s) % Half
  IN  Put(WriteInt(p, len, 2), SubSeq(s, 1, len))

=============================================================================
