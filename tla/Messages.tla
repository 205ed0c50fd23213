------------------------------ MODULE Messages ------------------------------
(***************************************************************************)
(* A message on its way: its fields are written into an OutPacket, which   *)
(* is wrapped, sent as a frame and unwrapped, and read as the same kinds   *)
(* of fields.  A frame may be changed on the way; and a message may end    *)
(* before the fields its reader asks for.                                  *)
(***************************************************************************)
EXTENDS Crypto

CONSTANTS
  Fields,           \* what a field may be: see IsField
  MaxFields,        \* bound: fields of a message
  MaxLen,           \* size of the array a string is read into
  BufferSize,       \* OUT_PACKET_BUFFER_SIZE
  Keys,             \* keys of XTEA
  Changes           \* what a byte of a frame may be changed to

(* A field is an integer that its bytes have room for, or a string.        *)
IsField(f) ==
  \/ /\ f \in [kind : {"int"}, size : {1, 2, 4}, value : Nat]
     /\ f.value < Values(f.size)
  \/ f \in [kind : {"string"}, value : Seq(Octet)]

(* A frame's length is a u16.                                              *)
ASSUME MessagesAssumption ==
  /\ \A f \in Fields : IsField(f)
  /\ MaxFields \in Nat /\ MaxLen \in Nat
  /\ BufferSize \in 9 .. Half - 1
  /\ Keys \subseteq [1 .. 4 -> 0 .. Word - 1]
  /\ Changes \subseteq Octet

VARIABLES
  pc,           \* "writing", then what becomes of the message
  key,          \* the key both ends have
  fields,       \* what was given to the writer
  out,          \* the OutPacket
  frame,        \* what packet_wrap made of it
  changed,      \* was a byte of it changed on the way?
  in,           \* the InPacket
  got           \* what its reader has returned

msgVars == <<pc, key, fields, out, frame, changed, in, got>>

-----------------------------------------------------------------------------
(* The field as it goes out: the length of a string has 16 bits.           *)
Sent(f) ==
  IF f.kind = "int" THEN f
  ELSE [kind |-> "string", value |-> SubSeq(f.value, 1, Len(f.value) % Half)]

SizeOf(f) == IF f.kind = "int" THEN f.size ELSE 2 + Len(f.value)

(* How many bytes the first i fields take.                                 *)
EndOf(i) ==
  LET end[j \in 0 .. Len(fields)] ==
        IF j = 0 THEN 0 ELSE end[j - 1] + SizeOf(Sent(fields[j]))
  IN  end[i]

WriteField(p, f) ==
  IF f.kind = "int" THEN WriteInt(p, f.value, f.size) ELSE WriteString(p, f.value)

(* The message: what was written behind the eight bytes left free.         *)
Payload == SubSeq(out.buf, 9, WrittenLen(out))

-----------------------------------------------------------------------------
(* A packet is given out with what it was last used for still in it.       *)
MsgInit ==
  /\ pc = "writing"
  /\ key \in Keys
  /\ fields = <<>>
  /\ \E byte \in Changes :
       out = [buf |-> [i \in 1 .. BufferSize |-> byte], end |-> BufferSize, pos |-> 8]
  /\ frame = <<>>
  /\ changed = FALSE
  /\ in = InPacket(<<>>)
  /\ got = <<>>

PutField ==
  /\ pc = "writing"
  /\ Len(fields) < MaxFields
  /\ \E f \in Fields :
       /\ fields' = Append(fields, f)
       /\ out' = WriteField(out, f)
  /\ UNCHANGED <<pc, key, frame, changed, in, got>>

(* packet_wrap: the frame starts with its length.                          *)
Wrap ==
  /\ pc = "writing"
  /\ LET wrap == PacketWrap(out, key)
     IN  /\ pc' = wrap.result
         /\ IF wrap.result = "wrapped"
            THEN out' = wrap.p /\ frame' = SubSeq(wrap.p.buf, 1, wrap.p.pos)
            ELSE UNCHANGED <<out, frame>>
  /\ UNCHANGED <<key, fields, changed, in, got>>

(* The reader gets the first n bytes of the message only.                  *)
CutShort ==
  /\ pc = "writing"
  /\ \E n \in 0 .. Len(Payload) : in' = InPacket(SubSeq(Payload, 1, n))
  /\ pc' = "reading"
  /\ UNCHANGED <<key, fields, out, frame, changed, got>>

(* One byte of the frame, but not of its length, becomes another.          *)
Change ==
  /\ pc = "wrapped"
  /\ ~changed
  /\ \E i \in 3 .. Len(frame), byte \in Changes :
       frame[i] # byte /\ frame' = [frame EXCEPT ![i] = byte]
  /\ changed' = TRUE
  /\ UNCHANGED <<pc, key, fields, out, in, got>>

(* packet_unwrap, which the server hands the frame without its length.     *)
Unwrap ==
  /\ pc = "wrapped"
  /\ LET unwrap == PacketUnwrap(SubSeq(frame, 3, Len(frame)), key)
     IN  IF unwrap.ok THEN pc' = "reading" /\ in' = unwrap.p
         ELSE pc' = "rejected" /\ UNCHANGED in
  /\ UNCHANGED <<key, fields, out, frame, changed, got>>

ReadNumber ==
  /\ pc = "reading"
  /\ Len(got) < Len(fields)
  /\ LET f == fields[Len(got) + 1]
     IN  /\ f.kind = "int"
         /\ got' = Append(got, ReadInt(in, f.size))
         /\ in' = Skip(in, f.size)
  /\ UNCHANGED <<pc, key, fields, out, frame, changed>>

ReadText ==
  /\ pc = "reading"
  /\ Len(got) < Len(fields)
  /\ fields[Len(got) + 1].kind = "string"
  /\ got' = Append(got, ReadString(in, MaxLen))
  /\ in' = SkipString(in)
  /\ UNCHANGED <<pc, key, fields, out, frame, changed>>

MsgNext == PutField \/ Wrap \/ CutShort \/ Change \/ Unwrap \/ ReadNumber \/ ReadText

MsgSpec == MsgInit /\ [][MsgNext]_msgVars

-----------------------------------------------------------------------------
(* What the reader must return for field i when the message has n bytes.   *)
Received(i, n) ==
  LET f == Sent(fields[i])
  IN  IF EndOf(i) <= n /\ (f.kind = "int" \/ Len(f.value) < MaxLen) THEN f.value
      ELSE IF f.kind = "int" THEN 0 ELSE <<>>

(* packet.hh: a message that ends early, or did not fit, gives its reader  *)
(* every field that is whole and nothing of the others, and packet_ok says *)
(* at any time if all that was read was there, although a reader goes on   *)
(* over fields that are not.                                               *)
FieldsAsWritten ==
  /\ pc = "writing" => (PacketOk(out) <=> 8 + EndOf(Len(fields)) <= BufferSize)
  /\ pc = "reading" =>
       /\ \A i \in DOMAIN got : got[i] = Received(i, in.end)
       /\ PacketOk(in) <=> EndOf(Len(got)) <= in.end

(* packet_wrap and packet_unwrap: exactly a message that fits with its     *)
(* padding is sent, as a frame for the server at the other end, which      *)
(* finds the whole of it; with any one byte changed it is refused, and     *)
(* only then.                                                              *)
MessagesSurviveWrap ==
  LET room == BufferSize - 6
      fits == EndOf(Len(fields)) + 2 <= room - (room % 8)
  IN  /\ pc = "panic" => fields = <<>>
      /\ pc = "refused" => ~fits
      /\ pc = "wrapped" => fits /\ ReadLE(SubSeq(frame, 1, 2)) = Len(frame) - 2
      /\ pc = "rejected" => changed
      /\ pc = "reading" /\ frame # <<>> => ~changed /\ in.end = EndOf(Len(fields))

(* The sums as the checksum defines them: of the bytes and 1, and of all   *)
(* sums on the way.                                                        *)
SumsOf(data) ==
  LET sums[i \in 0 .. Len(data)] ==
        IF i = 0 THEN [a |-> 1, b |-> 0]
        ELSE LET last == sums[i - 1]
             IN  [a |-> last.a + data[i], b |-> last.b + last.a + data[i]]
  IN  sums[Len(data)]

ChecksumOf(data) ==
  LET sum == SumsOf(data) IN (sum.a % ADLER32_BASE) + Half * (sum.b % ADLER32_BASE)

(* adler32: the checksum of a frame, and of any beginning of it, is what   *)
(* the definition says: words that are reduced only once in NMAX bytes do  *)
(* not wrap before, however the length relates to NMAX.                    *)
ChecksumExact ==
  pc = "wrapped" =>
    /\ ~changed => ReadLE(SubSeq(frame, 3, 6)) = ChecksumOf(SubSeq(frame, 7, Len(frame)))
    /\ \A n \in 0 .. Len(frame) : Adler32(SubSeq(frame, 1, n)) = ChecksumOf(SubSeq(frame, 1, n))

=============================================================================
