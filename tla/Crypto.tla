------------------------------- MODULE Crypto -------------------------------
(***************************************************************************)
(* crypto.cc without RSA: the checksum and XTEA; and packet_wrap and       *)
(* packet_unwrap of the two servers, which put both around a message.      *)
(***************************************************************************)
EXTENDS Packets

CONSTANTS
  ADLER32_BASE,     \* 65521: the largest prime a half word has room for
  ADLER32_NMAX,     \* 5552: how many bytes go into a word before it is reduced
  delta,            \* 0x9E3779B9
  decode_sum        \* 0xC6EF3720

(* A run of NMAX bytes fits a word, whatever the bytes: a and b start it   *)
(* below BASE; and 32 rounds of encoding add what decoding starts from.    *)
ASSUME CryptoAssumption ==
  /\ ADLER32_BASE \in ByteBase .. Half
  /\ ADLER32_NMAX \in Nat \ {0}
  /\ (ByteBase - 1) * (ADLER32_NMAX * (ADLER32_NMAX + 1))
       + 2 * ((ADLER32_NMAX + 1) * (ADLER32_BASE - 1)) < 2 * Word
  /\ delta \in 0 .. Word - 1
  /\ decode_sum = (32 * delta) % Word

-----------------------------------------------------------------------------
(* CHECKSUM - ADLER32 *)

(* ADLER32_DO1: a and b are words.                                         *)
AddByte(s, byte) ==
  LET a == (s.a + byte) % Word
  IN  [a |-> a, b |-> (s.b + a) % Word]

Reduced(s) == [a |-> s.a % ADLER32_BASE, b |-> s.b % ADLER32_BASE]

(* Mutant: a and b are reduced once, in the end.                           *)
AccumulateAtOnce(s, data) ==
  LET sums[i \in 0 .. Len(data)] ==
        IF i = 0 THEN s ELSE AddByte(sums[i - 1], data[i])
  IN  Reduced(sums[Len(data)])

(* The bytes in runs of at most NMAX, after each of which a and b are      *)
(* reduced.  (The unrolling by 16 inside a run leaves no trace.)           *)
Accumulate(s, data) ==
  LET sums[i \in 0 .. Len(data)] ==
        IF i = 0 THEN s
        ELSE IF i % ADLER32_NMAX = 0 \/ i = Len(data)
        THEN Reduced(AddByte(sums[i - 1], data[i]))
        ELSE AddByte(sums[i - 1], data[i])
  IN  sums[Len(data)]

Adler32(data) ==
  LET sum == Accumulate([a |-> 1, b |-> 0], data) IN sum.a + Half * sum.b

-----------------------------------------------------------------------------
(* XTEA *)

(* The exclusive or of two words, from the lowest bits up.                 *)
Xor(x, y) ==
  LET xor[p \in (0 .. Word - 1) \X (0 .. Word - 1)] ==
        IF p = <<0, 0>> THEN 0
        ELSE ((p[1] + p[2]) % 2) + 2 * xor[<<p[1] \div 2, p[2] \div 2>>]
  IN  xor[<<x, y>>]

Mixed(v) == (Xor((v * 16) % Word, v \div 32) + v) % Word

(* What a round adds to the first word, and to the second.                 *)
First(k, sum, v1) == Xor(Mixed(v1), (sum + k[1 + (sum % 4)]) % Word)

Second(k, sum, v0) == Xor(Mixed(v0), (sum + k[1 + ((sum \div 2048) % 4)]) % Word)

EncodeRound(k, s) ==
  LET v0  == (s.v0 + First(k, s.sum, s.v1)) % Word
      sum == (s.sum + delta) % Word
  IN  [v0 |-> v0, v1 |-> (s.v1 + Second(k, sum, v0)) % Word, sum |-> sum]

DecodeRound(k, s) ==
  LET v1  == (s.v1 - Second(k, s.sum, s.v0)) % Word
      sum == (s.sum - delta) % Word
  IN  [v0 |-> (s.v0 - First(k, sum, v1)) % Word, v1 |-> v1, sum |-> sum]

EncodeRounds(k, s) ==
  LET after[r \in 0 .. 32] == IF r = 0 THEN s ELSE EncodeRound(k, after[r - 1])
  IN  after[32]

DecodeRounds(k, s) ==
  LET after[r \in 0 .. 32] == IF r = 0 THEN s ELSE DecodeRound(k, after[r - 1])
  IN  after[32]

(* A block of eight bytes is two words.                                    *)
Block == [1 .. 8 -> Octet]

BlockWords(block, sum) ==
  [v0 |-> ReadLE(SubSeq(block, 1, 4)), v1 |-> ReadLE(SubSeq(block, 5, 8)), sum |-> sum]

WordsBlock(s) == WriteLE(s.v0, 4) \o WriteLE(s.v1, 4)

EncodeBlock(k, block) == WordsBlock(EncodeRounds(k, BlockWords(block, 0)))

DecodeBlock(k, block) == WordsBlock(DecodeRounds(k, BlockWords(block, decode_sum)))

(* data with each of its blocks replaced.                                  *)
Blockwise(replaced, data) ==
  LET done[j \in 0 .. Len(data) \div 8] ==
        IF j = 0 THEN <<>> ELSE done[j - 1] \o replaced[SubSeq(data, 8 * j - 7, 8 * j)]
  IN  done[Len(data) \div 8]

XteaEncode(k, data) == Blockwise([block \in Block |-> EncodeBlock(k, block)], data)

XteaDecode(k, data) == Blockwise([block \in Block |-> DecodeBlock(k, block)], data)

-----------------------------------------------------------------------------
(* packet_wrap and packet_unwrap *)

(* The message of p, whose first eight bytes were left free, behind its    *)
(* length and padded to whole blocks, encoded, behind length and checksum. *)
PacketWrap(p, k) ==
  LET len     == WrittenLen(p)
      padding == (6 - len) % 8
      padded  == Put(p, [i \in 1 .. padding |-> 51 % ByteBase])
      secret  == XteaEncode(k, WriteLE(len - 8, 2) \o SubSeq(padded.buf, 9, padded.pos))
      head    == WriteLE(Len(secret) + 4, 2) \o WriteLE(Adler32(secret), 4)
  IN  IF len - 8 <= 0 THEN [result |-> "panic"]
      ELSE IF ~CanWrite(p, padding) THEN [result |-> "refused"]
      ELSE [result |-> "wrapped",
            p |-> [padded EXCEPT !.buf = head \o secret \o SubSeq(@, padded.pos + 1, Len(@))]]

(* Mutant: the checksum is not compared.                                   *)
PacketUnwrapUnchecked(buf, k) ==
  LET data  == SubSeq(buf, 5, Len(buf))
      plain == XteaDecode(k, data)
      len   == ReadLE(SubSeq(plain, 1, 2))
  IN  IF Len(buf) < 12 \/ Len(data) % 8 # 0 \/ len > Len(plain) - 2 THEN [ok |-> FALSE]
      ELSE [ok |-> TRUE, p |-> InPacket(SubSeq(plain, 3, 2 + len))]

(* buf is a message as the server hands it over: without the length.       *)
PacketUnwrap(buf, k) ==
  LET data  == SubSeq(buf, 5, Len(buf))
      plain == XteaDecode(k, data)
      len   == ReadLE(SubSeq(plain, 1, 2))
  IN  IF \/ Len(buf) < 12
         \/ Len(data) % 8 # 0
         \/ ReadLE(SubSeq(buf, 1, 4)) # Adler32(data)
         \/ len > Len(plain) - 2
      THEN [ok |-> FALSE]
      ELSE [ok |-> TRUE, p |-> InPacket(SubSeq(plain, 3, 2 + len))]

=============================================================================
