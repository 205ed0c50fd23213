------------------------------ MODULE Buffers -------------------------------
(***************************************************************************)
(* buffer_util.hh: integers of n bytes in a buffer, in both byte orders.   *)
(* A buffer is a sequence of bytes, an integer is a number.  The file has  *)
(* every function twice: for processors that may read an integer where it  *)
(* lies, which is what common.hh builds, and for the others.               *)
(***************************************************************************)
EXTENDS Integers, Sequences
LOCAL INSTANCE FiniteSetsExt

CONSTANT ByteBase       \* number of values of a byte: 256

ASSUME ByteBaseAssumption == ByteBase \in Nat /\ ByteBase > 1

Octet == 0 .. ByteBase - 1

(* How many values a u16 and a u32 have.                                   *)
Half == ByteBase * ByteBase
Word == Half * Half

(* How many an integer of 1, 2 or 4 bytes has.                             *)
Values(size) == CASE size = 1 -> ByteBase [] size = 2 -> Half [] size = 4 -> Word

(* Byte i of x; byte 0 counts least.                                       *)
Byte(x, i) == (x \div ByteBase^i) % ByteBase

(* u16_bswap, u32_bswap, u64_bswap: byte i goes to the place n - 1 - i.    *)
ByteSwap(x, n) ==
  MapThenSumSet(LAMBDA i : Byte(x, i) * ByteBase^(n - 1 - i), 0 .. n - 1)

(* What an x64 processor leaves in memory, and finds there.                *)
Stored(x, n) ==
  LET rest[i \in 0 .. n] == IF i = 0 THEN x ELSE rest[i - 1] \div ByteBase
  IN  [i \in 1 .. n |-> rest[i - 1] % ByteBase]

Loaded(b) ==
  LET last[i \in 0 .. Len(b)] ==
        IF i = 0 THEN 0 ELSE b[Len(b) + 1 - i] + ByteBase * last[i - 1]
  IN  last[Len(b)]

(* The functions for a little-endian processor with unaligned access.      *)
WriteLE(x, n) == Stored(x, n)
ReadLE(b) == Loaded(b)
WriteBE(x, n) == Stored(ByteSwap(x, n), n)
ReadBE(b) == ByteSwap(Loaded(b), Len(b))

(* The functions for the other processors, byte by byte.                   *)
PortableWriteLE(x, n) == [i \in 1 .. n |-> (x \div ByteBase^(i - 1)) % ByteBase]
PortableReadLE(b) == MapThenSumSet(LAMBDA i : b[i] * ByteBase^(i - 1), DOMAIN b)
PortableWriteBE(x, n) == [i \in 1 .. n |-> (x \div ByteBase^(n - i)) % ByteBase]
PortableReadBE(b) == MapThenSumSet(LAMBDA i : b[i] * ByteBase^(Len(b) - i), DOMAIN b)

=============================================================================
