-------------------------- MODULE BuffersReference --------------------------
(***************************************************************************)
(* What the functions of Buffers must agree on.                            *)
(***************************************************************************)
EXTENDS Buffers
LOCAL INSTANCE SequencesExt

(* Both kinds of processors leave the same bytes, in both byte orders, and *)
(* all four readers find the integer again; and what is read from bytes is *)
(* written as those bytes.                                                 *)
BuffersAgree(bytes) ==
  LET n == Len(bytes)
      x == ReadLE(bytes)
  IN  /\ x = PortableReadLE(bytes)
      /\ ReadBE(bytes) = PortableReadBE(bytes)
      /\ ReadBE(bytes) = ReadLE(Reverse(bytes))
      /\ WriteLE(x, n) = bytes /\ PortableWriteLE(x, n) = bytes
      /\ WriteBE(x, n) = Reverse(bytes) /\ PortableWriteBE(x, n) = Reverse(bytes)

=============================================================================
