---------------------------- MODULE RsaReference ----------------------------
(***************************************************************************)
(* What Rsa must compute: which keys lose no message, and what is encoded  *)
(* and decoded with them.                                                  *)
(***************************************************************************)
EXTENDS Rsa, Buffers
LOCAL INSTANCE SequencesExt
LOCAL INSTANCE FiniteSetsExt

(* A number as its decimal digits.                                         *)
RECURSIVE Digits(_)
Digits(x) == IF x < 10 THEN <<x>> ELSE Append(Digits(x \div 10), x % 10)

Power(x, exp, m) == FoldLeft(LAMBDA y, i : (y * x) % m, 1 % m, [i \in 1 .. exp |-> i])

(* The numbers up to n that have an inverse, and the least exponent that   *)
(* takes all of them to 1.                                                 *)
Units(n) == {x \in 1 .. n - 1 : \E y \in 1 .. n - 1 : (x * y) % n = 1}

Carmichael(n) == Min({m \in 1 .. n : \A x \in Units(n) : Power(x, m, n) = 1})

(* A key is accepted if e is small enough and what it encodes can be       *)
(* decoded at all: no two numbers are encoded alike.                       *)
KeyRefusedRightly(p, q, e) ==
  LET n == p * q
  IN  SetKey(Digits(p), Digits(q), Digits(e)).ok <=>
        /\ e < Carmichael(n)
        /\ Cardinality({Power(x, e, n) : x \in 0 .. n - 1}) = n

(* What an accepted key has encoded, with room for n or more, it decodes,  *)
(* but for the zeros in front; without room for the result the data stay   *)
(* as they are.                                                            *)
Decodes(p, q, e, data) ==
  LET key     == SetKey(Digits(p), Digits(q), Digits(e))
      x       == ReadBE(data)
      encoded == Encode(key, data, 8)
      decoded == Decode(key, encoded.data, 8)
      needed  == IF decoded.len = 0 THEN 1 ELSE decoded.len
  IN  key.ok =>
        /\ encoded.ok /\ decoded.ok
        /\ ReadBE(encoded.data) = Power(x % (p * q), e, p * q)
        /\ ReadBE(decoded.data) = x % (p * q)
        /\ decoded.data # <<>> => Head(decoded.data) # 0
        /\ Decode(key, encoded.data, needed - 1) =
             [ok |-> FALSE, len |-> needed, data |-> encoded.data]

=============================================================================
