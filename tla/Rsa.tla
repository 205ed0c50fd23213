-------------------------------- MODULE Rsa ---------------------------------
(***************************************************************************)
(* crypto.cc: RSA, with the numbers of MiniGmpNumbers.                     *)
(***************************************************************************)
EXTENDS Integers, Sequences

CONSTANTS
  HalfBits,         \* 16, and
  LimbBytes         \* 4: of mini-gmp

Gmp == INSTANCE MiniGmpNumbers

(* rsa_setkey: the key, of numbers as strings of digits, or FALSE if e is  *)
(* refused.                                                                *)
SetKey(pDigits, qDigits, eDigits) ==
  LET p      == Gmp!SetStr(pDigits)
      q      == Gmp!SetStr(qDigits)
      e      == Gmp!SetStr(eDigits)
      p1     == Gmp!Minus(p, 1)
      q1     == Gmp!Minus(q, 1)
      lambda == Gmp!Lcm(p1, q1)
      d      == Gmp!Invert(e, lambda)
  IN  IF lambda <= e \/ Gmp!Gcd(lambda, e) # 1 THEN [ok |-> FALSE]
      ELSE [ok |-> TRUE, p |-> p, q |-> q, n |-> Gmp!Times(p, q), e |-> e,
            dp |-> Gmp!Mod(d, p1), dq |-> Gmp!Mod(d, q1), qi |-> Gmp!Invert(q, p)]

(* x in place of data, if there is room.  0 needs room for a byte and then *)
(* has none.                                                               *)
Exported(x, data, maxlen) ==
  LET outlen == (Gmp!SizeInBits(x) + Gmp!CHAR_BIT - 1) \div Gmp!CHAR_BIT
  IN  IF outlen > maxlen THEN [ok |-> FALSE, len |-> outlen, data |-> data]
      ELSE [ok |-> TRUE, len |-> Len(Gmp!Export(x)), data |-> Gmp!Export(x)]

Encode(key, data, maxlen) == Exported(Gmp!PowM(Gmp!Import(data), key.e, key.n), data, maxlen)

(* Mutant: the difference is not brought back above 0, and taken without   *)
(* its sign.                                                               *)
DecodeUnsigned(key, data, maxlen) ==
  LET x1 == Gmp!PowM(Gmp!Import(data), key.dp, key.p)
      x2 == Gmp!PowM(Gmp!Import(data), key.dq, key.q)
      x3 == Gmp!Mod(Gmp!Times(Gmp!Magnitude(Gmp!Minus(x1, x2)), key.qi), key.p)
  IN  Exported(Gmp!Plus(x2, Gmp!Times(x3, key.q)), data, maxlen)

(* rsa_decode: by the Chinese remainder theorem.                           *)
Decode(key, data, maxlen) ==
  LET x0   == Gmp!Import(data)
      x1   == Gmp!PowM(x0, key.dp, key.p)
      x2   == Gmp!PowM(x0, key.dq, key.q)
      diff == Gmp!Minus(x1, x2)
      x3   == Gmp!Times(IF x1 < x2 THEN Gmp!Plus(diff, key.p) ELSE diff, key.qi)
  IN  Exported(Gmp!Plus(x2, Gmp!Times(Gmp!Mod(x3, key.p), key.q)), data, maxlen)

=============================================================================
