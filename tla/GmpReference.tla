---------------------------- MODULE GmpReference ----------------------------
(***************************************************************************)
(* What the functions of MiniGmpNumbers must compute: integers.            *)
(***************************************************************************)
EXTENDS MiniGmpNumbers
LOCAL INSTANCE SequencesExt

(* The number of limbs the first of which counts most.                     *)
Number(limbs) == FoldLeft(LAMBDA x, limb : x * B + limb, 0, limbs)

RECURSIVE Euclid(_, _)
Euclid(x, y) == IF y = 0 THEN x ELSE Euclid(y, x % y)

Power(x, e, m) == FoldLeft(LAMBDA y, i : (y * (x % m)) % m, 1 % m, Upwards(e))

(* Quotient and remainder are exact, and go back into the dividend.        *)
DivisionExact(n, d) ==
  LET end == DivideTowards0(n, d)
  IN  /\ end = [q |-> n \div d, r |-> n % d]
      /\ Plus(Times(end.q, d), end.r) = n
      /\ Minus(end.r, n) = Times(-end.q, d)
      /\ Mod(-n, d) = (-n) % d

(* Every inverse is the quotient it is defined to be.                      *)
InversesExact ==
  \A u1 \in B \div 2 .. LIMB_MAX, u0 \in 0 .. LIMB_MAX :
    Invert3By2(u1, u0) = (B^3 - 1) \div (B * u1 + u0) - B

(* The divisor of both, and the inverse where there is one.                *)
DivisorExact(u, v) ==
  /\ Gcd(u, v) = Euclid(u, v)
  /\ Euclid(u, v) = 1 /\ v > 1 =>
       Invert(u, v) \in 0 .. v - 1 /\ (Invert(u, v) * (u % v)) % v = 1

PowerExact(x, m) == \A e \in {1, 2, 3, B - 1, B, B + 5} : PowM(x, e, m) = Power(x, e, m)

(* The digits of a number are read, and its bytes go out and come back.    *)
DigitsExact(digits) ==
  LET x == FoldLeft(LAMBDA y, digit : 10 * y + digit, 0, digits)
  IN  /\ SetStr(digits) = x
      /\ Import(Export(x)) = x /\ Import(<<0>> \o Export(x)) = x
      /\ x > 0 => 2^(SizeInBits(x) - 1) <= x /\ x < 2^SizeInBits(x)

(* Of a number of limbs, with every number of n limbs in Limb that is not  *)
(* 0 in front.  (Divisors and powers of less, for which TLC's numbers and  *)
(* its time are enough.)                                                   *)
NumbersExactly(n, Limb, limbs) ==
  LET x == Number(limbs)
  IN  \A y \in {Number(d) : d \in {s \in [1 .. n -> Limb] : s[1] # 0}} :
        /\ DivisionExact(x, y)
        /\ Len(limbs) + n < 6 /\ x > 0 => DivisorExact(x, y)
        /\ Len(limbs) < 3 /\ n < 3 => PowerExact(x, y)

=============================================================================
