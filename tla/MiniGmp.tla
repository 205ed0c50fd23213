------------------------------ MODULE MiniGmp -------------------------------
(***************************************************************************)
(* mini-gmp.c, as far as crypto.cc reaches it.  The mpn functions work on  *)
(* limbs, the least significant first, and a limb is a number modulo B.    *)
(* An mpz is the integer it stands for; what an mpz function does to the   *)
(* limbs it does here by the mpn functions, on limbs without zeros in      *)
(* front.  (The zeros inside, and the memory limbs are in, are left out.)  *)
(***************************************************************************)
EXTENDS Integers, Sequences
LOCAL INSTANCE SequencesExt

CONSTANTS
  HalfBits,     \* 16: half the bits of a limb, which is an unsigned long of Windows
  LimbBytes     \* 4: bytes in a limb

H == 2^HalfBits             \* GMP_HLIMB_BIT

B == H * H

LIMB_MAX == B - 1

CHAR_BIT == (2 * HalfBits) \div LimbBytes

ByteValues == 2^CHAR_BIT

Truth(condition) == IF condition THEN 1 ELSE 0

(* 0, .., n - 1, and n - 1, .., 0: the indices of a loop.                  *)
Upwards(n) == [i \in 1 .. n |-> i - 1]
Downwards(n) == [i \in 1 .. n |-> n - i]

-----------------------------------------------------------------------------
(* LIMBS *)

(* gmp_clz, for x > 0: how far x has to be shifted.                        *)
LeadingZeros(x) == CHOOSE n \in 0 .. 2 * HalfBits - 1 : B <= 2 * x * 2^n /\ x * 2^n < B

(* The number of two limbs, and its limbs.                                 *)
Pair(hi, lo) == [hi |-> hi, lo |-> lo]

AddPairs(x, y) ==
  LET lo == (x.lo + y.lo) % B IN Pair((x.hi + y.hi + Truth(lo < x.lo)) % B, lo)

SubPairs(x, y) == Pair((x.hi - y.hi - Truth(x.lo < y.lo)) % B, (x.lo - y.lo) % B)

(* gmp_umul_ppmm: nothing has two limbs, so the halves are multiplied.     *)
Product(u, v) ==
  LET x0 == (u % H) * (v % H)
      x2 == (u \div H) * (v % H)
      x1 == ((u % H) * (v \div H) + x0 \div H + x2) % B
      x3 == (u \div H) * (v \div H) + H * Truth(x1 < x2)
  IN  Pair((x3 + x1 \div H) % B, (x1 * H + (x0 % H)) % B)

(* gmp_udiv_qrnnd_preinv: the limbs nh and nl by d, by means of d's inverse*)
Divide2By1(nh, nl, d, di) ==
  LET guess == AddPairs(Product(nh, di), Pair((nh + 1) % B, nl))
      r0    == (nl - guess.hi * d) % B
      high  == r0 > guess.lo
      r1    == IF high THEN (r0 + d) % B ELSE r0
      q1    == guess.hi - Truth(high)
  IN  [q |-> (q1 + Truth(r1 >= d)) % B, r |-> IF r1 >= d THEN r1 - d ELSE r1]

(* Mutant: the quotient is not put right when it is one too small.         *)
Divide3By2Once(n2, n1, n0, d1, d0, dinv) ==
  LET guess == AddPairs(Product(n2, dinv), Pair(n2, n1))
      d     == Pair(d1, d0)
      r0    == SubPairs(SubPairs(Pair((n1 - d1 * guess.hi) % B, n0), d), Product(d0, guess.hi))
      high  == r0.hi >= guess.lo
  IN  [q |-> (guess.hi + 1 - Truth(high)) % B, r |-> IF high THEN AddPairs(r0, d) ELSE r0]

(* gmp_udiv_qr_3by2: the limbs n2, n1 and n0 by d1 and d0.                 *)
Divide3By2(n2, n1, n0, d1, d0, dinv) ==
  LET guess == AddPairs(Product(n2, dinv), Pair(n2, n1))
      d     == Pair(d1, d0)
      r0    == SubPairs(SubPairs(Pair((n1 - d1 * guess.hi) % B, n0), d), Product(d0, guess.hi))
      high  == r0.hi >= guess.lo
      r1    == IF high THEN AddPairs(r0, d) ELSE r0
      over  == r1.hi >= d1 /\ (r1.hi > d1 \/ r1.lo >= d0)
  IN  [q |-> (guess.hi + 1 - Truth(high) + Truth(over)) % B,
       r |-> IF over THEN SubPairs(r1, d) ELSE r1]

-----------------------------------------------------------------------------
(* mpn_invert_3by2: (B^3 - 1) \div (B * u1 + u0) - B, for a normalized u1.  *)

(* The half above: a quotient qh that two adjustments at most put right,   *)
(* and the remainder.                                                      *)
HighHalf(u1) ==
  LET ul     == u1 % H
      qh     == (LIMB_MAX - u1) \div (u1 \div H)
      p      == qh * ul
      r0     == (((LIMB_MAX - u1 - qh * (u1 \div H)) * H) % B) + H - 1
      r1     == (r0 + u1) % B
      once   == r0 < p
      twice  == once /\ r1 >= u1 /\ r1 < p
      r      == IF twice THEN r1 + u1 ELSE IF once THEN r1 ELSE r0
  IN  [q |-> qh - Truth(once) - Truth(twice), r |-> (r - p) % B]

(* The inverse of u1 alone, and the remainder.                             *)
Invert1(u1) ==
  LET high  == HighHalf(u1)
      p     == ((high.r \div H) * high.q + high.r) % B
      ql    == p \div H + 1
      r0    == (high.r * H + H - 1 - ql * u1) % B
      over  == r0 >= (p * H) % B
      r1    == IF over THEN (r0 + u1) % B ELSE r0
  IN  [m |-> (high.q * H + ql - Truth(over) + Truth(r1 >= u1)) % B,
       r |-> IF r1 >= u1 THEN r1 - u1 ELSE r1]

(* u0 taken into account.                                                  *)
Invert3By2(u1, u0) ==
  LET inv    == Invert1(u1)
      r0     == (LIMB_MAX - inv.r + u0) % B
      once   == r0 < u0
      twice  == once /\ r0 >= u1
      m1     == inv.m - Truth(once) - Truth(twice)
      r1     == (r0 - u1 * (Truth(once) + Truth(twice))) % B
      t      == Product(u0, m1 % B)
      r2     == (r1 + t.hi) % B
      more   == r2 < t.hi
      again  == more /\ (r2 > u1 \/ (r2 = u1 /\ t.lo > u0))
  IN  IF u0 = 0 THEN inv.m ELSE (m1 - Truth(more) - Truth(again)) % B

-----------------------------------------------------------------------------
(* SEQUENCES OF LIMBS *)

(* A loop over the limbs of a, with a carry: Op returns a limb and it.     *)
Carried(Op(_, _), n, carry) ==
  FoldLeft(LAMBDA s, i : LET next == Op(i + 1, s.carry)
                         IN  [r |-> Append(s.r, next.lo), carry |-> next.hi],
           [r |-> <<>>, carry |-> carry], Upwards(n))

LimbOf(a, i) == IF i \in DOMAIN a THEN a[i] ELSE 0

(* mpn_add, of which mpn_add_n and mpn_add_1 are the two parts.            *)
Add(a, b) ==
  Carried(LAMBDA i, cy :
            LET r == (a[i] + cy) % B
                s == (r + LimbOf(b, i)) % B
            IN  Pair(Truth(r < cy) + Truth(s < LimbOf(b, i)), s), Len(a), 0)

(* mpn_sub, of which mpn_sub_n and mpn_sub_1 are the two parts.            *)
Sub(a, b) ==
  Carried(LAMBDA i, cy :
            LET c == (LimbOf(b, i) + cy) % B
            IN  Pair(Truth(c < cy) + Truth(a[i] < c), (a[i] - c) % B), Len(a), 0)

(* What mpn_mul_1, mpn_addmul_1 and mpn_submul_1 have in common.           *)
Scaled(u, v, carry) ==
  LET p  == Product(u, v)
      lo == (p.lo + carry) % B
  IN  Pair((Truth(lo < carry) + p.hi) % B, lo)

Mul1(u, v) == Carried(LAMBDA i, cl : Scaled(u[i], v, cl), Len(u), 0)

AddMul1(r, u, v) ==
  Carried(LAMBDA i, cl : LET p  == Scaled(u[i], v, cl)
                             lo == (r[i] + p.lo) % B
                         IN  Pair((p.hi + Truth(lo < r[i])) % B, lo), Len(u), 0)

SubMul1(r, u, v) ==
  Carried(LAMBDA i, cl : LET p  == Scaled(u[i], v, cl)
                             lo == (r[i] - p.lo) % B
                         IN  Pair((p.hi + Truth(lo > r[i])) % B, lo), Len(u), 0)

(* a with its limbs from index i on replaced by those of b.                *)
Patched(a, i, b) == SubSeq(a, 1, i) \o b \o SubSeq(a, i + Len(b) + 1, Len(a))

(* mpn_mul, for Len(u) >= Len(v).                                          *)
MulLimbs(u, v) ==
  LET first == Mul1(u, v[1])
  IN  FoldLeft(LAMBDA r, i : LET row == AddMul1(SubSeq(r, i + 2, Len(r)), u, v[i + 2])
                             IN  SubSeq(r, 1, i + 1) \o Append(row.r, row.carry),
               Append(first.r, first.carry), Upwards(Len(v) - 1))

(* mpn_lshift, and mpn_rshift; a shift by 0 is left out where it is called.*)
ShiftLeft(u, count) ==
  Carried(LAMBDA i, low : Pair((u[i] * 2^count) \div B, ((u[i] * 2^count) % B) + low), Len(u), 0)

ShiftRight(u, count) ==
  [i \in DOMAIN u |-> (u[i] \div 2^count) + (((LimbOf(u, i + 1) * B) \div 2^count) % B)]

-----------------------------------------------------------------------------
(* DIVISION *)

(* mpn_div_qr_invert: how far d has to be shifted, its two upper limbs     *)
(* then, and their inverse; of a d of one limb the second counts as 0.     *)
InverseOf(d) ==
  LET n     == Len(d)
      shift == LeadingZeros(d[n])
      top   == ShiftLeft([i \in 1 .. 3 |-> LimbOf(d, n - 3 + i)], shift).r
  IN  [shift |-> shift, d1 |-> top[3], d0 |-> top[2], di |-> Invert3By2(top[3], top[2])]

(* mpn_div_qr_1_preinv.                                                    *)
DivideBy1(n, inv) ==
  LET shifted == ShiftLeft(n, inv.shift)
      end     == FoldLeft(LAMBDA s, i :
                            LET step == Divide2By1(s.r, shifted.r[i + 1], inv.d1, inv.di)
                            IN  [q |-> <<step.q>> \o s.q, r |-> step.r],
                          [q |-> <<>>, r |-> shifted.carry], Downwards(Len(n)))
  IN  [q |-> end.q, r |-> <<end.r \div 2^inv.shift>>]

(* mpn_div_qr_2_preinv.                                                    *)
DivideBy2(n, inv) ==
  LET shifted == ShiftLeft(n, inv.shift)
      end     == FoldLeft(LAMBDA s, i :
                            LET step == Divide3By2(s.r.hi, s.r.lo, shifted.r[i + 1],
                                                   inv.d1, inv.d0, inv.di)
                            IN  [q |-> <<step.q>> \o s.q, r |-> step.r],
                          [q |-> <<>>, r |-> Pair(shifted.carry, shifted.r[Len(n)])],
                          Downwards(Len(n) - 1))
  IN  [q |-> end.q, r |-> ShiftRight(<<end.r.lo, end.r.hi>>, inv.shift)]

(* A step of mpn_div_qr_pi1: the limbs of s.n from i on, below s.n1, by d. *)
(* The uppermost of them is n1 from then on.                               *)
StepPi1(s, i, d, dinv) ==
  LET dn   == Len(d)
      At(k) == SubSeq(s.n, i + 1, i + k)
      same == s.n1 = d[dn] /\ s.n[i + dn] = d[dn - 1]
      all  == Patched(s.n, i, SubMul1(At(dn), d, LIMB_MAX).r)
      step == Divide3By2(s.n1, s.n[i + dn], s.n[i + dn - 1], d[dn], d[dn - 1], dinv)
      rest == SubMul1(At(dn - 2), SubSeq(d, 1, dn - 2), step.q)
      r    == Pair((step.r.hi - Truth(step.r.lo < rest.carry)) % B, (step.r.lo - rest.carry) % B)
      low  == step.r.hi < Truth(step.r.lo < rest.carry)
      sum  == Add(Append(rest.r, r.lo), SubSeq(d, 1, dn - 1))
  IN  IF same
      THEN [q |-> <<LIMB_MAX>> \o s.q, n |-> all, n1 |-> all[i + dn]]
      ELSE IF low
           THEN [q |-> <<(step.q - 1) % B>> \o s.q, n |-> Patched(s.n, i, sum.r),
                 n1 |-> (r.hi + d[dn] + sum.carry) % B]
           ELSE [q |-> <<step.q>> \o s.q, n |-> Patched(s.n, i, Append(rest.r, r.lo)), n1 |-> r.hi]

DividePi1(n, n1, d, dinv) ==
  LET end == FoldLeft(LAMBDA s, i : StepPi1(s, i, d, dinv),
                      [q |-> <<>>, n |-> n, n1 |-> n1], Downwards(Len(n) - Len(d) + 1))
  IN  [q |-> end.q, r |-> Append(SubSeq(end.n, 1, Len(d) - 1), end.n1)]

(* mpn_div_qr_preinv, for Len(n) >= Len(d); a d of three limbs and more is *)
(* normalized.                                                             *)
DivideLimbsBy(n, d, inv) ==
  LET shifted == ShiftLeft(n, inv.shift)
      long    == DividePi1(shifted.r, shifted.carry, d, inv.di)
  IN  CASE Len(d) = 1 -> DivideBy1(n, inv)
        [] Len(d) = 2 -> DivideBy2(n, inv)
        [] OTHER -> [q |-> long.q, r |-> ShiftRight(long.r, inv.shift)]

(* mpn_div_qr.                                                             *)
DivideLimbs(n, d) ==
  LET inv == InverseOf(d)
  IN  DivideLimbsBy(n, IF Len(d) > 2 THEN ShiftLeft(d, inv.shift).r ELSE d, inv)

=============================================================================
