--------------------------- MODULE MiniGmpNumbers ---------------------------
(***************************************************************************)
(* The mpz functions of mini-gmp.c that crypto.cc calls.                   *)
(***************************************************************************)
EXTENDS MiniGmp
LOCAL INSTANCE SequencesExt
LOCAL INSTANCE FiniteSetsExt

(* The integer of limbs, and the limbs of an integer but for its sign.     *)
Value(a) == MapThenSumSet(LAMBDA i : a[i] * B^(i - 1), DOMAIN a)

Magnitude(x) == IF x < 0 THEN -x ELSE x

RECURSIVE Size(_)
Size(x) == IF x = 0 THEN 0 ELSE 1 + Size(Magnitude(x) \div B)

Limbs(x) == [i \in 1 .. Size(x) |-> (Magnitude(x) \div B^(i - 1)) % B]

Signed(x, negative) == IF negative THEN -x ELSE x

-----------------------------------------------------------------------------
(* mpz_abs_add, with its carry in front, and mpz_abs_sub.                  *)
AbsAdd(a, b) ==
  LET sum == IF Size(a) >= Size(b) THEN Add(Limbs(a), Limbs(b)) ELSE Add(Limbs(b), Limbs(a))
  IN  Value(Append(sum.r, sum.carry))

AbsSub(a, b) ==
  IF Magnitude(a) > Magnitude(b) THEN Value(Sub(Limbs(a), Limbs(b)).r)
  ELSE IF Magnitude(a) < Magnitude(b) THEN -Value(Sub(Limbs(b), Limbs(a)).r)
  ELSE 0

(* mpz_add and mpz_sub.                                                    *)
Plus(a, b) == Signed(IF (a < 0) = (b < 0) THEN AbsAdd(a, b) ELSE AbsSub(a, b), a < 0)

Minus(a, b) == Signed(IF (a < 0) = (b < 0) THEN AbsSub(a, b) ELSE AbsAdd(a, b), a < 0)

(* mpz_mul.                                                                *)
Times(u, v) ==
  IF u = 0 \/ v = 0 THEN 0
  ELSE Signed(Value(IF Size(u) >= Size(v) THEN MulLimbs(Limbs(u), Limbs(v))
                                          ELSE MulLimbs(Limbs(v), Limbs(u))),
              (u < 0) # (v < 0))

(* mpz_mul_2exp.                                                           *)
TimesPower2(u, bits) ==
  LET moved == ShiftLeft(Limbs(u), bits % (2 * HalfBits))
      zeros == [i \in 1 .. bits \div (2 * HalfBits) |-> 0]
  IN  Signed(Value(zeros \o Append(moved.r, moved.carry)), u < 0)

(* mpz_tdiv_q_2exp.                                                        *)
OverPower2(u, bits) ==
  LET limbs == SubSeq(Limbs(u), 1 + bits \div (2 * HalfBits), Size(u))
  IN  Signed(Value(ShiftRight(limbs, bits % (2 * HalfBits))), u < 0)

(* mpz_tdiv_qr: towards 0; and mpz_mod, for d > 0: the remainder is not    *)
(* negative.                                                               *)
DivideTowards0(n, d) ==
  LET end == DivideLimbs(Limbs(n), Limbs(d))
  IN  IF Size(n) < Size(d) THEN [q |-> 0, r |-> n]
      ELSE [q |-> Signed(Value(end.q), (n < 0) # (d < 0)), r |-> Signed(Value(end.r), n < 0)]

Mod(n, d) ==
  LET r == DivideTowards0(n, d).r IN IF r < 0 THEN Plus(r, d) ELSE r

-----------------------------------------------------------------------------
(* mpz_set_str in base 10: mpn_set_str_other takes as many digits at a time*)
(* as a limb holds, at first those that are left over.                     *)
DigitsPerLimb == Min({e \in 1 .. HalfBits : 10^e > LIMB_MAX \div 10})

SetStr(digits) ==
  LET first == 1 + ((Len(digits) - 1) % DigitsPerLimb)
      Word(j) == FoldLeft(LAMBDA w, digit : w * 10 + digit, 0, SubSeq(digits, j, j + DigitsPerLimb - 1))
      Step(r, i) ==
        LET scaled == Mul1(r, 10^DigitsPerLimb)
            sum    == Add(scaled.r, <<Word(first + 1 + i * DigitsPerLimb)>>)
            cy     == (scaled.carry + sum.carry) % B
        IN  IF cy > 0 THEN Append(sum.r, cy) ELSE sum.r
      start == FoldLeft(LAMBDA w, digit : w * 10 + digit, 0, SubSeq(digits, 1, first))
  IN  Value(FoldLeft(Step, <<start>>, Upwards((Len(digits) - first) \div DigitsPerLimb)))

(* mpz_import and mpz_export of bytes, the first of which counts most.     *)
Import(data) ==
  LET n == Len(data)
      ByteOf(i) == IF i <= n THEN data[n + 1 - i] ELSE 0
      Limb(i) == MapThenSumSet(LAMBDA j : ByteOf((i - 1) * LimbBytes + j + 1) * ByteValues^j,
                               0 .. LimbBytes - 1)
  IN  Value([i \in 1 .. (n + LimbBytes - 1) \div LimbBytes |-> Limb(i)])

Export(x) ==
  LET a     == Limbs(x)
      top   == Min({k \in 1 .. LimbBytes : a[Len(a)] < ByteValues^k})
      count == top + (Len(a) - 1) * LimbBytes
  IN  IF x = 0 THEN <<>>
      ELSE [i \in 1 .. count |->
              (a[1 + (count - i) \div LimbBytes] \div ByteValues^((count - i) % LimbBytes)) % ByteValues]

(* mpz_sizeinbase in base 2.                                               *)
SizeInBits(x) ==
  IF x = 0 THEN 1 ELSE 2 * HalfBits * Size(x) - LeadingZeros(Limbs(x)[Size(x)])

-----------------------------------------------------------------------------
(* mpz_make_odd, for x > 0: the shift, and the number after it.            *)
TwosIn(x) == Max({n \in 0 .. SizeInBits(x) - 1 : x % 2^n = 0})

Odd(x) == OverPower2(x, TwosIn(x))

(* mpn_gcd_11, for limbs of which v is odd.                                *)
RECURSIVE GcdOfLimbs(_, _)
GcdOfLimbs(u, v) ==
  CASE u = 0 -> v
    [] u # 0 /\ u % 2 = 0 -> GcdOfLimbs(u \div 2, v)
    [] u % 2 = 1 /\ u > v -> GcdOfLimbs(u - v, v)
    [] u % 2 = 1 /\ u < v -> GcdOfLimbs(v - u, u)
    [] u % 2 = 1 /\ u = v -> u

(* The loop of mpz_gcd, for numbers that are not 0, of which v is odd.     *)
RECURSIVE GcdLoop(_, _)
GcdLoop(u, v) ==
  LET odd  == Odd(u)
      less == IF odd < v THEN odd ELSE v
      more == IF odd < v THEN v ELSE odd
  IN  IF odd = v THEN odd
      ELSE IF Size(less) = 1 THEN GcdOfLimbs(DivideTowards0(more, less).r, less)
      ELSE GcdLoop(Minus(more, less), less)

(* mpz_gcd, for numbers above 0.                                           *)
Gcd(u, v) ==
  LET gz     == Min({TwosIn(u), TwosIn(v)})
      swaps  == Size(Odd(u)) < Size(Odd(v))
      tv     == IF swaps THEN Odd(u) ELSE Odd(v)
      tu     == DivideTowards0(IF swaps THEN Odd(v) ELSE Odd(u), tv).r
  IN  TimesPower2(IF tu = 0 THEN tv ELSE GcdLoop(tu, tv), gz)

(* mpz_lcm.                                                                *)
Lcm(u, v) == Times(DivideTowards0(u, Gcd(u, v)).q, v)

(* The loop of mpz_gcdext: u and v are kept as s0, s1, t0 and t1 times tu  *)
(* and tv, and 2^power is their determinant.                               *)
RECURSIVE GcdExtLoop(_)
GcdExtLoop(s) ==
  LET vNew == Minus(s.tv, s.tu)
      uNew == Minus(s.tu, s.tv)
      v    == TwosIn(vNew)
      u    == TwosIn(uNew)
  IN  CASE s.tu = s.tv -> s
        [] s.tu < s.tv ->
             GcdExtLoop([s EXCEPT !.tv = Odd(vNew), !.t0 = Plus(@, s.t1), !.s0 = Plus(@, s.s1),
                                  !.t1 = TimesPower2(@, v), !.s1 = TimesPower2(@, v),
                                  !.power = @ + v])
        [] s.tu > s.tv ->
             GcdExtLoop([s EXCEPT !.tu = Odd(uNew), !.t1 = Plus(s.t0, @), !.s1 = Plus(s.s0, @),
                                  !.t0 = TimesPower2(@, u), !.s0 = TimesPower2(@, u),
                                  !.power = @ + u])

(* The factors s and t of u and v lose a factor of two at a time; v and u  *)
(* over the divisor are taken from and added to them to keep them even.    *)
Halved(s, t, uOver, vOver) ==
  LET odd == s % 2 = 1 \/ t % 2 = 1
  IN  [s |-> OverPower2(IF odd THEN Minus(s, vOver) ELSE s, 1),
       t |-> OverPower2(IF odd THEN Plus(t, uOver) ELSE t, 1)]

(* mpz_gcdext, for numbers above 0: the divisor and u's factor.            *)
GcdExt(u0, v0) ==
  LET swaps == Size(Odd(u0)) < Size(Odd(v0))
      u     == IF swaps THEN v0 ELSE u0
      v     == IF swaps THEN u0 ELSE v0
      gz    == Min({TwosIn(u), TwosIn(v)})
      uz    == TwosIn(u) - gz
      vz    == TwosIn(v) - gz
      div   == DivideTowards0(Odd(u), Odd(v))
      shift == TwosIn(div.r)
      end   == IF div.r = 0
               THEN [tv |-> Odd(v), s0 |-> 0, t0 |-> 2^uz, power |-> uz + vz]
               ELSE GcdExtLoop([tu |-> Odd(div.r), tv |-> Odd(v),
                                t0 |-> TimesPower2(2^uz, shift), t1 |-> TimesPower2(div.q, uz),
                                s0 |-> 0, s1 |-> 2^vz, power |-> uz + vz + shift])
      g     == TimesPower2(end.tv, gz)
      vOver == DivideTowards0(v, g).q
      uOver == DivideTowards0(u, g).q
      f     == FoldLeft(LAMBDA c, i : Halved(c.s, c.t, uOver, vOver),
                        [s |-> -end.s0, t |-> end.t0], Upwards(end.power))
      other == Plus(f.s, vOver)
      least == IF Magnitude(f.s) > Magnitude(other) THEN [s |-> other, t |-> Minus(f.t, uOver)] ELSE f
  IN  [g |-> g, s |-> IF swaps THEN least.t ELSE least.s]

(* mpz_invert, where there is an inverse.                                  *)
Invert(u, m) ==
  LET s == GcdExt(u, m).s IN IF s < 0 THEN Plus(s, m) ELSE s

-----------------------------------------------------------------------------
(* mpz_powm, for b >= 0 and e >= 0.  All reductions but the last are by m  *)
(* shifted up, and only when a number has more limbs than it.              *)
BitsOf(e) == [i \in 1 .. 2 * HalfBits * Size(e) |-> (e \div 2^(2 * HalfBits * Size(e) - i)) % 2]

PowM(b, e, m) ==
  LET inv  == InverseOf(Limbs(m))
      mp   == ShiftLeft(Limbs(m), inv.shift).r
      Reduced(x, shift) == Value(DivideLimbsBy(Limbs(x), mp, [inv EXCEPT !.shift = shift]).r)
      base == IF Size(b) >= Size(m) THEN Reduced(b, 0) ELSE b
      Step(tr, bit) ==
        LET square == Times(tr, tr)
            next   == IF bit = 1 THEN Times(square, base) ELSE square
        IN  IF Size(next) > Size(m) THEN Reduced(next, 0) ELSE next
      end  == FoldLeft(Step, 1, BitsOf(e))
  IN  IF e = 0 THEN 1 ELSE IF Size(end) >= Size(m) THEN Reduced(end, inv.shift) ELSE end

=============================================================================
