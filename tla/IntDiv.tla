------------------------------- MODULE IntDiv -------------------------------
(***************************************************************************)
(* The division routines of compiler-rt_soft_float.  A routine that        *)
(* returns a quotient and stores a remainder is a record [quo, rem]; its   *)
(* divisor is never 0, which the code leaves unspecified.                  *)
(***************************************************************************)
EXTENDS IntLib

QuoRem(q, r) == [quo |-> q, rem |-> r]

(* Shift and subtract (int_div_impl.inc) *)

\* the loop: sr steps, each of which takes one bit of the quotient into carry
RECURSIVE DivLoop(_, _, _, _, _, _)
DivLoop(w, d, r, n, carry, sr) ==
  IF sr = 0 THEN QuoRem(Shl(w, n, 1) | carry, r)
  ELSE LET r1 == Shl(w, r, 1) | Shr(w, n, w - 1)
           n1 == Shl(w, n, 1) | carry
           s == Sar(w, Sub(w, d, r1 + 1), w - 1)
       IN  DivLoop(w, d, Sub(w, r1, d & s), n1, s % 2, sr - 1)
\* clz(d) - clz(n) with the width for the count of 0; an unsigned number in C
ShiftCount(w, n, d) == Clz(w, d) - Clz(w, n)
udivXi3(w, n, d) ==
  LET sr == ShiftCount(w, n, d)
  IN  IF sr < 0 \/ sr > w - 1 THEN 0
      ELSE IF sr = w - 1 THEN n
      ELSE DivLoop(w, d, n \div 2^(sr + 1), Shl(w, n, w - sr - 1), 0, sr + 1).quo
umodXi3(w, n, d) ==
  LET sr == ShiftCount(w, n, d)
  IN  IF sr < 0 \/ sr > w - 1 THEN n
      ELSE IF sr = w - 1 THEN 0
      ELSE DivLoop(w, d, n \div 2^(sr + 1), Shl(w, n, w - sr - 1), 0, sr + 1).rem
udivsi3(b, n, d) == udivXi3(b, n, d)
udivdi3(b, n, d) == udivXi3(2 * b, n, d)
umodsi3(b, n, d) == umodXi3(b, n, d)
umoddi3(b, n, d) == umodXi3(2 * b, n, d)
udivmodsi4(b, a, c) == LET d == udivsi3(b, a, c) IN QuoRem(d, Sub(b, a, Mul(b, d, c)))

-----------------------------------------------------------------------------
(* __udivmoddi4: words n, d, q, r of two halves of b bits *)

IsPowerOf2(w, x) == x & Sub(w, x, 1) = 0
\* the loop over all four words at once
RECURSIVE DwLoop(_, _, _, _, _, _)
DwLoop(b, d, r, q, carry, sr) ==
  LET w == 2 * b
  IN  IF sr = 0 THEN QuoRem(Shl(w, q, 1) | carry, r)
      ELSE LET r1 == Shl(w, r, 1) | Shr(w, q, w - 1)
               q1 == Shl(w, q, 1) | carry
               s == Sar(w, Sub(w, d, r1 + 1), w - 1)
           IN  DwLoop(b, d, Sub(w, r1, d & s), q1, s % 2, sr - 1)
\* the first sr bits of n, sr < b, go to r, the others to the top of q
SplitLow(b, n, sr) ==
  [q |-> All(b, Shl(b, Low(b, n), b - sr), 0),
   r |-> All(b, Shr(b, High(b, n), sr),
             Shl(b, High(b, n), b - sr) | Shr(b, Low(b, n), sr))]
\* sr = b
SplitWord(b, n) == [q |-> All(b, Low(b, n), 0), r |-> All(b, 0, High(b, n))]
\* Mutant: the bits of the low word that stay above the quotient are dropped.
SplitHighDrops(b, n, sr) ==
  [q |-> All(b, Shl(b, High(b, n), 2 * b - sr), Shl(b, Low(b, n), 2 * b - sr)),
   r |-> All(b, 0, Shr(b, High(b, n), sr - b))]
\* b < sr
SplitHigh(b, n, sr) ==
  [q |-> All(b, Shl(b, High(b, n), 2 * b - sr) | Shr(b, Low(b, n), sr - b),
             Shl(b, Low(b, n), 2 * b - sr)),
   r |-> All(b, 0, Shr(b, High(b, n), sr - b))]
SplitAt(b, n, sr) ==
  IF sr = b THEN SplitWord(b, n) ELSE IF sr < b THEN SplitLow(b, n, sr) ELSE SplitHigh(b, n, sr)

udivmoddi4(b, n, d) ==
  LET nh == High(b, n)
      nl == Low(b, n)
      dh == High(b, d)
      dl == Low(b, d)
      From(parts, sr) == DwLoop(b, d, parts.r, parts.q, 0, sr)
      \* both operands have a high word
      Wide(limit) ==
        LET sr == Clz(b, dh) - Clz(b, nh)
        IN  IF sr < 0 \/ sr > limit THEN QuoRem(0, n) ELSE From(SplitAt(b, n, sr + 1), sr + 1)
      \* the divisor is the low word alone
      Narrow == LET sr == 1 + b + Clz(b, dl) - Clz(b, nh) IN From(SplitAt(b, n, sr), sr)
      Pow2 == LET sr == Ctz(b, dl)
              IN  IF dl = 1 THEN n
                  ELSE All(b, Shr(b, nh, sr), Shl(b, nh, b - sr) | Shr(b, nl, sr))
  IN  IF nh = 0 THEN IF dh = 0 THEN QuoRem(nl \div dl, nl % dl) ELSE QuoRem(0, nl)
      ELSE IF dl = 0
      THEN IF nl = 0 THEN QuoRem(nh \div dh, All(b, nh % dh, 0))
           ELSE IF IsPowerOf2(b, dh)
           THEN QuoRem(Shr(b, nh, Ctz(b, dh)), All(b, nh & Sub(b, dh, 1), nl))
           ELSE Wide(b - 2)
      ELSE IF dh = 0
      THEN IF IsPowerOf2(b, dl) THEN QuoRem(Pow2, nl & Sub(b, dl, 1)) ELSE Narrow
      ELSE Wide(b - 1)

-----------------------------------------------------------------------------
(* __udivmodti4: a ti_int divided by means of divisions of a ti_int by a di_int *)

\* a digit of the quotient is estimated from the leading digit of v and corrected
RECURSIVE CorrectDigit(_, _, _, _, _)
CorrectDigit(h, v, q, rhat, next) ==
  LET w == 2 * h
      vn1 == v \div 2^h
      vn0 == v % 2^h
  IN  IF q >= 2^h \/ Mul(w, q, vn0) > Add(w, Mul(w, 2^h, rhat), next)
      THEN IF rhat + vn1 >= 2^h THEN q - 1 ELSE CorrectDigit(h, v, q - 1, rhat + vn1, next)
      ELSE q
QuotientDigit(h, v, u, next) ==
  LET q == u \div (v \div 2^h) IN CorrectDigit(h, v, q, u - q * (v \div 2^h), next)
udiv128by64to64default(b, u1, u0, v0) ==
  LET w == 2 * b
      s == Clz(w, v0)
      v == Shl(w, v0, s)
      un64 == IF s > 0 THEN Shl(w, u1, s) | Shr(w, u0, w - s) ELSE u1
      un10 == IF s > 0 THEN Shl(w, u0, s) ELSE u0
      q1 == QuotientDigit(b, v, un64, un10 \div 2^b)
      un21 == Sub(w, Add(w, Mul(w, un64, 2^b), un10 \div 2^b), Mul(w, q1, v))
      q0 == QuotientDigit(b, v, un21, un10 % 2^b)
  IN  QuoRem(Add(w, Mul(w, q1, 2^b), q0),
             Shr(w, Sub(w, Add(w, Mul(w, un21, 2^b), un10 % 2^b), Mul(w, q0, v)), s))

\* divq: the instruction faults when the quotient does not fit
udiv128by64to64(b, u1, u0, v) ==
  IF u1 >= v THEN QuoRem(Abort, Abort)
  ELSE LET u == All(2 * b, u1, u0) IN QuoRem(u \div v, u % v)

RECURSIVE TiLoop(_, _, _, _, _)
TiLoop(b, dividend, divisor, quotient, shift) ==
  LET w == 4 * b
  IN  IF shift < 0 THEN QuoRem(quotient, dividend)
      ELSE LET s == Sar(w, Sub(w, divisor, dividend + 1), w - 1)
           IN  TiLoop(b, Sub(w, dividend, divisor & s), divisor \div 2,
                      Shl(2 * b, quotient, 1) | (s % 2), shift - 1)
udivmodti4(b, a, d) ==
  LET w == 2 * b
      dl == Low(w, d)
      ah == High(w, a)
      q == udiv128by64to64(b, ah % dl, Low(w, a), dl)
      shift == Clz(w, High(w, d)) - Clz(w, ah)
  IN  IF d > a THEN QuoRem(0, a)
      ELSE IF High(w, d) = 0
      THEN IF ah < dl
           THEN udiv128by64to64(b, ah, Low(w, a), dl)
           ELSE QuoRem(All(w, ah \div dl, q.quo), q.rem)
      ELSE TiLoop(b, a, Shl(4 * b, d, shift), 0, shift)
udivti3(b, n, d) == udivmodti4(b, n, d).quo
umodti3(b, n, d) == udivmodti4(b, n, d).rem

-----------------------------------------------------------------------------
(* Signed division from the unsigned one: negate, divide, negate *)

AddIf(w, s, a) == Add(w, a ^^ s, Neg(w, s))
\* the operands made positive
Positive(w, a) == AddIf(w, Sign(w, a), a)
\* q and r are the quotient and the remainder of the positive operands
divXi3(w, a, c, q) == AddIf(w, Sign(w, a) ^^ Sign(w, c), q)
modXi3(w, a, c, r) == AddIf(w, Sign(w, a), r)
divsi3(b, a, c) == divXi3(b, a, c, Positive(b, a) \div Positive(b, c))
divdi3(b, a, c) ==
  LET w == 2 * b IN divXi3(w, a, c, udivmoddi4(b, Positive(w, a), Positive(w, c)).quo)
divti3(b, a, c) ==
  LET w == 4 * b IN divXi3(w, a, c, udivmodti4(b, Positive(w, a), Positive(w, c)).quo)
modsi3(b, a, c) == Sub(b, a, Mul(b, divsi3(b, a, c), c))
moddi3(b, a, c) ==
  LET w == 2 * b IN modXi3(w, a, c, udivmoddi4(b, Positive(w, a), Positive(w, c)).rem)
modti3(b, a, c) ==
  LET w == 4 * b IN modXi3(w, a, c, udivmodti4(b, Positive(w, a), Positive(w, c)).rem)

\* qr is what the unsigned division gives for the absolute values
Absolute(w, a) == NegateIf(w, Sign(w, a), a)
DivModX(w, a, c, qr) ==
  QuoRem(NegateIf(w, Sign(w, c) ^^ Sign(w, a), qr.quo), NegateIf(w, Sign(w, a), qr.rem))
divmodsi4(b, a, c) == DivModX(b, a, c, udivmodsi4(b, Absolute(b, a), Absolute(b, c)))
divmoddi4(b, a, c) ==
  LET w == 2 * b IN DivModX(w, a, c, udivmoddi4(b, Absolute(w, a), Absolute(w, c)))
divmodti4(b, a, c) ==
  LET w == 4 * b IN DivModX(w, a, c, udivmodti4(b, Absolute(w, a), Absolute(w, c)))
=============================================================================
