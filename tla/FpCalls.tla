------------------------------ MODULE FpCalls ------------------------------
(***************************************************************************)
(* The program of IntCalls, with the calls of the floating-point routines  *)
(* of compiler-rt_soft_float.  The type of such a call says what its       *)
(* operands are: the binary operations take two floats of a format, the    *)
(* unary ones a float or an integer, the complex ones two pairs of floats. *)
(* The invariants compare every result with the exact one.                 *)
(***************************************************************************)
EXTENDS IntCalls, Complex

CONSTANTS
  FloatTypes,       \* the calls: records [ty, F], F the format of the operands
  First(_),         \* the first operands of a call
  Second(_),        \* its second operands
  PowMax,           \* the largest exponent of a power
  IntBits           \* the width of si_int; di_int is twice as wide

ASSUME FloatTypesAssumption ==
  \A t \in FloatTypes : t.ty \in {"binary", "unary", "int", "complex"}
ASSUME PowMaxAssumption == PowMax \in Nat
ASSUME IntBitsAssumption == IntBits = Single.w /\ IntBits <= Double.s + 1 /\ IntBits <= 14

NoOperand(t) == IF t.ty = "complex" THEN <<0, 0>> ELSE 0
FloatInit == \E t \in FloatTypes : call = t /\ x \in First(t) /\ y = NoOperand(t)
\* a call, and the way back to the state before it
CallFloat ==
  /\ call \in FloatTypes /\ y = NoOperand(call)
  /\ y' \in Second(call) /\ UNCHANGED <<call, x>>
FloatReturns ==
  /\ call \in FloatTypes /\ y # NoOperand(call)
  /\ y' = NoOperand(call) /\ UNCHANGED <<call, x>>

Init == CallsInit \/ FloatInit
Next == (call \in OperandTypes /\ CallsNext) \/ CallFloat \/ FloatReturns
Spec == Init /\ [][Next]_callVars

-----------------------------------------------------------------------------
(* Exact values.  A finite float is Sig * 2^Exp; rounding to nearest, ties to  *)
(* even, is stated by the midpoints on the two sides of the result.            *)

F == call.F
of(ty) == call.ty = ty
Sig(f, v) == Significand(f, v) + (IF Exponent(f, v) = 0 THEN 0 ELSE implicitBit(f))
Exp(f, v) == (IF Exponent(f, v) = 0 THEN 1 ELSE Exponent(f, v)) - exponentBias(f) - f.s
IsNeg(f, v) == SignOf(f, v) # 0
\* of a number below 2^31
BitLen(n) == IF n >= 2^30 THEN 31 ELSE CHOOSE i \in 0 .. 30 : n < 2^i /\ (i = 0 \/ 2^(i - 1) <= n)

\* n * 2^k < p * 2^q and =, of n and p above 0
Below(n, k, p, q) ==
  \/ BitLen(n) + k < BitLen(p) + q
  \/ /\ BitLen(n) + k = BitLen(p) + q
     /\ IF k >= q THEN n * 2^(k - q) < p ELSE n < p * 2^(q - k)
Same(n, k, p, q) == ~Below(n, k, p, q) /\ ~Below(p, q, n, k)

\* r is the float of format f nearest to (-1)^neg * n/d * 2^k
Nearest(f, r, neg, n, d, k) ==
  LET m == Abs(f, r)
      p(j) == d * (2 * Sig(f, j) + 1)
      q(j) == Exp(f, j) - 1
      even == m % 2 = 0
  IN  /\ IsNeg(f, r) = neg /\ m <= infRep(f)
      /\ m # 0 => \/ Below(p(m - 1), q(m - 1), n, k)
                  \/ even /\ Same(p(m - 1), q(m - 1), n, k)
      /\ m # infRep(f) => Below(n, k, p(m), q(m)) \/ (even /\ Same(n, k, p(m), q(m)))

\* the exact sum n * 2^k; an operand that is less than a quarter of the other's last place,
\* and so below every rounding position, counts as an eighth of it
SumOK(f, u, v, r) ==
  LET hi == IF Exp(f, u) >= Exp(f, v) THEN u ELSE v
      lo == IF Exp(f, u) >= Exp(f, v) THEN v ELSE u
      gap == Exp(f, hi) - Exp(f, lo)
      far == gap > f.s + 2
      g == IF far THEN 3 ELSE gap
      Signed(z, m) == IF IsNeg(f, z) THEN -m ELSE m
      n == Signed(hi, Sig(f, hi) * 2^g)
             + Signed(lo, IF far /\ Sig(f, lo) # 0 THEN 1 ELSE Sig(f, lo))
  IN  IF \/ crt_isnan(f, u) \/ crt_isnan(f, v)
         \/ crt_isinf(f, u) /\ crt_isinf(f, v) /\ u # v
      THEN crt_isnan(f, r)
      ELSE IF crt_isinf(f, u) THEN r = u
      ELSE IF crt_isinf(f, v) THEN r = v
      ELSE IF n = 0 THEN r = IF Abs(f, u) = 0 /\ u = v THEN u ELSE 0
      ELSE Nearest(f, r, n < 0, IF n < 0 THEN -n ELSE n, 1, Exp(f, hi) - g)
ProductOK(f, u, v, r) ==
  IF \/ crt_isnan(f, u) \/ crt_isnan(f, v)
     \/ crt_isinf(f, u) /\ Abs(f, v) = 0
     \/ crt_isinf(f, v) /\ Abs(f, u) = 0
  THEN crt_isnan(f, r)
  ELSE IF crt_isinf(f, u) \/ crt_isinf(f, v) THEN r = infRep(f) + SignXor(f, u, v)
  ELSE IF Abs(f, u) = 0 \/ Abs(f, v) = 0 THEN r = SignXor(f, u, v)
  ELSE Nearest(f, r, SignXor(f, u, v) # 0, Sig(f, u) * Sig(f, v), 1, Exp(f, u) + Exp(f, v))
QuotientOK(f, u, v, r) ==
  IF \/ crt_isnan(f, u) \/ crt_isnan(f, v)
     \/ crt_isinf(f, u) /\ crt_isinf(f, v)
     \/ Abs(f, u) = 0 /\ Abs(f, v) = 0
  THEN crt_isnan(f, r)
  ELSE IF crt_isinf(f, u) \/ Abs(f, v) = 0 THEN r = infRep(f) + SignXor(f, u, v)
  ELSE IF crt_isinf(f, v) \/ Abs(f, u) = 0 THEN r = SignXor(f, u, v)
  ELSE Nearest(f, r, SignXor(f, u, v) # 0, Sig(f, u), Sig(f, v), Exp(f, u) - Exp(f, v))
-----------------------------------------------------------------------------
(***************************************************************************)
(* The sum and the difference of two floats are the exact ones, rounded to *)
(* nearest with ties to even: cancellation, sticky bits of an operand far  *)
(* below the other, gradual underflow, overflow to infinity and the signs  *)
(* of zero included (fp_add_impl.inc, subsf3.c).                           *)
(***************************************************************************)
SumsRounded ==
  LET Check(add1, sub1) == SumOK(F, x, y, add1) /\ SumOK(F, x, negXf2(F, y), sub1)
  IN  of("binary") =>
        /\ F = Single => Check(addsf3(x, y), subsf3(x, y))
        /\ F = Double => Check(adddf3(x, y), subdf3(x, y))
        /\ F = Quad => Check(addtf3(x, y), subtf3(x, y))

(***************************************************************************)
(* The product is the exact one rounded, whichever way the precision       *)
(* builds the double-width product (fp_mul_impl.inc, fp_lib.h).            *)
(***************************************************************************)
ProductsRounded ==
  of("binary") =>
    /\ F = Single => ProductOK(F, x, y, mulsf3(x, y))
    /\ F = Double => ProductOK(F, x, y, muldf3(x, y))
    /\ F = Quad => ProductOK(F, x, y, multf3(x, y))

(***************************************************************************)
(* The quotient is the exact one rounded: the error of the reciprocal that *)
(* Newton's method approximates, less RECIPROCAL_PRECISION, is always      *)
(* repaired by at most one step up (fp_div_impl.inc).                      *)
(***************************************************************************)
QuotientsRounded ==
  of("binary") => /\ F = Single => QuotientOK(F, x, y, divsf3(x, y))
                  /\ F = Double => QuotientOK(F, x, y, divdf3(x, y))

(***************************************************************************)
(* A comparison orders its operands as numbers, -0 and 0 being equal, and  *)
(* a NaN makes all of <, <=, =, >=, > false: le reports it as greater and  *)
(* ge as less (fp_compare_impl.inc).                                       *)
(***************************************************************************)
Less(f, u, v) ==
  LET Mag(a, c) == Abs(f, c) # 0 /\ (Abs(f, a) = 0 \/ (~crt_isinf(f, a)
                     /\ (crt_isinf(f, c) \/ Below(Sig(f, a), Exp(f, a), Sig(f, c), Exp(f, c)))))
  IN  CASE IsNeg(f, u) /\ IsNeg(f, v) -> Mag(v, u)
        [] ~IsNeg(f, u) /\ ~IsNeg(f, v) -> Mag(u, v)
        [] OTHER -> IsNeg(f, u) /\ ~(Abs(f, u) = 0 /\ Abs(f, v) = 0)
ComparisonsOrder ==
  LET nan == crt_isnan(F, x) \/ crt_isnan(F, y)
      Check(le, ge, unord) ==
        /\ unord = Flag(nan)
        /\ (le < 0) = (~nan /\ Less(F, x, y))
        /\ (le > 0) = (nan \/ Less(F, y, x))
        /\ (ge > 0) = (~nan /\ Less(F, y, x))
        /\ (ge < 0) = (nan \/ Less(F, x, y))
  IN  of("binary") =>
        /\ F = Single => Check(lesf2(x, y), gesf2(x, y), unordsf2(x, y))
        /\ F = Double => Check(ledf2(x, y), gedf2(x, y), unorddf2(x, y))
        /\ F = Quad => Check(letf2(x, y), getf2(x, y), unordtf2(x, y))

(***************************************************************************)
(* Arithmetic on floats is that of the exact values rounded once, and      *)
(* their order that of the exact values (fp_add_impl.inc, fp_mul_impl.inc, *)
(* fp_div_impl.inc, fp_compare_impl.inc).                                  *)
(***************************************************************************)
ArithmeticExact == SumsRounded /\ ProductsRounded /\ QuotientsRounded /\ ComparisonsOrder

-----------------------------------------------------------------------------
(***************************************************************************)
(* Widening a float keeps its value, or its payload when it is a NaN;      *)
(* narrowing one rounds it to nearest, into the subnormal numbers and to   *)
(* infinity too, and keeps a NaN a quiet NaN (fp_extend_impl.inc,          *)
(* fp_trunc_impl.inc).                                                     *)
(***************************************************************************)
ConversionsRounded ==
  LET To(f, r) == IF crt_isnan(F, x) THEN crt_isnan(f, r)
                  ELSE IF crt_isinf(F, x) THEN r = infRep(f) + (IF IsNeg(F, x) THEN signBit(f) ELSE 0)
                  ELSE IF Abs(F, x) = 0 THEN r = IF IsNeg(F, x) THEN signBit(f) ELSE 0
                  ELSE Nearest(f, r, IsNeg(F, x), Sig(F, x), 1, Exp(F, x))
      Wider(f, r) == /\ To(f, r)
                     /\ crt_isfinite(F, x) /\ Abs(F, x) # 0 =>
                          Same(Sig(F, x), Exp(F, x), Sig(f, r), Exp(f, r))
                     /\ crt_isnan(F, x) => Significand(f, r) = Significand(F, x) * 2^(f.s - F.s)
      Narrower(f, r) == /\ To(f, r)
                        /\ crt_isnan(F, x) => Significand(f, r) >= quietBit(f)
  IN  of("unary") =>
        /\ F = Half => Wider(Single, extendhfsf2(x)) /\ Wider(Quad, extendhftf2(x))
        /\ F = Single => /\ Wider(Double, extendsfdf2(x)) /\ Wider(Quad, extendsftf2(x))
                         /\ Narrower(Half, truncsfhf2(x))
        /\ F = Double => /\ Wider(Quad, extenddftf2(x))
                         /\ Narrower(Single, truncdfsf2(x)) /\ Narrower(Half, truncdfhf2(x))
        /\ F = Quad => /\ Narrower(Double, trunctfdf2(x))
                       /\ Narrower(Single, trunctfsf2(x)) /\ Narrower(Half, trunctfhf2(x))

(***************************************************************************)
(* A float whose integer part fits the type becomes that integer, whatever *)
(* the width of the type and whichever way it is computed; a negative      *)
(* float becomes the unsigned 0, and a float of 2^N or more, where N is    *)
(* the width, the largest or the smallest integer (fp_fixint_impl.inc,     *)
(* fp_fixuint_impl.inc, fixdfdi.c, fixunsdfdi.c, fixsfdi.c, fixunssfdi.c). *)
(***************************************************************************)
FixTruncates ==
  LET finite == crt_isfinite(F, x)
      small == finite /\ (Sig(F, x) = 0 \/ BitLen(Sig(F, x)) + Exp(F, x) <= 25)
      int == IF Exp(F, x) >= 0 THEN Sig(F, x) * 2^Exp(F, x)
             ELSE IF -Exp(F, x) >= 30 THEN 0 ELSE Sig(F, x) \div 2^(-Exp(F, x))
      value == IF IsNeg(F, x) THEN -int ELSE int
      UnsignedFits(N) == small /\ value \in 0 .. 2^N - 1
      SignedFits(N) == small /\ value \in -(2^(N - 1)) .. 2^(N - 1) - 1
      large(N) == ~crt_isnan(F, x) /\ ~(small /\ int < 2^N)
      Unsigned(N, r) == /\ UnsignedFits(N) => r = value
                        /\ IsNeg(F, x) /\ ~crt_isnan(F, x) => r = 0
                        /\ ~IsNeg(F, x) /\ large(N) => r = 2^N - 1
      Signed(N, r) == /\ SignedFits(N) => r = Trunc(N, value)
                      /\ large(N) => r = IF IsNeg(F, x) THEN 2^(N - 1) ELSE 2^(N - 1) - 1
      FitsOnly(N, r, u) == /\ UnsignedFits(N) => u = value
                           /\ SignedFits(N) => r = Trunc(N, value)
  IN  of("unary") =>
        /\ F = Single => /\ Signed(12, fixsfsi(12, x)) /\ Unsigned(12, fixunssfsi(12, x))
                         /\ Signed(20, fixsfti(20, x)) /\ Unsigned(20, fixunssfti(20, x))
                         /\ FitsOnly(24, fixsfdi(24, x), fixunssfdi(24, x))
        /\ F = Double => /\ Signed(12, fixdfsi(12, x)) /\ Unsigned(12, fixunsdfsi(12, x))
                         /\ Signed(20, fixdfti(20, x)) /\ Unsigned(20, fixunsdfti(20, x))
                         /\ FitsOnly(24, fixdfdi(24, x), fixunsdfdi(24, x))
        /\ F = Quad => /\ Signed(8, fixtfsi(8, x)) /\ Unsigned(8, fixunstfsi(8, x))
                       /\ Signed(12, fixtfdi(12, x)) /\ Unsigned(12, fixunstfdi(12, x))
                       /\ Signed(20, fixtfti(20, x)) /\ Unsigned(20, fixunstfti(20, x))

(***************************************************************************)
(* An integer becomes the nearest float, and the routines with and without *)
(* floating-point instructions agree.  A long double, whose significand is *)
(* as wide as a di_int, takes a di_int exactly, and gives it back; a       *)
(* ti_int comes back with the error of one rounding (the float, fix and    *)
(* fixuns routines, int_lib.h).                                            *)
(***************************************************************************)
FloatsRounded ==
  LET N == IntBits
      W == 2 * IntBits
      D == 2 * Double.s          \* the halves of a di_int fit the significand of a double
      X == N \div 2
      \* r and u are the signed and the unsigned conversion of x, an integer of M bits
      To(f, M, r, u) ==
        LET z == SVal(M, x)
        IN  IF x = 0 THEN r = 0 /\ u = 0
            ELSE /\ Nearest(f, u, FALSE, x, 1, 0)
                 /\ Nearest(f, r, z < 0, IF z < 0 THEN -z ELSE z, 1, 0)
      low == x % 2^X
      step == 2^(BitLen(x) - X)
      back == fixunsxfti(X, floatuntixf(X, x))
  IN  of("int") =>
        /\ To(Single, W, floatdisf(W, x), floatundisf(W, x))
        /\ To(Single, W, floattisf(W, x), floatuntisf(W, x))
        /\ To(Double, W, floattidf(W, x), floatuntidf(W, x))
        /\ To(Quad, W, floattitf(W, x), floatuntitf(W, x))
        /\ x < 2^D =>
             /\ To(Double, D, floatdidf(D, x), floatundidf(D, x))
             /\ floatdidf(D, x) = floatdidfSoft(D, x) /\ floatundidf(D, x) = floatundidfSoft(D, x)
        /\ x < 2^N =>
             /\ To(Single, N, floatsisf(N, x), floatunsisf(N, x))
             /\ To(Double, N, floatsidf(N, x), floatunsidf(N, x))
             /\ To(Quad, N, floatsitf(N, x), floatunsitf(N, x))
             /\ To(Quad, N, floatditf(N, x), floatunditf(N, x))
             /\ fixunsxfdi(X, floatundixf(X, low)) = low
             /\ fixxfdi(X, floatdixf(X, low)) = low
             /\ low < 2^(X \div 2) => fixunsxfsi(X, floatundixf(X, low)) = low
             /\ x < 2^X => back = x /\ fixxfti(X, floattixf(X, x)) = x
             /\ x >= 2^X /\ x + step < 2^N =>
                  /\ 2 * (back - x) \in -step .. step
                  /\ 2 * (back - x) \in {-step, step} => (back \div step) % 2 = 0

(***************************************************************************)
(* A conversion between two formats, or between floats and integers,       *)
(* rounds the exact value once: no bit shifted out on the way is forgotten *)
(* (fp_trunc_impl.inc, fp_fixuint_impl.inc, floatdisf.c and their like).   *)
(***************************************************************************)
ConversionsExact == ConversionsRounded /\ FixTruncates /\ FloatsRounded

-----------------------------------------------------------------------------
(***************************************************************************)
(* A power of a power of two is exact while it and its inverse are normal  *)
(* numbers, and every float to the 0 is 1 (powisf2.c and its like).        *)
(***************************************************************************)
PowersExact ==
  LET k == Exponent(F, x) - exponentBias(F)
      Check(p(_, _)) ==
        /\ p(x, 0) = oneRep(F)
        /\ Significand(F, x) = 0 /\ Exponent(F, x) \in 1 .. maxExponent(F) - 1 =>
             \A n \in -PowMax .. PowMax :
               k * n \in 1 - exponentBias(F) .. exponentBias(F) - 1 /\ n # 0 =>
                 p(x, n) = Pow2(F, k * n) + (IF n % 2 = 1 THEN SignOf(F, x) ELSE 0)
  IN  of("unary") => /\ F = Single => Check(powisf2)
                     /\ F = Double => Check(powidf2) /\ Check(powixf2)

(***************************************************************************)
(* Infinities survive complex arithmetic, whatever NaN stands in the other *)
(* part: an infinity times anything but zero is an infinity, an infinity   *)
(* over a finite number is one, so is a nonzero number over zero, and a    *)
(* finite number over an infinity is zero, unless the sum of its own parts *)
(* overflows (mulsc3.c, divsc3.c, ...).                                    *)
(***************************************************************************)
Infinite(z) == crt_isinf(F, z[1]) \/ crt_isinf(F, z[2])
AllFinite(z) == crt_isfinite(F, z[1]) /\ crt_isfinite(F, z[2])
SumFinite(z) == AllFinite(z) /\ crt_isfinite(F, addXf3(F, Abs(F, z[1]), Abs(F, z[2])))
IsZero(z) == Abs(F, z[1]) = 0 /\ Abs(F, z[2]) = 0
NonZero(z) == (AllFinite(z) /\ ~IsZero(z)) \/ Infinite(z)
ComplexInfinities ==
  LET Check(m, d) ==
        LET product == <<m.re, m.im>>
            quotient == <<d.re, d.im>>
        IN  /\ Infinite(x) /\ NonZero(y) => Infinite(product)
            /\ Infinite(y) /\ NonZero(x) => Infinite(product)
            /\ Infinite(x) /\ AllFinite(y) => Infinite(quotient)
            /\ NonZero(x) /\ IsZero(y) => Infinite(quotient)
            /\ SumFinite(x) /\ Infinite(y) => IsZero(quotient)
  IN  of("complex") =>
        /\ F = Single => Check(mulsc3(x[1], x[2], y[1], y[2]), divsc3(x[1], x[2], y[1], y[2]))
        /\ F = Double => /\ Check(muldc3(x[1], x[2], y[1], y[2]), divdc3(x[1], x[2], y[1], y[2]))
                         /\ Check(mulxc3(x[1], x[2], y[1], y[2]), divxc3(x[1], x[2], y[1], y[2]))
                         /\ Check(multc3(x[1], x[2], y[1], y[2]), divtc3(x[1], x[2], y[1], y[2]))

(***************************************************************************)
(* Scaling the divisor by its exponent loses nothing: the quotient of real *)
(* powers of two, subnormal ones and those whose squares leave the range   *)
(* included, is the one of floats (divsc3.c, logb and scalbn of fp_lib.h). *)
(***************************************************************************)
PowerOfTwo(v) == crt_isfinite(F, v) /\ Sig(F, v) # 0 /\ Sig(F, v) = 2^(BitLen(Sig(F, v)) - 1)
ScalingExact ==
  of("complex") /\ x[2] = 0 /\ y[2] = 0 /\ PowerOfTwo(x[1]) /\ PowerOfTwo(y[1]) =>
    /\ F = Single => divsc3(x[1], 0, y[1], 0).re = divsf3(x[1], y[1])
    /\ F = Double => divdc3(x[1], 0, y[1], 0).re = divdf3(x[1], y[1])

(***************************************************************************)
(* What is built from several operations neither loses an infinity nor     *)
(* leaves the range on the way to a result inside it (powisf2.c, mulsc3.c, *)
(* divsc3.c and their like).                                               *)
(***************************************************************************)
CompositesExact == PowersExact /\ ComplexInfinities /\ ScalingExact
=============================================================================
