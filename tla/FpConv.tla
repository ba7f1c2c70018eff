------------------------------- MODULE FpConv -------------------------------
(***************************************************************************)
(* Conversions of compiler-rt_soft_float between floating-point formats,   *)
(* and between them and integers.  An integer is the bit pattern of its    *)
(* type of N bits.  A long double of the build has 80 bits and an explicit *)
(* integer bit: a record [sign, exp, man] whose man has X bits, the width  *)
(* of du_int.                                                              *)
(***************************************************************************)
EXTENDS FpLib

\* (significand << (width - n)) != 0, and rounding to nearest by the bits dropped
LostBits(w, x, n) == Flag(Shl(w, x, w - n) # 0)
RoundHalfEven(r, bits, halfway) ==
  IF bits > halfway THEN r + 1 ELSE IF bits = halfway THEN r + (r % 2) ELSE r

-----------------------------------------------------------------------------
(* fp_extend_impl.inc, fp_trunc_impl.inc *)

extendXfYf2(S, D, a) ==
  LET aAbs == Abs(S, a)
      up == D.s - S.s
      scale == Clz(S.w, aAbs) - Clz(S.w, implicitBit(S))
      absResult ==
        CASE Sub(S.w, aAbs, implicitBit(S)) < infRep(S) - implicitBit(S) ->
               aAbs * 2^up + (exponentBias(D) - exponentBias(S)) * implicitBit(D)
          [] aAbs >= infRep(S) ->
               infRep(D) + (aAbs & quietBit(S)) * 2^up + (aAbs % quietBit(S)) * 2^up
          [] aAbs < implicitBit(S) /\ aAbs # 0 ->
               ((aAbs * 2^(up + scale)) ^^ implicitBit(D))
                 | ((exponentBias(D) - exponentBias(S) - scale + 1) * implicitBit(D))
          [] OTHER -> 0
  IN  absResult + SignOf(S, a) * 2^(D.w - S.w)

truncXfYf2(S, D, a) ==
  LET aAbs == Abs(S, a)
      down == S.s - D.s
      halfway == 2^(down - 1)
      underflow == (exponentBias(S) + 1 - exponentBias(D)) * implicitBit(S)
      overflow == (exponentBias(S) + maxExponent(D) - exponentBias(D)) * implicitBit(S)
      shift == exponentBias(S) - exponentBias(D) - Exponent(S, a) + 1
      sig == Significand(S, a) + implicitBit(S)
      den == Shr(S.w, sig, shift) | LostBits(S.w, sig, shift)
      absResult ==
        CASE Sub(S.w, aAbs, underflow) < Sub(S.w, aAbs, overflow) ->
               RoundHalfEven((aAbs \div 2^down)
                               - (exponentBias(S) - exponentBias(D)) * implicitBit(D),
                             aAbs % 2^down, halfway)
          [] aAbs > infRep(S) ->
               qnanRep(D) + (((aAbs % quietBit(S)) \div 2^down) % quietBit(D))
          [] aAbs >= overflow /\ aAbs <= infRep(S) -> infRep(D)
          [] OTHER -> IF shift > S.s THEN 0
                      ELSE RoundHalfEven(den \div 2^down, den % 2^down, halfway)
  IN  absResult + SignOf(S, a) \div 2^(S.w - D.w)

extendhfsf2(a) == extendXfYf2(Half, Single, a)
extendsfdf2(a) == extendXfYf2(Single, Double, a)
extenddftf2(a) == extendXfYf2(Double, Quad, a)
extendsftf2(a) == extendXfYf2(Single, Quad, a)
extendhftf2(a) == extendXfYf2(Half, Quad, a)
truncdfhf2(a) == truncXfYf2(Double, Half, a)
truncdfsf2(a) == truncXfYf2(Double, Single, a)
truncsfhf2(a) == truncXfYf2(Single, Half, a)
trunctfdf2(a) == truncXfYf2(Quad, Double, a)
trunctfsf2(a) == truncXfYf2(Quad, Single, a)
trunctfhf2(a) == truncXfYf2(Quad, Half, a)

-----------------------------------------------------------------------------
(* fp_fixint_impl.inc, fp_fixuint_impl.inc: to an integer of N bits *)

ShiftSignificand(F, N, exponent, significand) ==
  IF exponent < F.s THEN Trunc(N, Shr(F.w, significand, F.s - exponent))
  ELSE Shl(N, Trunc(N, significand), exponent - F.s)
fixint(F, N, a) ==
  LET negative == SignOf(F, a) # 0
      exponent == Exponent(F, a) - exponentBias(F)
      r == ShiftSignificand(F, N, exponent, Significand(F, a) + implicitBit(F))
  IN  CASE exponent < 0 -> 0
        [] exponent >= N -> IF negative THEN 2^(N - 1) ELSE 2^(N - 1) - 1
        [] OTHER -> IF negative THEN Neg(N, r) ELSE r
fixuint(F, N, a) ==
  LET exponent == Exponent(F, a) - exponentBias(F)
  IN  CASE SignOf(F, a) # 0 \/ exponent < 0 -> 0
        [] exponent >= N -> 2^N - 1
        [] OTHER -> ShiftSignificand(F, N, exponent, Significand(F, a) + implicitBit(F))

fixsfsi(N, a) == fixint(Single, N, a)
fixdfsi(N, a) == fixint(Double, N, a)
fixtfsi(N, a) == fixint(Quad, N, a)
fixtfdi(N, a) == fixint(Quad, N, a)
fixsfti(N, a) == fixint(Single, N, a)
fixdfti(N, a) == fixint(Double, N, a)
fixtfti(N, a) == fixint(Quad, N, a)
fixunssfsi(N, a) == fixuint(Single, N, a)
fixunsdfsi(N, a) == fixuint(Double, N, a)
fixunstfsi(N, a) == fixuint(Quad, N, a)
fixunstfdi(N, a) == fixuint(Quad, N, a)
fixunssfti(N, a) == fixuint(Single, N, a)
fixunsdfti(N, a) == fixuint(Double, N, a)
fixunstfti(N, a) == fixuint(Quad, N, a)

\* N <= significandBits + 1: no rounding
FloatExact(F, N, a) ==
  LET exponent == N - 1 - Clz(N, a)
  IN  IF a = 0 THEN 0
      ELSE (Shl(F.w, a, F.s - exponent) ^^ implicitBit(F))
             + (exponent + exponentBias(F)) * implicitBit(F)

\* the branches of the build, which has floating-point instructions: the two
\* halves of the integer by a division and a subtraction of doubles.  The
\* instructions round as the routines of FpLib do; a cast to su_int truncates.
Pow2(F, n) == (exponentBias(F) + n) * implicitBit(F)
fixunsdfdi(N, a) ==
  LET h == N \div 2
      high == fixuint(Double, h, divdf3(a, Pow2(Double, h)))
      scaled == muldf3(FloatExact(Double, h, high), Pow2(Double, h))
      low == fixuint(Double, h, subdf3(a, scaled))
  IN  IF ledf2(a, 0) <= 0 THEN 0 ELSE high * 2^h + low
fixunssfdi(N, a) == IF lesf2(a, 0) <= 0 THEN 0 ELSE fixunsdfdi(N, extendsfdf2(a))
fixdfdi(N, a) ==
  IF ledf2(a, 0) = LE_LESS THEN Neg(N, fixunsdfdi(N, negdf2(a))) ELSE fixunsdfdi(N, a)
fixsfdi(N, a) ==
  IF lesf2(a, 0) = LE_LESS THEN Neg(N, fixunssfdi(N, negsf2(a))) ELSE fixunssfdi(N, a)

-----------------------------------------------------------------------------
(* From an integer of N bits, by shifting it into the significand *)

AbsInt(N, a) == IF SVal(N, a) < 0 THEN Neg(N, a) ELSE a
SignRep(F, N, a) == IF SVal(N, a) < 0 THEN signBit(F) ELSE 0
\* N = typeWidth
FloatRounding(F, N, a) ==
  LET exponent == N - 1 - Clz(N, a)
      shift == exponent - F.s
      r == RoundHalfEven((a \div 2^shift) ^^ implicitBit(F), Shl(F.w, a, F.w - shift), signBit(F))
  IN  IF exponent <= F.s THEN FloatExact(F, N, a)
      ELSE r + (exponent + exponentBias(F)) * implicitBit(F)
floatsisf(N, a) == FloatRounding(Single, N, AbsInt(N, a)) + SignRep(Single, N, a)
floatunsisf(N, a) == FloatRounding(Single, N, a)
floatsidf(N, a) == FloatExact(Double, N, AbsInt(N, a)) + SignRep(Double, N, a)
floatunsidf(N, a) == FloatExact(Double, N, a)
floatsitf(N, a) == FloatExact(Quad, N, AbsInt(N, a)) + SignRep(Quad, N, a)
floatunsitf(N, a) == FloatExact(Quad, N, a)
floatditf(N, a) == FloatExact(Quad, N, AbsInt(N, a)) + SignRep(Quad, N, a)
floatunditf(N, a) == FloatExact(Quad, N, a)

(* ... by rounding it to MANT_DIG bits with the bits P, Q and R *)

\* Mutant: the digits beyond Q are dropped.
DigitsPQ(N, mant, a, sd) ==
  CASE sd = mant + 1 -> Shl(N, a, 1)
    [] sd = mant + 2 -> a
    [] sd > mant + 2 -> a \div 2^(sd - (mant + 2))
DigitsPQR(N, mant, a, sd) ==
  CASE sd = mant + 1 -> Shl(N, a, 1)
    [] sd = mant + 2 -> a
    [] sd > mant + 2 ->
         (a \div 2^(sd - (mant + 2))) | Flag(a & ((2^N - 1) \div 2^((N + mant + 2) - sd)) # 0)
\* the rounded digits and the exponent of a # 0
RoundDigits(N, mant, a) ==
  LET sd == N - Clz(N, a)
      pqr == DigitsPQR(N, mant, a, sd)
      r == Shr(N, Add(N, pqr | Flag(pqr & 4 # 0), 1), 2)
  IN  CASE sd <= mant -> [man |-> Shl(N, a, mant - sd), exp |-> sd - 1]
        [] sd > mant -> IF r & 2^mant # 0 THEN [man |-> r \div 2, exp |-> sd]
                        ELSE [man |-> r, exp |-> sd - 1]
FloatDigits(F, N, a) ==
  LET r == RoundDigits(N, F.s + 1, a)
  IN  IF a = 0 THEN 0
      ELSE (r.exp + exponentBias(F)) * implicitBit(F) + (r.man % implicitBit(F))
FloatSigned(F, N, a) == FloatDigits(F, N, AbsInt(N, a)) + SignRep(F, N, a)
floatdisf(N, a) == FloatSigned(Single, N, a)
floatundisf(N, a) == FloatDigits(Single, N, a)
floattisf(N, a) == FloatSigned(Single, N, a)
floatuntisf(N, a) == FloatDigits(Single, N, a)
floattidf(N, a) == FloatSigned(Double, N, a)
floatuntidf(N, a) == FloatDigits(Double, N, a)
floattitf(N, a) == FloatSigned(Quad, N, a)
floatuntitf(N, a) == FloatDigits(Quad, N, a)
\* the branches compiled with __SOFTFP__
floatdidfSoft(N, a) == FloatSigned(Double, N, a)
floatundidfSoft(N, a) == FloatDigits(Double, N, a)

\* the branches of the build: the halves of the integer become the significands
\* of 2^52 and 2^84, which the final additions take away again
twop52(F) == Pow2(F, F.s)
floatdidf(N, a) ==
  LET h == N \div 2
      high == muldf3(floatsidf(h, a \div 2^h), Pow2(Double, h))
      low == twop52(Double) | (a % 2^h)
  IN  adddf3(subdf3(high, twop52(Double)), low)
floatundidf(N, a) ==
  LET h == N \div 2
      twop84 == Pow2(Double, Double.s + h)
      high == twop84 | (a \div 2^h)
      low == twop52(Double) | (a % 2^h)
  IN  adddf3(subdf3(high, adddf3(twop84, twop52(Double))), low)

-----------------------------------------------------------------------------
(* The long double: records [sign, exp, man], man with X bits *)

xBias == 16383
xZero == [sign |-> 0, exp |-> 0, man |-> 0]
Xf(sign, e, man) == [sign |-> sign, exp |-> e + xBias, man |-> man]
floatundixf(X, a) == IF a = 0 THEN xZero ELSE Xf(0, X - 1 - Clz(X, a), Shl(X, a, Clz(X, a)))
floatdixf(X, a) ==
  [floatundixf(X, AbsInt(X, a)) EXCEPT !.sign = Flag(SVal(X, a) < 0)]
floatuntixf(X, a) ==
  IF a = 0 THEN xZero
  ELSE LET r == RoundDigits(2 * X, X, a) IN Xf(0, r.exp, Trunc(X, r.man))
floattixf(X, a) ==
  [floatuntixf(X, AbsInt(2 * X, a)) EXCEPT !.sign = Flag(SVal(2 * X, a) < 0)]

fixunsxfdi(X, a) ==
  LET e == a.exp - xBias
  IN  IF e < 0 \/ a.sign = 1 THEN 0 ELSE IF e > X THEN 2^X - 1
      ELSE Shr(X, a.man, X - 1 - e)
fixunsxfsi(X, a) ==
  LET e == a.exp - xBias
      h == X \div 2
  IN  IF e < 0 \/ a.sign = 1 THEN 0 ELSE IF e > h THEN 2^h - 1
      ELSE Shr(h, a.man \div 2^h, h - 1 - e)
ShiftTi(X, man, e) ==
  IF e > X - 1 THEN Shl(2 * X, man, e - (X - 1)) ELSE Shr(2 * X, man, X - 1 - e)
fixunsxfti(X, a) ==
  LET e == a.exp - xBias
  IN  IF e < 0 \/ a.sign = 1 THEN 0 ELSE IF e > 2 * X THEN 2^(2 * X) - 1
      ELSE ShiftTi(X, a.man, e)
\* a > 0 ? max : min, of N bits; a NaN is not greater than 0
Saturated(X, N, a) ==
  IF a.sign = 0 /\ ~(a.exp = 2 * xBias + 1 /\ a.man # 2^(X - 1)) THEN 2^(N - 1) - 1
  ELSE 2^(N - 1)
fixxfdi(X, a) ==
  LET e == a.exp - xBias
      r == Shr(X, a.man, X - 1 - e)
  IN  IF e < 0 THEN 0 ELSE IF e >= X THEN Saturated(X, X, a)
      ELSE IF a.sign = 1 THEN Neg(X, r) ELSE r
fixxfti(X, a) ==
  LET e == a.exp - xBias
      r == ShiftTi(X, a.man, e)
  IN  IF e < 0 THEN 0 ELSE IF e >= 2 * X THEN Saturated(X, 2 * X, a)
      ELSE IF a.sign = 1 THEN Neg(2 * X, r) ELSE r
=============================================================================
