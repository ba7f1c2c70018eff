------------------------------- MODULE FpLib -------------------------------
(***************************************************************************)
(* The floating-point arithmetic of compiler-rt_soft_float.  A number of a *)
(* format F is its bit pattern, as toRep returns it: F.w bits of which F.s *)
(* are the significand's, one is the sign and the others are the           *)
(* exponent's; F.prec is the precision whose branch of fp_lib.h and        *)
(* fp_div_impl.inc is compiled.  The routines are generic in the format as *)
(* the code is; the wrappers apply them to Half, Single, Double and Quad.  *)
(***************************************************************************)
EXTENDS Words, Bitwise

CONSTANTS Half, Single, Double, Quad

FormatOK(F, prec) ==
  /\ F.prec = prec /\ F.w \in Nat /\ F.s \in Nat
  /\ 0 < F.s /\ F.s + 4 < F.w /\ F.w <= 30
\* a format leaves room for a round and a sticky bit above the narrower one
ASSUME FormatsAssumption ==
  /\ FormatOK(Half, "half") /\ FormatOK(Single, "single")
  /\ FormatOK(Double, "double") /\ FormatOK(Quad, "quad")
  /\ Half.s + 2 <= Single.s /\ Single.s + 2 <= Double.s /\ Double.s + 2 <= Quad.s

typeWidth(F) == F.w
significandBits(F) == F.s
exponentBits(F) == F.w - F.s - 1
maxExponent(F) == 2^exponentBits(F) - 1
exponentBias(F) == maxExponent(F) \div 2
implicitBit(F) == 2^F.s
significandMask(F) == implicitBit(F) - 1
signBit(F) == 2^(F.w - 1)
absMask(F) == signBit(F) - 1
oneRep(F) == exponentBias(F) * 2^F.s
infRep(F) == maxExponent(F) * 2^F.s
quietBit(F) == implicitBit(F) \div 2
qnanRep(F) == infRep(F) + quietBit(F)

\* rep & absMask, rep & signBit, rep & significandMask, and the exponent field
Abs(F, rep) == rep % signBit(F)
SignOf(F, rep) == rep - Abs(F, rep)
Significand(F, rep) == rep % implicitBit(F)
Exponent(F, rep) == Abs(F, rep) \div implicitBit(F)
\* (aRep ^ bRep) & signBit
SignXor(F, a, b) == IF SignOf(F, a) = SignOf(F, b) THEN 0 ELSE signBit(F)

-----------------------------------------------------------------------------
(* fp_lib.h: words of the three precisions *)

rep_clzSingle(F, a) == Clz(F.w, a)
rep_clzDouble(F, a) == Clz(F.w, a)
rep_clzQuad(F, a) ==
  LET h == F.w \div 2
  IN  IF High(h, a) # 0 THEN Clz(h, High(h, a)) ELSE Clz(h, Low(h, a)) + h
rep_clz(F, a) ==
  CASE F.prec = "single" -> rep_clzSingle(F, a)
    [] F.prec = "double" -> rep_clzDouble(F, a)
    [] F.prec = "quad" -> rep_clzQuad(F, a)

HiLo(hi, lo) == [hi |-> hi, lo |-> lo]
wideMultiplySingle(F, a, b) == HiLo((a * b) \div 2^F.w, Trunc(F.w, a * b))
wideMultiplyDouble(F, a, b) ==
  LET h == F.w \div 2
      loWord(x) == x % 2^h
      hiWord(x) == x \div 2^h
      plolo == loWord(a) * loWord(b)
      plohi == loWord(a) * hiWord(b)
      philo == hiWord(a) * loWord(b)
      phihi == hiWord(a) * hiWord(b)
      r1 == hiWord(plolo) + loWord(plohi) + loWord(philo)
  IN  HiLo(Trunc(F.w, hiWord(plohi) + hiWord(philo) + hiWord(r1) + phihi),
           Add(F.w, loWord(plolo), Shl(F.w, r1, h)))
\* Word_1 .. Word_4, words of q bits
QuadWords(q, x) == [i \in 1 .. 4 |-> (x \div 2^(q * (4 - i))) % 2^q]
\* the sums of the products of words, by their place
QuadSums(a, b) ==
  <<a[4] * b[4], a[3] * b[4] + a[4] * b[3], a[2] * b[4] + a[3] * b[3] + a[4] * b[2],
    a[1] * b[4] + a[2] * b[3] + a[3] * b[2] + a[4] * b[1],
    a[1] * b[3] + a[2] * b[2] + a[3] * b[1], a[1] * b[2] + a[2] * b[1], a[1] * b[1]>>
\* s[i + 1] is sum_i of the code
QuadProduct(F, q, s) ==
  LET LoMask(x) == x % 2^q
      FullMask(x) == x % 2^(2 * q)
      r0 == FullMask(s[1]) + LoMask(s[2]) * 2^q
      r1 == s[1] \div 2^(2 * q) + FullMask(s[2] \div 2^q) + FullMask(s[3]) + LoMask(s[4]) * 2^q
  IN  HiLo(Trunc(F.w, r1 \div 2^(2 * q) + s[2] \div 2^(3 * q) + s[3] \div 2^(2 * q)
                        + s[4] \div 2^q + s[5] + s[6] * 2^q + s[7] * 2^(2 * q)),
           Trunc(F.w, r0 + Shl(F.w, Trunc(F.w, r1), 2 * q)))
wideMultiplyQuad(F, a, b) ==
  LET q == F.w \div 4 IN QuadProduct(F, q, QuadSums(QuadWords(q, a), QuadWords(q, b)))
wideMultiply(F, a, b) ==
  CASE F.prec = "single" -> wideMultiplySingle(F, a, b)
    [] F.prec = "double" -> wideMultiplyDouble(F, a, b)
    [] F.prec = "quad" -> wideMultiplyQuad(F, a, b)

ShiftUp(F, sig, shift) == [sig |-> Shl(F.w, sig, shift), exp |-> 1 - shift]
normalize(F, significand) ==
  ShiftUp(F, significand, rep_clz(F, significand) - rep_clz(F, implicitBit(F)))

wideLeftShift(F, p, count) ==
  HiLo(Shl(F.w, p.hi, count) + Shr(F.w, p.lo, F.w - count), Shl(F.w, p.lo, count))
wideRightShiftWithSticky(F, p, count) ==
  CASE count < F.w ->
         HiLo(Shr(F.w, p.hi, count),
              Shl(F.w, p.hi, F.w - count) | Shr(F.w, p.lo, count)
                | Flag(Shl(F.w, p.lo, F.w - count) # 0))
    [] F.w <= count /\ count < 2 * F.w ->
         HiLo(0, Shr(F.w, p.hi, count - F.w)
                   | Flag(Shl(F.w, p.hi, 2 * F.w - count) # 0 \/ p.lo # 0))
    [] OTHER -> HiLo(0, Flag(p.hi # 0 \/ p.lo # 0))

-----------------------------------------------------------------------------
(* fp_mode.c, fp_add_impl.inc *)

fe_getround == "tonearest"
\* the last step of an addition; rgs are the round, guard and sticky bits
AddRound(F, result, rgs) ==
  CASE fe_getround = "tonearest" ->
         IF rgs > 4 THEN result + 1 ELSE IF rgs = 4 THEN result + (result % 2) ELSE result
    [] fe_getround = "downward" -> result + Flag(SignOf(F, result) # 0 /\ rgs # 0)
    [] fe_getround = "upward" -> result + Flag(SignOf(F, result) = 0 /\ rgs # 0)
    [] fe_getround = "towardzero" -> result

\* a right shift whose last bit is set when a bit is lost
ShrSticky(F, x, n) == Shr(F.w, x, n) | Flag(Shl(F.w, x, F.w - n) # 0)
\* the significand of a number other than 0, with its implicit bit, and its exponent
Unpack(F, rep) ==
  IF Exponent(F, rep) = 0 THEN normalize(F, Significand(F, rep))
  ELSE [sig |-> Significand(F, rep) + implicitBit(F), exp |-> Exponent(F, rep)]

\* bSignificand shifted by the difference of the exponents; b is not 0
AlignSig(F, sig, align) ==
  IF align = 0 THEN sig ELSE IF align < F.w THEN ShrSticky(F, sig, align) ELSE 1
\* a partial cancellation, and a carry
NormalizeDiff(F, diff, exp) ==
  LET shift == IF diff < implicitBit(F) * 8
               THEN rep_clz(F, diff) - rep_clz(F, implicitBit(F) * 8) ELSE 0
  IN  [sig |-> Shl(F.w, diff, shift), exp |-> exp - shift]
NormalizeSum(F, sum, exp) ==
  IF sum & (implicitBit(F) * 16) # 0 THEN [sig |-> (sum \div 2) | (sum % 2), exp |-> exp + 1]
  ELSE [sig |-> sum, exp |-> exp]
\* a result that is denormal before rounding
Denormalize(F, n) ==
  IF n.exp <= 0 THEN [sig |-> ShrSticky(F, n.sig, 1 - n.exp), exp |-> 0] ELSE n
AddPack(F, r, sign) ==
  AddRound(F, ((r.sig \div 8) % implicitBit(F)) + r.exp * implicitBit(F) + sign, r.sig % 8)
AddResult(F, n, sign) ==
  IF n.exp >= maxExponent(F) THEN infRep(F) + sign ELSE AddPack(F, Denormalize(F, n), sign)
\* significands with three more bits, the larger one first
AddSignificands(F, aSig, bSig, exp, sign, subtraction) ==
  IF subtraction /\ aSig = bSig THEN 0
  ELSE AddResult(F, IF subtraction THEN NormalizeDiff(F, Sub(F.w, aSig, bSig), exp)
                    ELSE NormalizeSum(F, Add(F.w, aSig, bSig), exp), sign)
AddUnpacked(F, a, b, sign, subtraction) ==
  AddSignificands(F, Shl(F.w, a.sig, 3), AlignSig(F, Shl(F.w, b.sig, 3), a.exp - b.exp), a.exp,
                  sign, subtraction)
\* numbers other than 0, the larger absolute value first
AddOrdered(F, aRep, bRep) ==
  AddUnpacked(F, Unpack(F, aRep), Unpack(F, bRep), SignOf(F, aRep), SignXor(F, aRep, bRep) # 0)

ZeroInfNaN(F, abs) == Sub(F.w, abs, 1) >= infRep(F) - 1
addXf3(F, a, b) ==
  LET aAbs == Abs(F, a)
      bAbs == Abs(F, b)
  IN  CASE ZeroInfNaN(F, aAbs) \/ ZeroInfNaN(F, bAbs) ->
             IF aAbs > infRep(F) THEN a | quietBit(F)
             ELSE IF bAbs > infRep(F) THEN b | quietBit(F)
             ELSE IF aAbs = infRep(F) THEN IF a ^^ b = signBit(F) THEN qnanRep(F) ELSE a
             ELSE IF bAbs = infRep(F) THEN b
             ELSE IF aAbs = 0 THEN IF bAbs = 0 THEN a & b ELSE b
             ELSE a
        [] OTHER -> AddOrdered(F, IF bAbs > aAbs THEN b ELSE a, IF bAbs > aAbs THEN a ELSE b)

addsf3(a, b) == addXf3(Single, a, b)
adddf3(a, b) == addXf3(Double, a, b)
addtf3(a, b) == addXf3(Quad, a, b)
negXf2(F, a) == a ^^ signBit(F)
negsf2(a) == negXf2(Single, a)
negdf2(a) == negXf2(Double, a)
subsf3(a, b) == addsf3(a, b ^^ signBit(Single))
subdf3(a, b) == adddf3(a, b ^^ signBit(Double))
subtf3(a, b) == addtf3(a, b ^^ signBit(Quad))

-----------------------------------------------------------------------------
(* fp_mul_impl.inc *)

MulRound(F, p, sign) ==
  p.hi + sign + (IF p.lo > signBit(F) THEN 1 ELSE IF p.lo = signBit(F) THEN p.hi % 2 ELSE 0)
\* the product p with its first bit in the place of the implicit bit, and its exponent
MulNormalize(F, p, exp) ==
  IF p.hi & implicitBit(F) # 0 THEN [p |-> p, exp |-> exp + 1]
  ELSE [p |-> wideLeftShift(F, p, 1), exp |-> exp]
MulPack(F, n, sign) ==
  CASE n.exp >= maxExponent(F) -> infRep(F) + sign
    [] n.exp <= 0 /\ 1 - n.exp >= F.w -> sign
    [] OTHER ->
         MulRound(F, IF n.exp <= 0 THEN wideRightShiftWithSticky(F, n.p, 1 - n.exp)
                     ELSE HiLo((n.p.hi % implicitBit(F)) + n.exp * implicitBit(F), n.p.lo), sign)
MulUnpacked(F, x, y, sign) ==
  MulPack(F, MulNormalize(F, wideMultiply(F, x.sig, Shl(F.w, y.sig, exponentBits(F))),
                          x.exp + y.exp - exponentBias(F)), sign)
\* numbers other than 0, infinity and NaN
MulFinite(F, a, b, sign) == MulUnpacked(F, Unpack(F, a), Unpack(F, b), sign)
mulXf3(F, a, b) ==
  LET aAbs == Abs(F, a)
      bAbs == Abs(F, b)
      productSign == SignXor(F, a, b)
  IN  IF aAbs > infRep(F) THEN a | quietBit(F)
      ELSE IF bAbs > infRep(F) THEN b | quietBit(F)
      ELSE IF aAbs = infRep(F) THEN IF bAbs # 0 THEN aAbs + productSign ELSE qnanRep(F)
      ELSE IF bAbs = infRep(F) THEN IF aAbs # 0 THEN bAbs + productSign ELSE qnanRep(F)
      ELSE IF aAbs = 0 \/ bAbs = 0 THEN productSign
      ELSE MulFinite(F, a, b, productSign)
mulsf3(a, b) == mulXf3(Single, a, b)
muldf3(a, b) == mulXf3(Double, a, b)
multf3(a, b) == mulXf3(Quad, a, b)

-----------------------------------------------------------------------------
(* fp_div_impl.inc: three full iterations of Newton's method for Single, three *)
(* half-width iterations and an emulated full one for Double                   *)

\* the leading n bits of 0x7504F333, 3/4 + 1/sqrt(2) - 1 as a fraction
InitialEstimate(n) == 1963258675 \div 2^(32 - n)
HalfIteration(n, x, b) ==
  LET corr == Neg(n, (x * b) \div 2^n) IN Trunc(n, (x * corr) \div 2^(n - 1))
\* Mutant: the initial estimate is not refined.
ReciprocalEstimate(F, b_UQ1) == Sub(F.w, InitialEstimate(F.w), b_UQ1)
\* x_UQ0 for the significand bSig, after the iterations and before the decrement by 2
ReciprocalSingle(F, b_UQ1) ==
  LET it(x) == HalfIteration(F.w, x, b_UQ1)
  IN  it(it(it(Sub(F.w, InitialEstimate(F.w), b_UQ1))))
ReciprocalDouble(F, b_UQ1) ==
  LET HW == F.w \div 2
      b_UQ1_hw == b_UQ1 \div 2^HW
      it(x) == HalfIteration(HW, x, b_UQ1_hw)
      x_hw == Sub(HW, it(it(it(Sub(HW, InitialEstimate(HW), b_UQ1_hw)))), 1)
      blo == b_UQ1 % 2^HW
      corr == Neg(F.w, x_hw * b_UQ1_hw + (x_hw * blo) \div 2^HW - 1)
      lo_corr == corr % 2^HW
      hi_corr == corr \div 2^HW
  IN  Sub(F.w, Trunc(F.w, 2 * x_hw * hi_corr) + (x_hw * lo_corr) \div 2^(HW - 1), 3)
RECIPROCAL_PRECISION(F) == IF F.prec = "single" THEN 10 ELSE 220

\* the quotient q, at most one unit below the exact one, of the significands aSig and bSig
DivPack(F, q, aSig, bSig, exp, sign) ==
  LET Round(abs, residual) == abs + Flag(Add(F.w, residual, abs % 2) > bSig) + sign
      \* residualLo of a normal result; aSig << significandBits loses its high bits
      residual == Sub(F.w, Shl(F.w, aSig, F.s), Trunc(F.w, q * bSig))
      den == Shr(F.w, q, 1 - exp)
  IN  CASE exp >= maxExponent(F) -> infRep(F) + sign
        [] exp \in 1 .. maxExponent(F) - 1 ->
             Round((q % implicitBit(F)) + exp * implicitBit(F), Shl(F.w, residual, 1))
        [] exp <= 0 /\ F.s + exp < 0 -> sign
        [] exp <= 0 /\ F.s + exp >= 0 ->
             Round(den, Sub(F.w, Shl(F.w, aSig, F.s + exp), Trunc(F.w, 2 * den * bSig)))
DivNormalize(F, q, x, y, exp, sign) ==
  IF q < 2 * implicitBit(F) THEN DivPack(F, q, 2 * x.sig, y.sig, exp - 1, sign)
  ELSE DivPack(F, q \div 2, x.sig, y.sig, exp, sign)
\* x_UQ0
Reciprocal(F, b_UQ1) ==
  Sub(F.w, IF F.prec = "single" THEN ReciprocalSingle(F, b_UQ1) ELSE ReciprocalDouble(F, b_UQ1),
      2 + RECIPROCAL_PRECISION(F))
DivUnpacked(F, x, y, sign) ==
  DivNormalize(F, wideMultiply(F, Reciprocal(F, Shl(F.w, y.sig, F.w - F.s - 1)), 2 * x.sig).hi,
               x, y, x.exp - y.exp + exponentBias(F), sign)
DivFinite(F, a, b, sign) == DivUnpacked(F, Unpack(F, a), Unpack(F, b), sign)
divXf3(F, a, b) ==
  LET aAbs == Abs(F, a)
      bAbs == Abs(F, b)
      quotientSign == SignXor(F, a, b)
  IN  IF aAbs > infRep(F) THEN a | quietBit(F)
      ELSE IF bAbs > infRep(F) THEN b | quietBit(F)
      ELSE IF aAbs = infRep(F) THEN IF bAbs = infRep(F) THEN qnanRep(F) ELSE aAbs + quotientSign
      ELSE IF bAbs = infRep(F) THEN quotientSign
      ELSE IF aAbs = 0 THEN IF bAbs = 0 THEN qnanRep(F) ELSE quotientSign
      ELSE IF bAbs = 0 THEN infRep(F) + quotientSign
      ELSE DivFinite(F, a, b, quotientSign)
divsf3(a, b) == divXf3(Single, a, b)
divdf3(a, b) == divXf3(Double, a, b)

-----------------------------------------------------------------------------
(* fp_compare_impl.inc *)

LE_LESS == -1
LE_EQUAL == 0
LE_GREATER == 1
LE_UNORDERED == 1
GE_UNORDERED == -1
CompareOrdered(F, a, b) ==
  LET aInt == SVal(F.w, a)
      bInt == SVal(F.w, b)
  IN  IF aInt = bInt \/ (Abs(F, a) = 0 /\ Abs(F, b) = 0) THEN LE_EQUAL
      ELSE IF (aInt >= 0 \/ bInt >= 0) = (aInt < bInt) THEN LE_LESS ELSE LE_GREATER
unordXf2(F, a, b) == Flag(Abs(F, a) > infRep(F) \/ Abs(F, b) > infRep(F))
leXf2(F, a, b) == IF unordXf2(F, a, b) = 1 THEN LE_UNORDERED ELSE CompareOrdered(F, a, b)
geXf2(F, a, b) == IF unordXf2(F, a, b) = 1 THEN GE_UNORDERED ELSE CompareOrdered(F, a, b)
lesf2(a, b) == leXf2(Single, a, b)
gesf2(a, b) == geXf2(Single, a, b)
unordsf2(a, b) == unordXf2(Single, a, b)
ledf2(a, b) == leXf2(Double, a, b)
gedf2(a, b) == geXf2(Double, a, b)
unorddf2(a, b) == unordXf2(Double, a, b)
letf2(a, b) == leXf2(Quad, a, b)
getf2(a, b) == geXf2(Quad, a, b)
unordtf2(a, b) == unordXf2(Quad, a, b)
=============================================================================
