------------------------------ MODULE Complex ------------------------------
(***************************************************************************)
(* Powers, scaling and complex arithmetic of compiler-rt_soft_float, over  *)
(* the floating-point operations of the format F.  The build's own         *)
(* arithmetic on float, double and long double is the processor's, which   *)
(* rounds as the routines of FpLib do.  A complex number is [re, im].      *)
(***************************************************************************)
EXTENDS FpConv

\* long double arithmetic is the processor's too: correctly rounded, whatever its format
LongDouble == Double

add(F, a, b) == addXf3(F, a, b)
sub(F, a, b) == addXf3(F, a, negXf2(F, b))
mul(F, a, b) == mulXf3(F, a, b)
div(F, a, b) == divXf3(F, a, b)

crt_isnan(F, x) == Abs(F, x) > infRep(F)
crt_isinf(F, x) == Abs(F, x) = infRep(F)
crt_isfinite(F, x) == Abs(F, x) < infRep(F)
crt_fabs(F, x) == Abs(F, x)
crt_copysign(F, x, y) == Abs(F, x) + SignOf(F, y)

-----------------------------------------------------------------------------
(* a ^ b by squaring *)

\* C's b / 2 and b & 1 of a signed b
Halved(b) == IF b < 0 THEN -((-b) \div 2) ELSE b \div 2
RECURSIVE PowLoop(_, _, _, _)
PowLoop(F, a, b, r) ==
  LET r1 == IF b % 2 = 1 THEN mul(F, r, a) ELSE r
  IN  IF Halved(b) = 0 THEN r1 ELSE PowLoop(F, mul(F, a, a), Halved(b), r1)
PowiX(F, a, b) ==
  LET r == PowLoop(F, a, b, oneRep(F)) IN IF b < 0 THEN div(F, oneRep(F), r) ELSE r
powisf2(a, b) == PowiX(Single, a, b)
powidf2(a, b) == PowiX(Double, a, b)
powixf2(a, b) == PowiX(LongDouble, a, b)

-----------------------------------------------------------------------------
(* fp_lib.h: logb, scalbn, fmax *)

\* the exponent of a number as an integer, which every format of the build holds
\* exactly, or an infinity or a NaN
Finite(n) == [finite |-> TRUE, n |-> n]
Rep(x) == [finite |-> FALSE, n |-> x]
logbX(F, x) ==
  LET exp == Exponent(F, x)
      sub1 == normalize(F, Significand(F, x))
  IN  CASE exp = maxExponent(F) ->
             IF SignOf(F, x) = 0 \/ crt_isnan(F, x) THEN Rep(x) ELSE Rep(negXf2(F, x))
        [] Abs(F, x) = 0 -> Rep(infRep(F) + signBit(F))
        [] exp \in 1 .. maxExponent(F) - 1 -> Finite(exp - exponentBias(F))
        [] exp = 0 /\ Abs(F, x) # 0 ->
             Finite(Exponent(F, sub1.sig) - exponentBias(F) - (1 - sub1.exp))

\* Mutant: a result below the normal numbers is flushed to zero.
ScalbnFlush(F, sign, u, exp) ==
  IF exp >= maxExponent(F) THEN sign + infRep(F)
  ELSE IF exp <= 0 THEN sign
  ELSE sign + exp * implicitBit(F) + (u.sig % implicitBit(F))
\* u is the unpacked number, exp its new exponent; a result out of the range of the
\* normal numbers is left to a multiplication
ScalbnPack(F, sign, u, exp) ==
  LET down == exp + exponentBias(F) - 1
  IN  IF exp >= maxExponent(F)
      THEN mul(F, sign + (maxExponent(F) - 1) * implicitBit(F), Pow2(F, 1))
      ELSE IF exp <= 0
      THEN mul(F, sign + u.sig, (IF down < 1 THEN 1 ELSE down) * implicitBit(F))
      ELSE sign + exp * implicitBit(F) + (u.sig % implicitBit(F))
\* an overflow of exp + y saturates in the code, which the exact sum stands for
ScalbnUnpacked(F, sign, u, y) == ScalbnPack(F, sign, u, u.exp + y)
scalbnX(F, x, y) ==
  IF Abs(F, x) = 0 \/ Exponent(F, x) = maxExponent(F) THEN x
  ELSE ScalbnUnpacked(F, SignOf(F, x), Unpack(F, x), y)

fmaxX(F, x, y) == IF crt_isnan(F, x) \/ leXf2(F, x, y) = LE_LESS THEN y ELSE x

logbf(x) == logbX(Single, x)
scalbnf(x, y) == scalbnX(Single, x, y)
fmaxf(x, y) == fmaxX(Single, x, y)
logb(x) == logbX(Double, x)
scalbn(x, y) == scalbnX(Double, x, y)
fmax(x, y) == fmaxX(Double, x, y)
logbl(x) == logbX(LongDouble, x)
scalbnl(x, y) == scalbnX(LongDouble, x, y)
fmaxl(x, y) == fmaxX(LongDouble, x, y)

-----------------------------------------------------------------------------
(* The product and the quotient of complex numbers *)

Cplx(re, im) == [re |-> re, im |-> im]
Scaled(F, k, z) == Cplx(mul(F, k, z.re), mul(F, k, z.im))
BothNaN(F, z) == crt_isnan(F, z.re) /\ crt_isnan(F, z.im)
IsInf(F, z) == crt_isinf(F, z.re) \/ crt_isinf(F, z.im)
IsFinite(F, z) == crt_isfinite(F, z.re) /\ crt_isfinite(F, z.im)
\* copysign(isinf(x) ? 1 : 0, x), and copysign(0, x) for a NaN
BoxInf(F, x) == crt_copysign(F, IF crt_isinf(F, x) THEN oneRep(F) ELSE 0, x)
ZeroNaN(F, x) == IF crt_isnan(F, x) THEN crt_copysign(F, 0, x) ELSE x
BoxInfs(F, z) == Cplx(BoxInf(F, z.re), BoxInf(F, z.im))
ZeroNaNs(F, z) == Cplx(ZeroNaN(F, z.re), ZeroNaN(F, z.im))

\* ac - bd and ad + bc
Product(F, z, w) ==
  Cplx(sub(F, mul(F, z.re, w.re), mul(F, z.im, w.im)),
       add(F, mul(F, z.re, w.im), mul(F, z.im, w.re)))
\* an infinite first factor is boxed, and then so is an infinite second one
BoxFirst(F, z, w) == IF IsInf(F, z) THEN <<BoxInfs(F, z), ZeroNaNs(F, w)>> ELSE <<z, w>>
BoxSecond(F, f) ==
  IF IsInf(F, f[2]) THEN <<ZeroNaNs(F, f[1]), BoxInfs(F, f[2])>> ELSE f
Recalc(F, f) == Scaled(F, infRep(F), Product(F, f[1], f[2]))
\* infinities from overflow, the NaNs of the factors made zeros
Overflowed(F, z, w) ==
  \E p \in {<<z.re, w.re>>, <<z.im, w.im>>, <<z.re, w.im>>, <<z.im, w.re>>} :
    crt_isinf(F, mul(F, p[1], p[2]))
MulRecover(F, z, w, product) ==
  IF IsInf(F, z) \/ IsInf(F, w) THEN Recalc(F, BoxSecond(F, BoxFirst(F, z, w)))
  ELSE IF Overflowed(F, z, w) THEN Recalc(F, <<ZeroNaNs(F, z), ZeroNaNs(F, w)>>)
  ELSE product
MulChecked(F, z, w, product) ==
  IF BothNaN(F, product) THEN MulRecover(F, z, w, product) ELSE product
MulComplex(F, z, w) == MulChecked(F, z, w, Product(F, z, w))
mulsc3(a, b, c, d) == MulComplex(Single, Cplx(a, b), Cplx(c, d))
muldc3(a, b, c, d) == MulComplex(Double, Cplx(a, b), Cplx(c, d))
mulxc3(a, b, c, d) == MulComplex(LongDouble, Cplx(a, b), Cplx(c, d))
multc3(a, b, c, d) == MulComplex(LongDouble, Cplx(a, b), Cplx(c, d))

\* ac + bd and bc - ad
Conjugate(F, z, w) ==
  Cplx(add(F, mul(F, z.re, w.re), mul(F, z.im, w.im)),
       sub(F, mul(F, z.im, w.re), mul(F, z.re, w.im)))
Denom(F, w) == add(F, mul(F, w.re, w.re), mul(F, w.im, w.im))
Over(F, z, denom) == Cplx(div(F, z.re, denom), div(F, z.im, denom))
ScalbnC(F, z, n) == Cplx(scalbnX(F, z.re, n), scalbnX(F, z.im, n))
DivRecover(F, z, w, logbw, denom, quotient) ==
  IF Abs(F, denom) = 0 /\ (~crt_isnan(F, z.re) \/ ~crt_isnan(F, z.im))
  THEN Scaled(F, crt_copysign(F, infRep(F), w.re), z)
  ELSE IF IsInf(F, z) /\ IsFinite(F, w)
  THEN Scaled(F, infRep(F), Conjugate(F, BoxInfs(F, z), w))
  ELSE IF logbw = Rep(infRep(F)) /\ IsFinite(F, z)
  THEN Scaled(F, 0, Conjugate(F, z, BoxInfs(F, w)))
  ELSE quotient
DivChecked(F, z, w, logbw, denom, quotient) ==
  IF BothNaN(F, quotient) THEN DivRecover(F, z, w, logbw, denom, quotient) ELSE quotient
DivBy(F, z, w, logbw, denom, ilogbw) ==
  DivChecked(F, z, w, logbw, denom, ScalbnC(F, Over(F, Conjugate(F, z, w), denom), -ilogbw))
DivScaled(F, z, w, logbw, ilogbw) == DivBy(F, z, w, logbw, Denom(F, w), ilogbw)
DivLogb(F, z, w, logbw) ==
  IF logbw.finite THEN DivScaled(F, z, ScalbnC(F, w, -logbw.n), logbw, logbw.n)
  ELSE DivScaled(F, z, w, logbw, 0)
DivComplex(F, z, w) ==
  DivLogb(F, z, w, logbX(F, fmaxX(F, crt_fabs(F, w.re), crt_fabs(F, w.im))))
divsc3(a, b, c, d) == DivComplex(Single, Cplx(a, b), Cplx(c, d))
divdc3(a, b, c, d) == DivComplex(Double, Cplx(a, b), Cplx(c, d))
divxc3(a, b, c, d) == DivComplex(LongDouble, Cplx(a, b), Cplx(c, d))
divtc3(a, b, c, d) == DivComplex(LongDouble, Cplx(a, b), Cplx(c, d))
=============================================================================
