------------------------------ MODULE IntArith ------------------------------
(***************************************************************************)
(* The integer routines of compiler-rt_soft_float that have no loop:       *)
(* comparisons, arithmetic that aborts on overflow or reports it, and      *)
(* multiplication.  The parameter b is the number of bits of si_int (32 in *)
(* the build); di_int has 2b bits and ti_int 4b.  The routines of one      *)
(* family differ only in the type, so each is an instance of an operator   *)
(* whose name ends in X, with the width w.                                 *)
(***************************************************************************)
EXTENDS Words

\* compilerrt_abort: the process ends; a call that aborts returns Abort
compilerrt_abort == -1
Abort == compilerrt_abort

-----------------------------------------------------------------------------
(* Comparisons of double words *)

\* the high words decide as hx, hy; the low words are unsigned
CmpX(w, x, y, hx, hy) ==
  CASE hx < hy -> 0
    [] hx > hy -> 2
    [] OTHER -> IF Low(w, x) < Low(w, y) THEN 0 ELSE IF Low(w, x) > Low(w, y) THEN 2 ELSE 1
cmpdi2(b, x, y) == CmpX(b, x, y, SVal(b, High(b, x)), SVal(b, High(b, y)))
cmpti2(b, x, y) == CmpX(2 * b, x, y, SVal(2 * b, High(2 * b, x)), SVal(2 * b, High(2 * b, y)))
ucmpdi2(b, x, y) == CmpX(b, x, y, High(b, x), High(b, y))
ucmpti2(b, x, y) == CmpX(2 * b, x, y, High(2 * b, x), High(2 * b, y))

-----------------------------------------------------------------------------
(* Signed arithmetic that aborts on overflow, or reports it *)

Min(w) == 2^(w - 1)
Max(w) == Compl(w, Min(w))
Sign(w, a) == Sar(w, a, w - 1)
\* a ^ s, where s is 0 or all ones
Flip(w, s, a) == IF s = 0 THEN a ELSE Compl(w, a)
\* (a ^ s) - s: the negation of a where s is all ones
NegateIf(w, s, a) == Sub(w, Flip(w, s, a), s)

AbsvX(w, a) == IF a = Min(w) THEN Abort ELSE NegateIf(w, Sign(w, a), a)
absvsi2(b, a) == AbsvX(b, a)
absvdi2(b, a) == AbsvX(2 * b, a)
absvti2(b, a) == AbsvX(4 * b, a)

AddvX(w, a, c) ==
  LET s == Add(w, a, c)
  IN  IF IF SVal(w, c) >= 0 THEN SVal(w, s) < SVal(w, a) ELSE SVal(w, s) >= SVal(w, a)
      THEN Abort ELSE s
addvsi3(b, a, c) == AddvX(b, a, c)
addvdi3(b, a, c) == AddvX(2 * b, a, c)
addvti3(b, a, c) == AddvX(4 * b, a, c)

SubvX(w, a, c) ==
  LET s == Sub(w, a, c)
  IN  IF IF SVal(w, c) >= 0 THEN SVal(w, s) > SVal(w, a) ELSE SVal(w, s) <= SVal(w, a)
      THEN Abort ELSE s
subvsi3(b, a, c) == SubvX(b, a, c)
subvdi3(b, a, c) == SubvX(2 * b, a, c)
subvti3(b, a, c) == SubvX(4 * b, a, c)

NegvX(w, a) == IF a = Min(w) THEN Abort ELSE Neg(w, a)
negvsi2(b, a) == NegvX(b, a)
negvdi2(b, a) == NegvX(2 * b, a)
negvti2(b, a) == NegvX(4 * b, a)
negdi2(b, a) == Neg(2 * b, a)
negti2(b, a) == Neg(4 * b, a)

\* C's division of signed words, towards zero
DivTowardsZero(x, y) ==
  LET q == (IF x < 0 THEN -x ELSE x) \div (IF y < 0 THEN -y ELSE y)
  IN  IF (x < 0) = (y < 0) THEN q ELSE -q
\* Mutant: a product of MIN itself counts as too large.
MulAtLimit(w, a, c) ==
  LET abs_a == SVal(w, NegateIf(w, Sign(w, a), a))
      abs_c == SVal(w, NegateIf(w, Sign(w, c), c))
  IN  /\ ~(abs_a < 2 \/ abs_c < 2)
      /\ abs_a > SVal(w, Max(w)) \div abs_c
\* the test both multiplications make once neither operand is the minimum
MulTooLarge(w, a, c) ==
  LET abs_a == SVal(w, NegateIf(w, Sign(w, a), a))
      abs_c == SVal(w, NegateIf(w, Sign(w, c), c))
  IN  /\ ~(abs_a < 2 \/ abs_c < 2)
      /\ IF Sign(w, a) = Sign(w, c)
         THEN abs_a > SVal(w, Max(w)) \div abs_c
         ELSE abs_a > DivTowardsZero(SVal(w, Min(w)), -abs_c)

muloXi4(w, a, c) ==
  [value |-> Mul(w, a, c),
   overflow |-> IF a = Min(w) THEN c \notin {0, 1}
                ELSE IF c = Min(w) THEN a \notin {0, 1}
                ELSE MulTooLarge(w, a, c)]
mulosi4(b, a, c) == muloXi4(b, a, c)
mulodi4(b, a, c) == muloXi4(2 * b, a, c)
muloti4(b, a, c) == muloXi4(4 * b, a, c)

mulvXi3(w, a, c) ==
  IF a = Min(w) THEN IF c \in {0, 1} THEN Mul(w, a, c) ELSE Abort
  ELSE IF c = Min(w) THEN IF a \in {0, 1} THEN Mul(w, a, c) ELSE Abort
  ELSE IF MulTooLarge(w, a, c) THEN Abort ELSE Mul(w, a, c)
mulvsi3(b, a, c) == mulvXi3(b, a, c)
mulvdi3(b, a, c) == mulvXi3(2 * b, a, c)
mulvti3(b, a, c) == mulvXi3(4 * b, a, c)

\* the product of two words as a double word, from the products of their halves
MulWide(w, a, c) ==
  LET h == w \div 2
      low1 == Low(h, a) * Low(h, c)
      t1 == Trunc(w, low1 \div 2^h + High(h, a) * Low(h, c))
      low2 == Trunc(w, Low(h, low1) + Low(h, t1) * 2^h)
      t2 == Trunc(w, low2 \div 2^h + High(h, c) * Low(h, a))
      low3 == Trunc(w, Low(h, low2) + Low(h, t2) * 2^h)
      high == Trunc(w, t1 \div 2^h + t2 \div 2^h + High(h, a) * High(h, c))
  IN  All(w, high, low3)
muldsi3(b, a, c) == MulWide(b, a, c)
mulddi3(b, a, c) == MulWide(2 * b, a, c)
MulX(w, x, y, low) ==
  All(w, Trunc(w, High(w, low) + Mul(w, High(w, x), Low(w, y)) + Mul(w, Low(w, x), High(w, y))),
      Low(w, low))
muldi3(b, x, y) == MulX(b, x, y, muldsi3(b, Low(b, x), Low(b, y)))
multi3(b, x, y) == MulX(2 * b, x, y, mulddi3(b, Low(2 * b, x), Low(2 * b, y)))
=============================================================================
