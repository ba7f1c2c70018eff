------------------------------- MODULE Words -------------------------------
(***************************************************************************)
(* Machine integers of compiler-rt_soft_float.  A value of a C integer     *)
(* type of w bits is its bit pattern, a number in 0 .. 2^w - 1, whether    *)
(* the type is signed or not; SVal reads the pattern as two's complement.  *)
(* The shift operators take the count modulo the width, which is what the  *)
(* shift instructions of the build do with a count C leaves undefined.     *)
(***************************************************************************)
EXTENDS Integers

Trunc(w, x) == x % 2^w
SVal(w, x) == IF x >= 2^(w - 1) THEN x - 2^w ELSE x
Flag(c) == IF c THEN 1 ELSE 0
\* -(c) for a truth value c, as a word
Mask(w, c) == IF c THEN 2^w - 1 ELSE 0

Shl(w, x, n) == LET k == n % w IN (x % 2^(w - k)) * 2^k
Shr(w, x, n) == x \div 2^(n % w)
Sar(w, x, n) == Trunc(w, SVal(w, x) \div 2^(n % w))
Compl(w, x) == 2^w - 1 - x
Neg(w, x) == Trunc(w, -x)
Add(w, x, y) == Trunc(w, x + y)
Sub(w, x, y) == Trunc(w, x - y)
\* the product is built from two halves so that it never leaves TLC's integers
Mul(w, x, y) ==
  LET h == w \div 2
  IN  Trunc(w, x * (y % 2^h) + 2^h * ((x * (y \div 2^h)) % 2^(w - h)))

\* __builtin_clz and __builtin_ctz; both are undefined for 0, here w
Clz(w, x) == IF x = 0 THEN w ELSE CHOOSE n \in 0 .. w - 1 : 2^(w - 1 - n) <= x /\ x < 2^(w - n)
Ctz(w, x) == IF x = 0 THEN w ELSE CHOOSE n \in 0 .. w - 1 : x % 2^n = 0 /\ x % 2^(n + 1) # 0

\* dwords, udwords, twords, utwords: an integer of 2w bits and its halves
High(w, x) == x \div 2^w
Low(w, x) == x % 2^w
All(w, high, low) == high * 2^w + low

\* the word of w bits in which g zeros and g ones alternate: 0x5555, 0x3333, 0x0F0F
Alternating(w, g) == ((2^(w - 2 * g) - 1) \div (2^g + 1)) * 2^(2 * g) + (2^g - 1)
=============================================================================
