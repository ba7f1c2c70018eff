------------------------------- MODULE IntLib -------------------------------
(***************************************************************************)
(* The integer routines of compiler-rt_soft_float that work on the bits of *)
(* a word: counts, parity, byte swaps and shifts of a double word.  The    *)
(* widths and names are as in IntArith.                                    *)
(***************************************************************************)
EXTENDS IntArith, Bitwise, Sequences

-----------------------------------------------------------------------------
(* Bits of a word *)

\* one halving step after another, down to two bits
RECURSIVE ClzSteps(_, _, _), CtzSteps(_, _, _)
ClzSteps(h, x, r) ==
  IF h = 1 THEN r + (IF x & 2 = 0 THEN 2 - x ELSE 0)
  ELSE LET t == IF x \div 2^h = 0 THEN h ELSE 0
       IN  ClzSteps(h \div 2, x \div 2^(h - t), r + t)
CtzSteps(h, x, r) ==
  IF h = 1 THEN LET y == x % 4 IN r + (IF y % 2 = 0 THEN 2 - y \div 2 ELSE 0)
  ELSE LET t == IF x % 2^h = 0 THEN h ELSE 0
       IN  CtzSteps(h \div 2, x \div 2^t, r + t)
clzsi2(b, a) == ClzSteps(b \div 2, a, 0)
ctzsi2(b, a) == CtzSteps(b \div 2, a, 0)

\* the double-width counts, from the half that decides them
ClzX(w, x) == LET f == High(w, x) = 0
              IN  Clz(w, IF f THEN Low(w, x) ELSE High(w, x)) + (IF f THEN w ELSE 0)
CtzX(w, x) == LET f == Low(w, x) = 0
              IN  Ctz(w, IF f THEN High(w, x) ELSE Low(w, x)) + (IF f THEN w ELSE 0)
FfsX(w, x) ==
  IF Low(w, x) = 0
  THEN IF High(w, x) = 0 THEN 0 ELSE Ctz(w, High(w, x)) + (1 + w)
  ELSE Ctz(w, Low(w, x)) + 1
clzdi2(b, a) == ClzX(b, a)
clzti2(b, a) == ClzX(2 * b, a)
ctzdi2(b, a) == CtzX(b, a)
ctzti2(b, a) == CtzX(2 * b, a)
ffssi2(b, a) == IF a = 0 THEN 0 ELSE Ctz(b, a) + 1
ffsdi2(b, a) == FfsX(b, a)
ffsti2(b, a) == FfsX(2 * b, a)

\* counts of the bits of every pair, nibble and byte; no step leaves the word
CountsPerByte(w, a) ==
  LET x1 == a - ((a \div 2) & Alternating(w, 1))
      x2 == ((x1 \div 4) & Alternating(w, 2)) + (x1 & Alternating(w, 2))
  IN  (x2 + x2 \div 16) & Alternating(w, 4)
\* the sums over the bytes: every halving adds the upper half to the lower
RECURSIVE SumBytes(_, _)
SumBytes(w, x) == IF w = 8 THEN x ELSE SumBytes(w \div 2, Trunc(w, x + x \div 2^(w \div 2)))
popcountsi2(b, a) == SumBytes(b, CountsPerByte(b, a)) & (2 * b - 1)
popcountdi2(b, a) == LET x2 == CountsPerByte(2 * b, a)
                     IN  SumBytes(b, Trunc(b, x2 + x2 \div 2^b)) & (4 * b - 1)
popcountti2(b, a) == LET x3 == CountsPerByte(4 * b, a)
                         x2 == Trunc(2 * b, x3 + x3 \div 2^(2 * b))
                     IN  SumBytes(b, Trunc(b, x2 + x2 \div 2^b)) & (8 * b - 1)

\* the halves are folded onto each other; 0x6996 holds the parity of a nibble
RECURSIVE Nibble(_, _)
Nibble(w, x) == IF w = 4 THEN x % 16 ELSE Nibble(w \div 2, x ^^ (x \div 2^(w \div 2)))
ParityOfNibble(x) == (27030 \div 2^x) % 2
paritysi2(b, a) == ParityOfNibble(Nibble(b, a))
paritydi2(b, a) == ParityOfNibble(Nibble(b, High(b, a) ^^ Low(b, a)))
parityti2(b, a) == LET x2 == High(2 * b, a) ^^ Low(2 * b, a)
                   IN  ParityOfNibble(Nibble(b, High(b, x2) ^^ Low(b, x2)))

\* byte i of n bytes of k bits moves to place n - 1 - i
RECURSIVE Swap(_, _, _)
Swap(k, n, x) == IF n = 0 THEN 0 ELSE (x % 2^k) * 2^(k * (n - 1)) + Swap(k, n - 1, x \div 2^k)
bswapsi2(b, u) == Swap(b \div 4, 4, u)
bswapdi2(b, u) == Swap(b \div 4, 8, u)

-----------------------------------------------------------------------------
(* Shifts of a double word by 0 .. 2w - 1 *)

AshlX(w, a, n) ==
  IF n & w # 0 THEN All(w, Shl(w, Low(w, a), n - w), 0)
  ELSE IF n = 0 THEN a
  ELSE All(w, Shl(w, High(w, a), n) | Shr(w, Low(w, a), w - n), Shl(w, Low(w, a), n))
\* Mutant: a shift by 0 is not told apart, and moves the high word by the width.
AshrXOfZero(w, a, n) ==
  IF n & w # 0 THEN All(w, Sar(w, High(w, a), w - 1), Sar(w, High(w, a), n - w))
  ELSE All(w, Sar(w, High(w, a), n), Shl(w, High(w, a), w - n) | Shr(w, Low(w, a), n))
AshrX(w, a, n) ==
  IF n & w # 0 THEN All(w, Sar(w, High(w, a), w - 1), Sar(w, High(w, a), n - w))
  ELSE IF n = 0 THEN a
  ELSE All(w, Sar(w, High(w, a), n), Shl(w, High(w, a), w - n) | Shr(w, Low(w, a), n))
LshrX(w, a, n) ==
  IF n & w # 0 THEN All(w, 0, Shr(w, High(w, a), n - w))
  ELSE IF n = 0 THEN a
  ELSE All(w, Shr(w, High(w, a), n), Shl(w, High(w, a), w - n) | Shr(w, Low(w, a), n))
ashldi3(b, a, n) == AshlX(b, a, n)
ashlti3(b, a, n) == AshlX(2 * b, a, n)
ashrdi3(b, a, n) == AshrX(b, a, n)
ashrti3(b, a, n) == AshrX(2 * b, a, n)
lshrdi3(b, a, n) == LshrX(b, a, n)
lshrti3(b, a, n) == LshrX(2 * b, a, n)
=============================================================================
