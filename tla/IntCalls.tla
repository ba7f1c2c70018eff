------------------------------ MODULE IntCalls ------------------------------
(***************************************************************************)
(* The program of ArithCalls, with the calls of the routines for division  *)
(* and for the bits of a word, and what these return.                      *)
(***************************************************************************)
EXTENDS ArithCalls, IntDiv, FiniteSets

Bits(v) == {i \in 0 .. (IF w < 31 THEN w - 1 ELSE 30) : (v \div 2^i) % 2 = 1}

(***************************************************************************)
(* Division: every routine of a type gives the same quotient and           *)
(* remainder, for unsigned operands those of the division of naturals,     *)
(* for signed ones those of C, with MIN / -1 = MIN and remainder 0 where C *)
(* leaves the result undefined (int_div_impl.inc, udivmoddi4.c, ...).      *)
(***************************************************************************)
UnsignedOK(qr, q, r) == qr = QuoRem(x \div y, x % y) /\ q = qr.quo /\ r = qr.rem
SignedOK(qr, q, r) ==
  LET quo == DivTowardsZero(Value(x), Value(y))
  IN  /\ qr = QuoRem(Trunc(w, quo), Trunc(w, Value(x) - quo * Value(y)))
      /\ q = qr.quo /\ r = qr.rem
QuotientsExact ==
  call.ty \in {"si", "di", "ti"} /\ y # 0 =>
    /\ is("si") => /\ UnsignedOK(udivmodsi4(b, x, y), udivsi3(b, x, y), umodsi3(b, x, y))
                   /\ SignedOK(divmodsi4(b, x, y), divsi3(b, x, y), modsi3(b, x, y))
    /\ is("di") => /\ UnsignedOK(udivmoddi4(b, x, y), udivdi3(b, x, y), umoddi3(b, x, y))
                   /\ SignedOK(divmoddi4(b, x, y), divdi3(b, x, y), moddi3(b, x, y))
    /\ is("ti") => /\ UnsignedOK(udivmodti4(b, x, y), udivti3(b, x, y), umodti3(b, x, y))
                   /\ SignedOK(divmodti4(b, x, y), divti3(b, x, y), modti3(b, x, y))

(***************************************************************************)
(* The portable division of two di_int words by one agrees with the divq   *)
(* instruction wherever that does not fault (udivmodti4.c).                *)
(***************************************************************************)
DigitsAgree ==
  is("ti") =>
    LET v == Low(2 * b, y)
        u1 == High(2 * b, x)
    IN  u1 < v =>
          udiv128by64to64default(b, u1, Low(2 * b, x), v) = udiv128by64to64(b, u1, Low(2 * b, x), v)

(***************************************************************************)
(* Whatever the lengths of the operands, and so whichever way the division *)
(* is done, quotient and remainder are exact (int_div_impl.inc,            *)
(* udivmoddi4.c, udivmodti4.c).                                            *)
(***************************************************************************)
DivisionExact == QuotientsExact /\ DigitsAgree

(***************************************************************************)
(* A shift of a double word by any amount below its width moves each bit   *)
(* by that amount and fills with zeros or copies of the sign (ashldi3.c,   *)
(* ashrdi3.c, lshrdi3.c and their ti_int versions).                        *)
(***************************************************************************)
ShiftsExact ==
  LET n == y % w
      Check(shl, sar, shr) ==
        /\ Bits(shl) = {i \in 0 .. w - 1 : i >= n /\ i - n \in Bits(x)}
        /\ Bits(shr) = {i \in 0 .. w - 1 : i + n \in Bits(x)}
        /\ Bits(sar) = {i \in 0 .. w - 1 : IF i + n < w THEN i + n \in Bits(x) ELSE w - 1 \in Bits(x)}
  IN  /\ is("di") => Check(ashldi3(b, x, n), ashrdi3(b, x, n), lshrdi3(b, x, n))
      /\ is("ti") => Check(ashlti3(b, x, n), ashrti3(b, x, n), lshrti3(b, x, n))

(***************************************************************************)
(* The bit counts agree with the set of bits of the operand (the clz, ctz, *)
(* ffs, popcount and parity routines), and a byte swap reverses the bytes  *)
(* (bswapsi2.c, bswapdi2.c).  A population count needs bytes: b >= 8.      *)
(***************************************************************************)
BitCountsExact ==
  LET S == Bits(x)
      Lowest == CHOOSE i \in S : \A j \in S : i <= j
      Highest == CHOOSE i \in S : \A j \in S : j <= i
      Scan(clz, ctz) == S # {} => clz = w - 1 - Highest /\ ctz = Lowest
      Ffs(ffs) == ffs = IF S = {} THEN 0 ELSE Lowest + 1
      Parity(p) == p = Cardinality(S) % 2
      Reversed(z, n) == LET k == w \div n
                        IN  \A i \in 0 .. n - 1 :
                              (z \div 2^(k * i)) % 2^k = (x \div 2^(k * (n - 1 - i))) % 2^k
  IN  /\ is("si") => /\ Scan(clzsi2(b, x), ctzsi2(b, x)) /\ Ffs(ffssi2(b, x))
                     /\ b >= 4 => Parity(paritysi2(b, x)) /\ Reversed(bswapsi2(b, x), 4)
                     /\ b >= 8 => popcountsi2(b, x) = Cardinality(S)
      /\ is("di") => /\ Scan(clzdi2(b, x), ctzdi2(b, x)) /\ Ffs(ffsdi2(b, x))
                     /\ b >= 4 => Parity(paritydi2(b, x)) /\ Reversed(bswapdi2(b, x), 8)
                     /\ b >= 8 => popcountdi2(b, x) = Cardinality(S)
      /\ is("ti") => /\ Scan(clzti2(b, x), ctzti2(b, x)) /\ Ffs(ffsti2(b, x))
                     /\ b >= 4 => Parity(parityti2(b, x))
      /\ call.ty = "ti" /\ b >= 8 => popcountti2(b, x) = Cardinality(S)

(***************************************************************************)
(* The routines that put a double word together from two words, a carry or *)
(* a shift between them included, give the number that exact arithmetic    *)
(* gives (muldi3.c, cmpdi2.c, ashrdi3.c, ffsdi2.c and their like).         *)
(***************************************************************************)
WordsExact == WrapsAndOrders /\ ShiftsExact /\ BitCountsExact
=============================================================================
