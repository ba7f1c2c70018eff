------------------------- MODULE PersonalityProofs -------------------------
(***************************************************************************)
(* The theorems about gcc_personality_v0.c, for all functions, call-site   *)
(* tables, encodings and stacks of frames within the assumptions of        *)
(* Personality, at the widths of x86-64 and of smaller machines.           *)
(*                                                                         *)
(* First the readers undo what the compiler wrote: ULEBRead for uleb128,   *)
(* PointerRead for every format of a call site.  Hence the header is read  *)
(* up to the first entry (HeaderRead) and an iteration of the loop reads   *)
(* one entry and ends at the next (EntryRead).  UnwindInv relates the      *)
(* position, the instruction pointer and the cleanups that ran to the      *)
(* table, and has one lemma per action.                                    *)
(***************************************************************************)
EXTENDS Personality, WellFoundedInduction, TLAPS

\* the powers of two that the widths give
LEMMA Powers ==
  /\ 2^PtrBits \in Nat /\ 2^PtrBits >= 2^16 /\ 2^PtrBits >= 2^IntBits
  /\ 2^IntBits \in Nat /\ 2^(IntBits - 1) \in Nat /\ 2^IntBits = 2 * 2^(IntBits - 1)
  /\ \/ IntBits = 24 /\ 2^(IntBits - 1) = 2^23
     \/ IntBits = 32 /\ 2^(IntBits - 1) = 2^31
<1>0. 2^24 = 2 * 2^23 /\ 2^32 = 2 * 2^31 /\ 2^24 >= 2^16 /\ 2^32 >= 2^16 /\ 2^16 \in Nat
  BY SMT
<1>1. CASE IntBits = 24
  <2>1. IntBits - 1 = 23
    BY <1>1, SMT
  <2> QED
    BY <2>1, <1>0, <1>1, WidthsAssumption, SMT
<1>2. CASE IntBits = 32
  <2>1. IntBits - 1 = 31
    BY <1>2, SMT
  <2> QED
    BY <2>1, <1>0, <1>2, WidthsAssumption, SMT
<1> QED
  BY <1>1, <1>2, WidthsAssumption, SMT

LEMMA Shifts ==
  2^0 = 1 /\ 2^14 = 128 * 2^7 /\ 2^21 = 128 * 2^14 /\ 2^28 = 128 * 2^21 /\ 2^35 = 128 * 2^28
  /\ 2^7 = 128 * 2^0
  BY SMT

LEMMA ValueFacts ==
  ASSUME NEW n \in Value
  PROVE  /\ n \in Nat /\ n < 2^(IntBits - 1) /\ n < 2^31
         /\ IntBits = 24 => n < 2^23
<1> DEFINE h == 2^(IntBits - 1)
<1>1. h \in Nat /\ ((IntBits = 24 /\ h = 2^23) \/ (IntBits = 32 /\ h = 2^31))
  BY Powers
<1>2. n \in 0 .. h - 1
  BY DEF Value
<1> HIDE DEF h
<1>3. n \in Nat /\ n < h /\ n < 2^31 /\ (IntBits = 24 => n < 2^23)
  BY <1>1, <1>2, SMT
<1> QED
  BY <1>3 DEF h

LEMMA ModSmall ==
  ASSUME NEW m \in Nat, NEW x \in 0 .. m - 1
  PROVE  x % m = x
  BY SMT

LEMMA TruncValue ==
  ASSUME NEW x \in Value
  PROVE  Trunc(PtrBits, x) = x
<1> DEFINE m == 2^PtrBits
           h == 2^(IntBits - 1)
           w == 2^IntBits
<1>1. m \in Nat /\ m >= w /\ w = 2 * h /\ h \in Nat
  BY Powers
<1>2. x \in Nat /\ x < h
  BY ValueFacts
<1>3. x % m = x
  <2> HIDE DEF m, h, w
  <2>1. x \in 0 .. m - 1
    BY <1>1, <1>2, SMT
  <2> QED BY <1>1, <2>1, ModSmall
<1> QED
  BY <1>3 DEF Trunc

\* a group of 7 bits of a value, shifted as an int: no bit is lost and none becomes a sign
LEMMA GroupShift ==
  ASSUME NEW j \in 0 .. 4, 7 * j < IntBits, NEW x \in 0 .. 127, x * 2^(7 * j) < 2^(IntBits - 1)
  PROVE  Shl(IntBits, x, 7 * j) = x * 2^(7 * j)
<1> DEFINE k == 7 * j
           c == 2^(IntBits - k)
           m == 2^k
<1>1. k \in Nat /\ k % IntBits = k
  BY WidthsAssumption, SMT
<1>2. Shl(IntBits, x, k) = (x % c) * m
  BY <1>1, Zenon DEF Shl
<1>3. c \in Nat /\ x < c
  <2>0. 24 # 32
    OBVIOUS
  <2>1. CASE IntBits = 24
    <3>1. CASE j = 0
      <4>1. IntBits - k = 24 /\ k = 0
        BY <2>1, <3>1
      <4>2. c = 2^24
        BY <4>1, Zenon
      <4>3. \A y \in 0 .. 127 : 2^24 \in Nat /\ y < 2^24
        BY SMT
      <4> QED BY <4>2, <4>3, Zenon
    <3>2. CASE j = 1
      <4>1. IntBits - k = 17 /\ k = 7
        BY <2>1, <3>2
      <4>2. c = 2^17
        BY <4>1, Zenon
      <4>3. \A y \in 0 .. 127 : 2^17 \in Nat /\ y < 2^17
        BY SMT
      <4> QED BY <4>2, <4>3, Zenon
    <3>3. CASE j = 2
      <4>1. IntBits - k = 10 /\ k = 14
        BY <2>1, <3>3
      <4>2. c = 2^10
        BY <4>1, Zenon
      <4>3. \A y \in 0 .. 127 : 2^10 \in Nat /\ y < 2^10
        BY SMT
      <4> QED BY <4>2, <4>3, Zenon
    <3>4. CASE j = 3
      <4>1. IntBits - k = 3 /\ k = 21
        BY <2>1, <3>4
      <4>2. c = 2^3
        BY <4>1, Zenon
      <4>3. x * 2^21 < 2^23
        BY <2>1, <2>0, <4>1, Powers, Zenon
      <4>4. \A y \in 0 .. 127 : y * 2^21 < 2^23 => 2^3 \in Nat /\ y < 2^3
        BY SMT
      <4> QED BY <4>2, <4>3, <4>4, Zenon
    <3> QED BY <2>1, <3>1, <3>2, <3>3, <3>4, SMT
  <2>2. CASE IntBits = 32
    <3>1. CASE j = 0
      <4>1. IntBits - k = 32 /\ k = 0
        BY <2>2, <3>1
      <4>2. c = 2^32
        BY <4>1, Zenon
      <4>3. \A y \in 0 .. 127 : 2^32 \in Nat /\ y < 2^32
        BY SMT
      <4> QED BY <4>2, <4>3, Zenon
    <3>2. CASE j = 1
      <4>1. IntBits - k = 25 /\ k = 7
        BY <2>2, <3>2
      <4>2. c = 2^25
        BY <4>1, Zenon
      <4>3. \A y \in 0 .. 127 : 2^25 \in Nat /\ y < 2^25
        BY SMT
      <4> QED BY <4>2, <4>3, Zenon
    <3>3. CASE j = 2
      <4>1. IntBits - k = 18 /\ k = 14
        BY <2>2, <3>3
      <4>2. c = 2^18
        BY <4>1, Zenon
      <4>3. \A y \in 0 .. 127 : 2^18 \in Nat /\ y < 2^18
        BY SMT
      <4> QED BY <4>2, <4>3, Zenon
    <3>4. CASE j = 3
      <4>1. IntBits - k = 11 /\ k = 21
        BY <2>2, <3>4
      <4>2. c = 2^11
        BY <4>1, Zenon
      <4>3. \A y \in 0 .. 127 : 2^11 \in Nat /\ y < 2^11
        BY SMT
      <4> QED BY <4>2, <4>3, Zenon
    <3>5. CASE j = 4
      <4>1. IntBits - k = 4 /\ k = 28
        BY <2>2, <3>5
      <4>2. c = 2^4
        BY <4>1, Zenon
      <4>3. x * 2^28 < 2^31
        BY <2>2, <2>0, <4>1, Powers, Zenon
      <4>4. \A y \in 0 .. 127 : y * 2^28 < 2^31 => 2^4 \in Nat /\ y < 2^4
        BY SMT
      <4> QED BY <4>2, <4>3, <4>4, Zenon
    <3> QED BY <3>1, <3>2, <3>3, <3>4, <3>5, SMT
  <2> QED BY <2>1, <2>2, WidthsAssumption, Zenon
<1>4. x % c = x
  <2> HIDE DEF c
  <2> QED BY <1>3, ModSmall
<1> QED
  BY <1>2, <1>4, Zenon
LEMMA GroupRead ==
  ASSUME NEW j \in 0 .. 4, 7 * j < IntBits, NEW x \in 0 .. 127, x * 2^(7 * j) \in Value
  PROVE  Trunc(PtrBits, SVal(IntBits, Shl(IntBits, x, 7 * j))) = x * 2^(7 * j)
<1> DEFINE y == x * 2^(7 * j)
           h == 2^(IntBits - 1)
<1>1. y \in Nat /\ y < h /\ h \in Nat
  BY ValueFacts, Powers
<1>2. Shl(IntBits, x, 7 * j) = y
  BY <1>1, GroupShift
<1>3. SVal(IntBits, y) = y
  <2>1. SVal(IntBits, y) = IF y >= h THEN y - 2^IntBits ELSE y
    BY DEF SVal
  <2>2. ~ (y >= h)
    <3> HIDE DEF y, h
    <3> QED BY <1>1
  <2> QED BY <2>1, <2>2, Zenon
<1>4. Trunc(PtrBits, y) = y
  BY TruncValue
<1> QED
  BY <1>2, <1>3, <1>4, Zenon

\* where a uleb128 value ends
LEMMA ULEBLast ==
  ASSUME NEW data \in Seq(Byte), NEW q \in Nat \ {0}, NEW last \in q .. Len(data),
         data[last] < 128, \A j \in q .. last - 1 : data[j] >= 128
  PROVE  (CHOOSE i \in q .. Len(data) : data[i] < 128 /\ \A j \in q .. i - 1 : data[j] >= 128) = last
<1>0. \A v \in 0 .. 255 : ~ (v < 128 /\ v >= 128)
  OBVIOUS
<1>1. ASSUME NEW i \in q .. Len(data) PROVE data[i] \in 0 .. 255
  <2>1. i \in 1 .. Len(data)
    OBVIOUS
  <2>2. data[i] \in Byte
    BY <2>1
  <2> QED BY <2>2 DEF Byte
<1>2. ASSUME NEW i \in q .. Len(data), data[i] < 128, \A j \in q .. i - 1 : data[j] >= 128
      PROVE  i = last
  <2>1. CASE i < last
    <3>1. i \in q .. last - 1
      BY <2>1
    <3>2. data[i] >= 128
      BY <3>1
    <3> QED BY <1>0, <1>1, <1>2, <3>2
  <2>2. CASE last < i
    <3>1. last \in q .. i - 1
      BY <2>2
    <3>2. data[last] >= 128
      BY <1>2, <3>1
    <3> QED BY <1>0, <1>1, <3>2
  <2> QED BY <2>1, <2>2, SMT
<1> DEFINE P(i) == data[i] < 128 /\ \A j \in q .. i - 1 : data[j] >= 128
<1>3. last \in q .. Len(data) /\ P(last)
  OBVIOUS
<1>4. \A i \in q .. Len(data) : P(i) => i = last
  BY <1>2
<1> HIDE DEF P
<1>5. (CHOOSE i \in q .. Len(data) : P(i)) = last
  BY <1>3, <1>4
<1> QED
  BY <1>5 DEF P

LEMMA ULEBNext ==
  ASSUME NEW data \in Seq(Byte), NEW q \in Nat \ {0}, NEW last \in q .. Len(data),
         data[last] < 128, \A j \in q .. last - 1 : data[j] >= 128
  PROVE  readULEB128(data, q).next = last + 1
  BY ULEBLast, Zenon DEF readULEB128

LEMMA LowBits ==
  ASSUME NEW x \in 0 .. 127
  PROVE  (128 + x) % 128 = x /\ x % 128 = x /\ 128 + x \in Byte /\ x \in Byte
  BY SMT DEF Byte

\* the digits of a value in groups of 7 bits: one more group joins the ones below it
LEMMA DigitFacts ==
  ASSUME NEW n \in Value, NEW j \in 0 .. 4
  PROVE  /\ Digit(n, j) \in 0 .. 127
         /\ Digit(n, j) * 2^(7 * j) \in Value
         /\ Digit(n, j) * 2^(7 * j) + (n % 2^(7 * j)) = n % 2^(7 * (j + 1))
         /\ n % 2^(7 * (j + 1)) \in Value
<1>1. n \in Nat /\ n < 2^31 /\ n < 2^(IntBits - 1) /\ 2^(IntBits - 1) \in Nat
  BY ValueFacts, Powers
<1> DEFINE W == {2^0, 2^7, 2^14, 2^21, 2^28}
<1>2. \A w \in W :
        /\ (n \div w) % 128 \in 0 .. 127
        /\ ((n \div w) % 128) * w + (n % w) = n % (128 * w)
        /\ ((n \div w) % 128) * w \in 0 .. n /\ n % (128 * w) \in 0 .. n
  <2> TAKE w \in W
  <2>1. CASE w = 2^0
    BY <1>1, <2>1, SMT
  <2>2. CASE w = 2^7
    BY <1>1, <2>2, SMT
  <2>3. CASE w = 2^14
    BY <1>1, <2>3, SMT
  <2>4. CASE w = 2^21
    BY <1>1, <2>4, SMT
  <2>5. CASE w = 2^28
    BY <1>1, <2>5, SMT
  <2> QED BY <2>1, <2>2, <2>3, <2>4, <2>5
<1>3. 2^(7 * j) \in W /\ 2^(7 * (j + 1)) = 128 * 2^(7 * j)
  <2>1. CASE j = 0
    <3>1. 7 * j = 0 /\ 7 * (j + 1) = 7
      BY <2>1
    <3> QED BY <3>1, Shifts, Zenon
  <2>2. CASE j = 1
    <3>1. 7 * j = 7 /\ 7 * (j + 1) = 14
      BY <2>2
    <3> QED BY <3>1, Shifts, Zenon
  <2>3. CASE j = 2
    <3>1. 7 * j = 14 /\ 7 * (j + 1) = 21
      BY <2>3
    <3> QED BY <3>1, Shifts, Zenon
  <2>4. CASE j = 3
    <3>1. 7 * j = 21 /\ 7 * (j + 1) = 28
      BY <2>4
    <3> QED BY <3>1, Shifts, Zenon
  <2>5. CASE j = 4
    <3>1. 7 * j = 28 /\ 7 * (j + 1) = 35
      BY <2>5
    <3> QED BY <3>1, Shifts, Zenon
  <2> QED BY <2>1, <2>2, <2>3, <2>4, <2>5
<1>4. ASSUME NEW v \in 0 .. n PROVE v \in Value
  <2> DEFINE h == 2^(IntBits - 1)
  <2>1. h \in Nat /\ n < h
    BY <1>1
  <2> HIDE DEF h
  <2>2. v \in 0 .. h - 1
    BY <1>1, <2>1, SMT
  <2> QED BY <2>2 DEF Value, h
<1> DEFINE m == 2^(7 * j)
<1>5. m \in W /\ 2^(7 * (j + 1)) = 128 * m
  BY <1>3
<1>6. Digit(n, j) = (n \div m) % 128
  BY DEF Digit
<1> HIDE DEF m, W
<1>7. /\ Digit(n, j) \in 0 .. 127
      /\ Digit(n, j) * m + (n % m) = n % (128 * m)
      /\ Digit(n, j) * m \in 0 .. n /\ n % (128 * m) \in 0 .. n
  <2>1. m \in W
    BY <1>5
  <2>2. /\ (n \div m) % 128 \in 0 .. 127
        /\ ((n \div m) % 128) * m + (n % m) = n % (128 * m)
        /\ ((n \div m) % 128) * m \in 0 .. n /\ n % (128 * m) \in 0 .. n
    BY <1>2, <2>1, Zenon
  <2> QED BY <1>6, <2>2, Zenon
<1>8. /\ Digit(n, j) \in 0 .. 127
      /\ Digit(n, j) * m \in Value
      /\ Digit(n, j) * m + (n % m) = n % 2^(7 * (j + 1))
      /\ n % 2^(7 * (j + 1)) \in Value
  BY <1>4, <1>5, <1>7, Zenon
<1> QED
  BY <1>8 DEF m

\* a value has as many groups as it needs, at most five
LEMMA CountFacts ==
  ASSUME NEW n \in Value
  PROVE  /\ GroupCount(n) \in 1 .. 5 /\ 7 * (GroupCount(n) - 1) < IntBits
         /\ n % 2^(7 * GroupCount(n)) = n /\ n % 2^(7 * 0) = 0
<1> DEFINE k == GroupCount(n)
<1>1. n \in Nat /\ n < 2^31 /\ (IntBits = 24 => n < 2^23)
  BY ValueFacts
<1>2. k = CASE n < 2^7 -> 1
            [] n \in 2^7 .. 2^14 - 1 -> 2
            [] n \in 2^14 .. 2^21 - 1 -> 3
            [] n \in 2^21 .. 2^28 - 1 -> 4
            [] n >= 2^28 -> 5
  BY Zenon DEF GroupCount
<1> HIDE DEF k
<1>3. \/ k = 1 /\ n < 2^7
      \/ k = 2 /\ n < 2^14
      \/ k = 3 /\ n < 2^21
      \/ k = 4 /\ n < 2^28
      \/ k = 5 /\ n >= 2^28
  BY <1>1, <1>2
<1>4. k \in 1 .. 5 /\ 7 * (k - 1) < IntBits
  BY <1>1, <1>3, WidthsAssumption
<1>5. n % 2^(7 * k) = n
  <2>1. CASE k = 1
    <3>1. 7 * k = 7 /\ n < 2^7
      BY <1>3, <2>1
    <3>2. n % 2^7 = n
      BY <1>1, <3>1, SMT
    <3> QED BY <3>1, <3>2, Zenon
  <2>2. CASE k = 2
    <3>1. 7 * k = 14 /\ n < 2^14
      BY <1>3, <2>2
    <3>2. n % 2^14 = n
      BY <1>1, <3>1, SMT
    <3> QED BY <3>1, <3>2, Zenon
  <2>3. CASE k = 3
    <3>1. 7 * k = 21 /\ n < 2^21
      BY <1>3, <2>3
    <3>2. n % 2^21 = n
      BY <1>1, <3>1, SMT
    <3> QED BY <3>1, <3>2, Zenon
  <2>4. CASE k = 4
    <3>1. 7 * k = 28 /\ n < 2^28
      BY <1>3, <2>4
    <3>2. n % 2^28 = n
      BY <1>1, <3>1, SMT
    <3> QED BY <3>1, <3>2, Zenon
  <2>5. CASE k = 5
    <3>1. 7 * k = 35 /\ n < 2^35
      BY <1>1, <2>5
    <3>2. n % 2^35 = n
      BY <1>1, <3>1, SMT
    <3> QED BY <3>1, <3>2, Zenon
  <2> QED BY <1>4, <2>1, <2>2, <2>3, <2>4, <2>5
<1>6. n % 2^(7 * 0) = 0
  <2>1. 7 * 0 = 0 /\ n % 1 = 0
    BY <1>1, SMT
  <2> QED BY <2>1, Shifts, Zenon
<1> QED
  BY <1>4, <1>5, <1>6 DEF k

\* the bytes of a value in uleb128
LEMMA ULEBBytes ==
  ASSUME NEW n \in Value
  PROVE  /\ ULEB(n) \in Seq(Byte) /\ Len(ULEB(n)) = GroupCount(n) /\ Len(ULEB(n)) \in 1 .. 5
         /\ \A i \in 1 .. Len(ULEB(n)) :
              /\ ULEB(n)[i] % 128 = Digit(n, i - 1)
              /\ i < Len(ULEB(n)) => ULEB(n)[i] >= 128
              /\ i = Len(ULEB(n)) => ULEB(n)[i] < 128
<1> DEFINE k == GroupCount(n)
           B(i) == IF i < k THEN 128 + Digit(n, i - 1) ELSE Digit(n, i - 1)
<1>1. k \in 1 .. 5
  BY CountFacts
<1>2. ULEB(n) = [i \in 1 .. k |-> B(i)]
  BY DEF ULEB
<1>3. ASSUME NEW i \in 1 .. k
      PROVE  /\ B(i) \in Byte /\ B(i) % 128 = Digit(n, i - 1)
             /\ i < k => B(i) >= 128
             /\ i = k => B(i) < 128
  <2>1. i - 1 \in 0 .. 4
    BY <1>1
  <2> DEFINE x == Digit(n, i - 1)
  <2>2. x \in 0 .. 127
    BY <2>1, DigitFacts
  <2> HIDE DEF x
  <2>3. (128 + x) % 128 = x /\ x % 128 = x /\ 128 + x \in Byte /\ x \in Byte
    BY <2>2, LowBits
  <2>4. 128 + x >= 128 /\ x < 128
    BY <2>2
  <2>5. B(i) = IF i < k THEN 128 + x ELSE x
    BY DEF x
  <2>6. CASE i < k
    <3>1. B(i) = 128 + x /\ ~ (i = k)
      BY <1>1, <2>5, <2>6
    <3> QED BY <2>3, <2>4, <3>1 DEF x
  <2>7. CASE ~ (i < k)
    <3>1. B(i) = x
      BY <2>5, <2>7
    <3> QED BY <2>3, <2>4, <2>7, <3>1 DEF x
  <2> QED BY <2>6, <2>7
<1> HIDE DEF B
<1>4. ULEB(n) \in Seq(Byte) /\ Len(ULEB(n)) = k
  <2> HIDE DEF k
  <2> QED BY <1>1, <1>2, <1>3
<1>5. \A i \in 1 .. k : ULEB(n)[i] = B(i)
  BY <1>2
<1> QED
  BY <1>1, <1>3, <1>4, <1>5, Zenon

-----------------------------------------------------------------------------
(* Values in the data *)

LEMMA HoldsParts ==
  ASSUME NEW data, NEW q \in Nat, NEW a \in Seq(Byte), NEW b \in Seq(Byte), Len(data) \in Nat,
         Holds(data, q, a \o b)
  PROVE  Holds(data, q, a) /\ Holds(data, q + Len(a), b)
<1>1. Len(a) \in Nat /\ Len(b) \in Nat /\ Len(a \o b) = Len(a) + Len(b)
  OBVIOUS
<1>2. q + (Len(a) + Len(b)) - 1 <= Len(data)
  BY <1>1 DEF Holds
<1>3. ASSUME NEW i \in 1 .. Len(a) PROVE data[q + i - 1] = a[i]
  <2>1. i \in 1 .. Len(a \o b) /\ (a \o b)[i] = a[i]
    BY <1>1
  <2> QED BY <2>1 DEF Holds
<1>4. ASSUME NEW i \in 1 .. Len(b) PROVE data[q + Len(a) + i - 1] = b[i]
  <2>1. Len(a) + i \in 1 .. Len(a \o b) /\ (a \o b)[Len(a) + i] = b[i]
    BY <1>1
  <2>2. data[q + (Len(a) + i) - 1] = b[i]
    BY <2>1 DEF Holds
  <2>3. q + (Len(a) + i) - 1 = q + Len(a) + i - 1
    BY <1>1
  <2> QED BY <2>2, <2>3
<1>5. q + Len(a) - 1 <= Len(data) /\ (q + Len(a)) + Len(b) - 1 <= Len(data)
  BY <1>1, <1>2
<1> QED
  BY <1>3, <1>4, <1>5 DEF Holds

\* Reading back a uleb128 value that the assembler wrote gives the value, and leaves the
\* pointer behind its last byte (readULEB128).
THEOREM ULEBRead ==
  ASSUME NEW data \in Seq(Byte), NEW q \in Nat \ {0}, NEW n \in Value, Holds(data, q, ULEB(n))
  PROVE  readULEB128(data, q) = [val |-> n, next |-> q + Len(ULEB(n))]
<1> DEFINE k == GroupCount(n)
           last == q + k - 1
           P(j) == n % 2^(7 * j)
           Group(i) == Trunc(PtrBits, SVal(IntBits, Shl(IntBits, data[i] % 128, 7 * (i - q))))
           F(r) == [i \in q .. last |-> Add(PtrBits, Group(i), IF i = q THEN 0 ELSE r[i - 1])]
           w == [i \in q .. last |-> P(i - q + 1)]
           result == CHOOSE r : r = F(r)
<1>1. k \in 1 .. 5 /\ Len(ULEB(n)) = k /\ 7 * (k - 1) < IntBits /\ P(k) = n /\ P(0) = 0
  BY CountFacts, ULEBBytes
<1>2. last \in q .. Len(data) /\ last + 1 = q + k
  BY <1>1 DEF Holds
<1>3. ASSUME NEW j \in 0 .. k - 1
      PROVE  /\ data[q + j] % 128 = Digit(n, j)
             /\ j < k - 1 => data[q + j] >= 128
             /\ j = k - 1 => data[q + j] < 128
  <2>1. j + 1 \in 1 .. Len(ULEB(n)) /\ (j + 1) - 1 = j /\ q + (j + 1) - 1 = q + j
    BY <1>1
  <2>2. data[q + j] = ULEB(n)[j + 1]
    BY <2>1 DEF Holds
  <2>3. /\ ULEB(n)[j + 1] % 128 = Digit(n, (j + 1) - 1)
        /\ j + 1 < Len(ULEB(n)) => ULEB(n)[j + 1] >= 128
        /\ j + 1 = Len(ULEB(n)) => ULEB(n)[j + 1] < 128
    BY <2>1, ULEBBytes
  <2>4. (j < k - 1 <=> j + 1 < k) /\ (j = k - 1 <=> j + 1 = k)
    BY <1>1
  <2> QED BY <1>1, <2>1, <2>2, <2>3, <2>4, Zenon
<1>4. (CHOOSE i \in q .. Len(data) : data[i] < 128 /\ \A i1 \in q .. i - 1 : data[i1] >= 128) = last
  <2>1. data[last] < 128
    <3>1. k - 1 \in 0 .. k - 1 /\ q + (k - 1) = last
      BY <1>1
    <3> QED BY <1>3, <3>1, Zenon
  <2>2. ASSUME NEW i \in q .. last - 1 PROVE data[i] >= 128
    <3>1. i - q \in 0 .. k - 1 /\ i - q < k - 1 /\ q + (i - q) = i
      BY <1>1
    <3> QED BY <1>3, <3>1, Zenon
  <2> HIDE DEF last, k
  <2> QED BY <1>2, <2>1, <2>2, ULEBLast
<1>5. readULEB128(data, q) = [val |-> result[last], next |-> last + 1]
  BY <1>4, Zenon DEF readULEB128
<1>6. ASSUME NEW j \in 0 .. k - 1
      PROVE  Add(PtrBits, Group(q + j), P(j)) = P(j + 1)
  <2>1. j \in 0 .. 4 /\ 7 * j < IntBits /\ (q + j) - q = j
    BY <1>1, WidthsAssumption
  <2> DEFINE x == Digit(n, j)
             m == 2^(7 * j)
  <2>2. x \in 0 .. 127 /\ x * m \in Value /\ x * m + (n % m) = n % 2^(7 * (j + 1))
        /\ n % 2^(7 * (j + 1)) \in Value
    BY <2>1, DigitFacts, Zenon
  <2>3. Group(q + j) = Trunc(PtrBits, SVal(IntBits, Shl(IntBits, x, 7 * j)))
    BY <1>3, <2>1, Zenon
  <2>4. Group(q + j) = x * m
    BY <2>1, <2>2, <2>3, GroupRead, Zenon
  <2>5. Trunc(PtrBits, P(j + 1)) = P(j + 1)
    BY <2>2, TruncValue, Zenon
  <2> HIDE DEF Group
  <2> QED BY <2>2, <2>4, <2>5, Zenon DEF Add
<1> HIDE DEF Group, P, k
<1>7. w = F(w)
  <2>1. ASSUME NEW i \in q .. last
        PROVE  P(i - q + 1) = Add(PtrBits, Group(i), IF i = q THEN 0 ELSE w[i - 1])
    <3>1. i - q \in 0 .. k - 1 /\ q + (i - q) = i
      BY <1>1, <1>2
    <3>2. Add(PtrBits, Group(i), P(i - q)) = P(i - q + 1)
      BY <1>6, <3>1, Zenon
    <3>3. CASE i = q
      <4>1. i - q = 0
        BY <3>3
      <4> QED BY <1>1, <3>2, <3>3, <4>1
    <3>4. CASE i # q
      <4>1. i - 1 \in q .. last /\ (i - 1) - q + 1 = i - q
        BY <1>2, <3>4
      <4>2. w[i - 1] = P((i - 1) - q + 1)
        BY <4>1
      <4> QED BY <3>2, <3>4, <4>1, <4>2
    <3> QED BY <3>3, <3>4
  <2> HIDE DEF last
  <2> QED BY <2>1
<1>8. result = F(result)
  BY <1>7, Zenon
<1> HIDE DEF result
<1>9. result[q] = P(1)
  <2>1. q \in q .. last /\ 0 \in 0 .. k - 1 /\ q + 0 = q /\ 0 + 1 = 1
    BY <1>1, <1>2
  <2>2. result[q] = Add(PtrBits, Group(q), 0)
    BY <1>8, <2>1
  <2> QED BY <1>1, <1>6, <2>1, <2>2, Zenon
<1>10. ASSUME NEW j \in 1 .. k - 1, result[q + j - 1] = P(j)
       PROVE  result[q + j] = P(j + 1)
  <2>1. q + j \in q .. last /\ j \in 0 .. k - 1 /\ q + j # q /\ (q + j) - 1 = q + j - 1
    BY <1>1, <1>2
  <2>2. result[q + j] = Add(PtrBits, Group(q + j), result[(q + j) - 1])
    BY <1>8, <2>1
  <2> QED BY <1>6, <1>10, <2>1, <2>2, Zenon
<1>11. result[last] = P(k)
  <2>0. /\ q + 1 - 1 = q /\ q + 2 - 1 = q + 1 /\ q + 3 - 1 = q + 2 /\ q + 4 - 1 = q + 3
        /\ 1 + 1 = 2 /\ 2 + 1 = 3 /\ 3 + 1 = 4 /\ 4 + 1 = 5
    OBVIOUS
  <2>1. k >= 2 => result[q + 1] = P(2)
    <3>1. k >= 2 => 1 \in 1 .. k - 1
      BY <1>1
    <3> QED BY <1>9, <1>10, <2>0, <3>1, Zenon
  <2>2. k >= 3 => result[q + 2] = P(3)
    <3>1. k >= 3 => 2 \in 1 .. k - 1 /\ k >= 2
      BY <1>1
    <3> QED BY <1>10, <2>0, <2>1, <3>1, Zenon
  <2>3. k >= 4 => result[q + 3] = P(4)
    <3>1. k >= 4 => 3 \in 1 .. k - 1 /\ k >= 3
      BY <1>1
    <3> QED BY <1>10, <2>0, <2>2, <3>1, Zenon
  <2>4. k >= 5 => result[q + 4] = P(5)
    <3>1. k >= 5 => 4 \in 1 .. k - 1 /\ k >= 4
      BY <1>1
    <3> QED BY <1>10, <2>0, <2>3, <3>1, Zenon
  <2>5. \/ k = 1 /\ last = q
        \/ k = 2 /\ last = q + 1
        \/ k = 3 /\ last = q + 2
        \/ k = 4 /\ last = q + 3
        \/ k = 5 /\ last = q + 4
    BY <1>1
  <2>6. 2 >= 2 /\ 3 >= 3 /\ 4 >= 4 /\ 5 >= 5
    OBVIOUS
  <2> HIDE DEF last
  <2> QED BY <1>9, <2>1, <2>2, <2>3, <2>4, <2>5, <2>6, Zenon
<1> QED
  BY <1>1, <1>2, <1>5, <1>11, Zenon

LEMMA PtrBytesFact == PtrBytes \in {3, 4, 8} /\ (PtrBytes = 3 => IntBits = 24)
<1>1. 24 \div 8 = 3 /\ 32 \div 8 = 4 /\ 64 \div 8 = 8
  BY SMT
<1> QED
  BY <1>1, WidthsAssumption DEF PtrBytes

LEMMA SizeFact ==
  ASSUME NEW format \in FixedFormats
  PROVE  Size(format) \in {2, 3, 4, 8} /\ (Size(format) = 3 => PtrBytes = 3)
  BY PtrBytesFact
     DEF FixedFormats, Size, DW_EH_PE_absptr, DW_EH_PE_udata2, DW_EH_PE_udata4, DW_EH_PE_udata8,
         DW_EH_PE_sdata2, DW_EH_PE_sdata4, DW_EH_PE_sdata8

\* the four bytes of a value
LEMMA ByteFacts ==
  ASSUME NEW n \in Value
  PROVE  /\ \A i \in 1 .. 4 : (n \div 256^(i - 1)) % 256 \in Byte
         /\ 256^(1 - 1) = 1 /\ 256^(2 - 1) = 256 /\ 256^(3 - 1) = 2^16 /\ 256^(4 - 1) = 2^24
         /\ (n \div 2^24) % 256 < 128
         /\ n = (n % 256) + ((n \div 256) % 256) * 256 + ((n \div 2^16) % 256) * 2^16
                  + ((n \div 2^24) % 256) * 2^24
         /\ (n \div 1) % 256 = n % 256
<1>1. n \in Nat /\ n < 2^31
  BY ValueFacts
<1>2. 256^(1 - 1) = 1 /\ 256^(2 - 1) = 256 /\ 256^(3 - 1) = 2^16 /\ 256^(4 - 1) = 2^24
  BY SMT
<1>3. \A m \in {1, 256, 2^16, 2^24} : (n \div m) % 256 \in Byte
  BY <1>1, SMT DEF Byte
<1>4. \A i \in 1 .. 4 : i = 1 \/ i = 2 \/ i = 3 \/ i = 4
  OBVIOUS
<1>5. \A i \in 1 .. 4 : (n \div 256^(i - 1)) % 256 \in Byte
  BY <1>2, <1>3, <1>4, Zenon
<1>6. (n \div 2^24) % 256 < 128 /\ (n \div 1) % 256 = n % 256
  BY <1>1, SMT
<1>7. n = (n % 256) + ((n \div 256) % 256) * 256 + ((n \div 2^16) % 256) * 2^16
            + ((n \div 2^24) % 256) * 2^24
  BY <1>1, SMT
<1> QED
  BY <1>2, <1>5, <1>6, <1>7

LEMMA LittleBytes ==
  ASSUME NEW n \in Value, NEW size \in Nat
  PROVE  /\ Little(n, size) \in Seq(Byte) /\ Len(Little(n, size)) = size
<1> DEFINE B(i) == IF i <= 4 THEN (n \div 256^(i - 1)) % 256 ELSE 0
<1>1. ASSUME NEW i \in 1 .. size PROVE B(i) \in Byte
  <2>1. 0 \in Byte
    BY DEF Byte
  <2>2. i <= 4 => i \in 1 .. 4
    OBVIOUS
  <2>3. \A k \in 1 .. 4 : (n \div 256^(k - 1)) % 256 \in Byte
    BY ByteFacts
  <2>4. CASE i <= 4
    <3>1. B(i) = (n \div 256^(i - 1)) % 256
      BY <2>4, Zenon
    <3> HIDE DEF B
    <3> QED BY <2>2, <2>3, <2>4, <3>1, Zenon
  <2>5. CASE ~ (i <= 4)
    BY <2>1, <2>5, Zenon
  <2> QED BY <2>4, <2>5
<1>2. Little(n, size) = [i \in 1 .. size |-> B(i)]
  BY DEF Little
<1> HIDE DEF B
<1> QED
  BY <1>1, <1>2

\* the bytes of a value where the data holds it
LEMMA LittleAt ==
  ASSUME NEW data, NEW q \in Nat \ {0}, NEW n \in Value, NEW size \in {2, 3, 4, 8},
         Holds(data, q, Little(n, size))
  PROVE  /\ data[q + 1 - 1] = n % 256 /\ data[q + 2 - 1] = (n \div 256) % 256
         /\ size >= 3 => data[q + 3 - 1] = (n \div 2^16) % 256
         /\ size >= 4 => data[q + 4 - 1] = (n \div 2^24) % 256
         /\ \A i \in 5 .. size : data[q + i - 1] = 0
<1> DEFINE L == Little(n, size)
<1>1. Len(L) = size
  BY LittleBytes
<1>2. \A i \in 1 .. size : data[q + i - 1] = L[i]
  BY <1>1 DEF Holds
<1>3. \A i \in 1 .. size : L[i] = IF i <= 4 THEN (n \div 256^(i - 1)) % 256 ELSE 0
  BY DEF Little
<1>4. /\ 1 \in 1 .. size /\ 1 <= 4 /\ 2 \in 1 .. size /\ 2 <= 4
      /\ (size >= 3 => 3 \in 1 .. size) /\ 3 <= 4 /\ (size >= 4 => 4 \in 1 .. size) /\ 4 <= 4
      /\ \A i \in 5 .. size : i \in 1 .. size /\ ~ (i <= 4)
  OBVIOUS
<1> HIDE DEF L
<1>5. \A i \in 1 .. size : i <= 4 => data[q + i - 1] = (n \div 256^(i - 1)) % 256
  BY <1>2, <1>3, Zenon
<1>6. \A i \in 1 .. size : ~ (i <= 4) => data[q + i - 1] = 0
  BY <1>2, <1>3, Zenon
<1>7. 256^(1 - 1) = 1 /\ 256^(2 - 1) = 256 /\ 256^(3 - 1) = 2^16 /\ 256^(4 - 1) = 2^24
  BY ByteFacts
<1>8. (n \div 1) % 256 = n % 256
  BY ByteFacts
<1>9. data[q + 1 - 1] = n % 256
  <2>1. data[q + 1 - 1] = (n \div 256^(1 - 1)) % 256
    <3>1. 1 \in 1 .. size /\ 1 <= 4
      BY SMT
    <3> QED BY <1>5, <3>1, Zenon
  <2>2. 256^(1 - 1) = 1
    BY <1>7
  <2> QED BY <2>1, <2>2, <1>8, Zenon
<1>10. data[q + 2 - 1] = (n \div 256) % 256
  <2>1. data[q + 2 - 1] = (n \div 256^(2 - 1)) % 256
    <3>1. 2 \in 1 .. size /\ 2 <= 4
      BY SMT
    <3> QED BY <1>5, <3>1, Zenon
  <2>2. 256^(2 - 1) = 256
    BY <1>7
  <2> QED BY <2>1, <2>2, Zenon
<1>11. size >= 3 => data[q + 3 - 1] = (n \div 2^16) % 256
  <2>1. size >= 3 => data[q + 3 - 1] = (n \div 256^(3 - 1)) % 256
    <3>1. size >= 3 => 3 \in 1 .. size /\ 3 <= 4
      BY SMT
    <3> QED BY <1>5, <3>1, Zenon
  <2>2. 256^(3 - 1) = 2^16
    BY <1>7
  <2> QED BY <2>1, <2>2, Zenon
<1>12. size >= 4 => data[q + 4 - 1] = (n \div 2^24) % 256
  <2>1. size >= 4 => data[q + 4 - 1] = (n \div 256^(4 - 1)) % 256
    <3>1. size >= 4 => 4 \in 1 .. size /\ 4 <= 4
      BY SMT
    <3> QED BY <1>5, <3>1, Zenon
  <2>2. 256^(4 - 1) = 2^24
    BY <1>7
  <2> QED BY <2>1, <2>2, Zenon
<1>13. \A i \in 5 .. size : data[q + i - 1] = 0
  BY <1>4, <1>6, Zenon
<1> QED
  BY <1>9, <1>10, <1>11, <1>12, <1>13, Zenon

LEMMA PowerInt ==
  ASSUME NEW k \in Nat
  PROVE  256^k \in Int
  OBVIOUS

\* a value that fits its bytes is read back; the bytes above are 0
LEMMA LoadRead ==
  ASSUME NEW data, NEW q \in Nat \ {0}, NEW n \in Value, NEW size \in {2, 3, 4, 8},
         size = 2 => n < 2^16, size = 3 => PtrBytes = 3, Holds(data, q, Little(n, size))
  PROVE  Load(data, q, size) = n
<1> DEFINE part(i) == IF i > size \/ i > PtrBytes THEN 0 ELSE data[q + i - 1] * 256^(i - 1)
           b1 == n % 256
           b2 == (n \div 256) % 256
           b3 == (n \div 2^16) % 256
           b4 == (n \div 2^24) % 256
<1>0. n \in Nat /\ n < 2^31 /\ (PtrBytes = 3 => n < 2^23)
  BY ValueFacts, PtrBytesFact
<1>1. /\ data[q + 1 - 1] = b1 /\ data[q + 2 - 1] = b2
      /\ size >= 3 => data[q + 3 - 1] = b3
      /\ size >= 4 => data[q + 4 - 1] = b4
      /\ \A i \in 5 .. size : data[q + i - 1] = 0
  BY LittleAt
<1>2. /\ n = b1 + b2 * 256 + b3 * 2^16 + b4 * 2^24
      /\ b1 \in Nat /\ b2 \in Nat /\ b3 \in Nat /\ b4 \in Nat
      /\ n < 2^16 => b3 = 0
      /\ n < 2^24 => b4 = 0
  <2>1. n = b1 + b2 * 256 + b3 * 2^16 + b4 * 2^24
    BY ByteFacts
  <2>2. b1 \in Nat /\ b2 \in Nat /\ b3 \in Nat /\ b4 \in Nat
    BY <1>0, SMT
  <2>3. (n < 2^16 => b3 = 0) /\ (n < 2^24 => b4 = 0)
    BY <1>0, SMT
  <2> QED BY <2>1, <2>2, <2>3
<1>3. 256^(1 - 1) = 1 /\ 256^(2 - 1) = 256 /\ 256^(3 - 1) = 2^16 /\ 256^(4 - 1) = 2^24
  BY ByteFacts
<1> HIDE DEF b1, b2, b3, b4
<1>4. part(1) = b1 /\ part(2) = b2 * 256
  <2>1. ~ (1 > size \/ 1 > PtrBytes) /\ ~ (2 > size \/ 2 > PtrBytes)
    BY PtrBytesFact
  <2>2. part(1) = b1 * 1 /\ part(2) = b2 * 256
    BY <1>1, <1>3, <2>1, Zenon
  <2> HIDE DEF part
  <2> QED BY <1>2, <2>2
<1>5. part(3) = b3 * 2^16
  <2>1. CASE 3 > size
    <3>1. b3 = 0
      BY <1>0, <1>2, <2>1
    <3> QED BY <2>1, <3>1
  <2>2. CASE ~ (3 > size)
    <3>1. ~ (3 > size \/ 3 > PtrBytes) /\ size >= 3
      BY <2>2, PtrBytesFact
    <3> QED BY <1>1, <1>3, <3>1, Zenon
  <2> QED BY <2>1, <2>2
<1>6. part(4) = b4 * 2^24
  <2>1. CASE 4 > size \/ 4 > PtrBytes
    <3>1. n < 2^24
      BY <1>0, <2>1, PtrBytesFact
    <3>2. b4 = 0
      BY <1>2, <3>1
    <3> QED BY <2>1, <3>2
  <2>2. CASE ~ (4 > size \/ 4 > PtrBytes)
    <3>1. size >= 4
      BY <2>2
    <3> QED BY <1>1, <1>3, <2>2, <3>1, Zenon
  <2> QED BY <2>1, <2>2
<1>7. ASSUME NEW i \in 5 .. 8 PROVE part(i) = 0
  <2>1. 256^(i - 1) \in Int
    <3>1. i - 1 \in Nat
      OBVIOUS
    <3> QED BY <3>1, PowerInt, Zenon
  <2>2. CASE i > size \/ i > PtrBytes
    BY <2>2
  <2>3. CASE ~ (i > size \/ i > PtrBytes)
    <3>1. data[q + i - 1] = 0
      BY <1>1, <2>3
    <3> QED BY <3>1, <2>1, <2>3
  <2> QED BY <2>2, <2>3
<1>8. part(5) = 0 /\ part(6) = 0 /\ part(7) = 0 /\ part(8) = 0
  <2> HIDE DEF part
  <2> QED BY <1>7
<1>9. Load(data, q, size) = part(1) + part(2) + part(3) + part(4) + part(5) + part(6) + part(7) + part(8)
  BY DEF Load
<1> HIDE DEF part
<1> QED
  BY <1>0, <1>2, <1>4, <1>5, <1>6, <1>8, <1>9, SMT

\* a value that is not negative in its bytes is read back the same when they have a sign
LEMMA LoadSignedRead ==
  ASSUME NEW data, NEW q \in Nat \ {0}, NEW n \in Value, NEW size \in {2, 3, 4, 8},
         size = 2 => n < 2^15, size = 3 => PtrBytes = 3, Holds(data, q, Little(n, size))
  PROVE  LoadSigned(data, q, size) = n
<1>0. n \in Nat
  BY ValueFacts
<1>1. ~ (size < PtrBytes /\ data[q + size - 1] >= 128)
  <2>1. CASE size = 2
    <3>1. data[q + size - 1] = (n \div 256) % 256
      BY <2>1, LittleAt
    <3>2. (n \div 256) % 256 < 128 /\ (n \div 256) % 256 \in Nat
      BY <1>0, <2>1, SMT
    <3> QED BY <3>1, <3>2
  <2>2. CASE size = 3
    BY <2>2, PtrBytesFact
  <2>3. CASE size = 4
    <3>1. data[q + size - 1] = (n \div 2^24) % 256
      BY <2>3, LittleAt
    <3>2. (n \div 2^24) % 256 < 128 /\ (n \div 2^24) % 256 \in Nat
      BY <1>0, ByteFacts, SMT
    <3> QED BY <3>1, <3>2
  <2>4. CASE size = 8
    BY <2>4, PtrBytesFact
  <2> QED BY <2>1, <2>2, <2>3, <2>4
<1>2. size = 2 => n < 2^16
  BY <1>0
<1> QED
  BY <1>1, <1>2, LoadRead DEF LoadSigned

\* the formats of fixed size
LEMMA FixedForm ==
  ASSUME NEW data, NEW q, NEW format \in FixedFormats
  PROVE  encodedValue(data, q, format) \in
           {[val |-> Load(data, q, Size(format)), next |-> q + Size(format)],
            [val |-> LoadSigned(data, q, Size(format)), next |-> q + Size(format)]}
<1> USE DEF DW_EH_PE_absptr, DW_EH_PE_udata2, DW_EH_PE_udata4, DW_EH_PE_udata8,
            DW_EH_PE_sdata2, DW_EH_PE_sdata4, DW_EH_PE_sdata8, DW_EH_PE_uleb128
<1>1. CASE format = 0
  BY <1>1 DEF encodedValue, Size
<1>2. CASE format \in {2, 3, 4}
  BY <1>2 DEF encodedValue, Size
<1>3. CASE format \in {10, 11, 12}
  BY <1>3 DEF encodedValue, Size
<1> QED
  BY <1>1, <1>2, <1>3 DEF FixedFormats

LEMMA FixedRead ==
  ASSUME NEW data, NEW q \in Nat \ {0}, NEW n \in Value, NEW format \in FixedFormats,
         Fits(format, n), Holds(data, q, Little(n, Size(format)))
  PROVE  encodedValue(data, q, format) = [val |-> n, next |-> q + Size(format)]
<1> USE DEF DW_EH_PE_absptr, DW_EH_PE_udata2, DW_EH_PE_udata4, DW_EH_PE_udata8,
            DW_EH_PE_sdata2, DW_EH_PE_sdata4, DW_EH_PE_sdata8, DW_EH_PE_uleb128
<1>1. Size(format) \in {2, 3, 4, 8} /\ (Size(format) = 3 => PtrBytes = 3)
  BY SizeFact
<1>2. CASE format = DW_EH_PE_udata2
  <2>1. Size(format) = 2 /\ n < 2^16
    BY <1>2 DEF Size, Fits
  <2>2. Load(data, q, 2) = n
    BY <2>1, LoadRead
  <2> QED BY <1>2, <2>1, <2>2 DEF encodedValue
<1>3. CASE format # DW_EH_PE_udata2
  <2>1. Size(format) = 2 => n < 2^15
    BY <1>3, PtrBytesFact DEF Size, Fits, FixedFormats
  <2>2. n \in Nat
    BY ValueFacts
  <2>3. Size(format) = 2 => n < 2^16
    BY <2>1, <2>2
  <2>4. Load(data, q, Size(format)) = n
    BY <1>1, <2>3, LoadRead
  <2>5. LoadSigned(data, q, Size(format)) = n
    BY <1>1, <2>1, LoadSignedRead
  <2> QED BY <2>4, <2>5, FixedForm
<1> QED
  BY <1>2, <1>3

\* Reading back a value that the compiler wrote in any of the encodings of a call-site table
\* that can hold it, up to the largest int, gives the value, and leaves the pointer behind
\* its last byte (readEncodedPointer).
THEOREM PointerRead ==
  ASSUME NEW data \in Seq(Byte), NEW q \in Nat \ {0}, NEW n \in Value, NEW base,
         NEW enc \in FixedFormats \cup {DW_EH_PE_uleb128}, Fits(enc, n),
         Holds(data, q, Encoded(enc, n))
  PROVE  readEncodedPointer(data, q, enc, base) = [val |-> n, next |-> q + Len(Encoded(enc, n))]
<1> DEFINE value == encodedValue(data, q, enc)
           rest == q + Len(Encoded(enc, n))
<1>1. value = [val |-> n, next |-> rest] /\ rest # 0
  <2>1. CASE enc = DW_EH_PE_uleb128
    <3>1. Encoded(enc, n) = ULEB(n) /\ Len(ULEB(n)) \in Nat
      BY <2>1, ULEBBytes DEF Encoded
    <3>2. value = readULEB128(data, q)
      BY <2>1 DEF encodedValue, DW_EH_PE_uleb128, DW_EH_PE_absptr, DW_EH_PE_udata2,
                  DW_EH_PE_udata4, DW_EH_PE_udata8, DW_EH_PE_sdata2, DW_EH_PE_sdata4,
                  DW_EH_PE_sdata8
    <3> QED BY <3>1, <3>2, ULEBRead
  <2>2. CASE enc # DW_EH_PE_uleb128
    <3>1. enc \in FixedFormats
      BY <2>2
    <3>2. Encoded(enc, n) = Little(n, Size(enc))
      BY <2>2 DEF Encoded
    <3>3. Size(enc) \in Nat
      BY <3>1, SizeFact
    <3>4. Len(Encoded(enc, n)) = Size(enc)
      BY <3>2, <3>3, LittleBytes
    <3>5. value = [val |-> n, next |-> q + Size(enc)]
      BY <3>1, <3>2, FixedRead
    <3> QED BY <3>3, <3>4, <3>5
  <2> QED BY <2>1, <2>2
<1>2. enc \in 0 .. 15
  BY DEF FixedFormats, DW_EH_PE_uleb128, DW_EH_PE_absptr, DW_EH_PE_udata2, DW_EH_PE_udata4,
         DW_EH_PE_udata8, DW_EH_PE_sdata2, DW_EH_PE_sdata4, DW_EH_PE_sdata8
<1>3. enc % 16 = enc /\ ((enc \div 16) % 8) * 16 = DW_EH_PE_absptr
  BY <1>2, SMT DEF DW_EH_PE_absptr
<1>4. enc # DW_EH_PE_omit /\ ~ (enc >= DW_EH_PE_indirect) /\ DW_EH_PE_absptr # DW_EH_PE_pcrel
  BY <1>2 DEF DW_EH_PE_omit, DW_EH_PE_indirect, DW_EH_PE_absptr, DW_EH_PE_pcrel
<1>5. value # Trap
  BY <1>1 DEF Trap
<1>6. value.val = n /\ value.next = rest
  BY <1>1
<1>7. readEncodedPointer(data, q, enc, base) = [val |-> value.val, next |-> value.next]
  BY <1>3, <1>4, <1>5, Zenon DEF readEncodedPointer
<1> QED
  BY <1>6, <1>7, Zenon

-----------------------------------------------------------------------------
(* The header of the data *)

\* a uleb128 value of any length behind an encoding
LEMMA ULEBFieldNext ==
  ASSUME NEW data \in Seq(Byte), NEW q \in Nat \ {0}, NEW s \in Seq(Byte), IsULEBField(s),
         Holds(data, q, s)
  PROVE  readULEB128(data, q + 1).next = q + Len(s)
<1> DEFINE last == q + Len(s) - 1
<1>1. Len(s) \in Nat /\ Len(s) >= 2 /\ s[Len(s)] < 128 /\ \A i \in 2 .. Len(s) - 1 : s[i] >= 128
  BY DEF IsULEBField
<1>2. last \in q + 1 .. Len(data) /\ \A i \in 1 .. Len(s) : data[q + i - 1] = s[i]
  BY <1>1 DEF Holds
<1>3. data[last] < 128
  <2>1. Len(s) \in 1 .. Len(s)
    BY <1>1
  <2> QED BY <1>1, <1>2, <2>1, Zenon
<1>4. ASSUME NEW j \in q + 1 .. last - 1 PROVE data[j] >= 128
  <2>1. j - q + 1 \in 2 .. Len(s) - 1 /\ j - q + 1 \in 1 .. Len(s) /\ q + (j - q + 1) - 1 = j
    BY <1>1
  <2> QED BY <1>1, <1>2, <2>1, Zenon
<1>5. q + 1 \in Nat \ {0}
  OBVIOUS
<1>6. last + 1 = q + Len(s)
  BY <1>1
<1> HIDE DEF last
<1>7. readULEB128(data, q + 1).next = last + 1
  BY <1>2, <1>3, <1>4, <1>5, ULEBNext, Zenon
<1> QED
  BY <1>6, <1>7, Zenon

LEMMA TtypeNext ==
  ASSUME NEW data \in Seq(Byte), NEW q \in Nat \ {0}, NEW s \in Seq(Byte) \ {<<>>}, IsTtype(s),
         Holds(data, q, s)
  PROVE  (IF data[q] # DW_EH_PE_omit THEN readULEB128(data, q + 1).next ELSE q + 1) = q + Len(s)
<1>1. data[q] = s[1]
  <2>1. 1 \in 1 .. Len(s) /\ q + 1 - 1 = q
    OBVIOUS
  <2>2. data[q + 1 - 1] = s[1]
    BY <2>1 DEF Holds
  <2> QED BY <2>1, <2>2
<1>2. CASE s[1] = DW_EH_PE_omit
  <2>1. Len(s) = 1
    BY <1>2 DEF IsTtype
  <2> QED BY <1>1, <1>2, <2>1
<1>3. CASE s[1] # DW_EH_PE_omit
  <2>1. IsULEBField(s)
    BY <1>3 DEF IsTtype
  <2> QED BY <1>1, <1>3, <2>1, ULEBFieldNext
<1> QED
  BY <1>2, <1>3

LEMMA LpStartNext ==
  ASSUME NEW data \in Seq(Byte), NEW s \in Seq(Byte) \ {<<>>}, IsLpStart(s), Holds(data, 1, s), NEW base
  PROVE  (IF data[1] # DW_EH_PE_omit THEN readEncodedPointer(data, 2, data[1], base).next ELSE 2)
           = Len(s) + 1
<1>1. data[1] = s[1]
  <2>1. 1 \in 1 .. Len(s) /\ 1 + 1 - 1 = 1
    OBVIOUS
  <2>2. data[1 + 1 - 1] = s[1]
    BY <2>1 DEF Holds
  <2> QED BY <2>1, <2>2
<1>2. CASE s[1] = DW_EH_PE_omit
  <2>1. Len(s) = 1
    BY <1>2 DEF IsLpStart
  <2> QED BY <1>1, <1>2, <2>1
<1>3. CASE s[1] # DW_EH_PE_omit
  <2> DEFINE e == s[1]
             value == encodedValue(data, 2, e % 16)
  <2>1. (e \div 16) % 8 \in {0, 1}
    BY <1>3 DEF IsLpStart
  <2>2. ((e \div 16) % 8) * 16 \in {DW_EH_PE_absptr, DW_EH_PE_pcrel}
    BY <2>1 DEF DW_EH_PE_absptr, DW_EH_PE_pcrel
  <2>3. value.next = Len(s) + 1
    <3>1. CASE e % 16 \in FixedFormats /\ Len(s) = 1 + Size(e % 16)
      <4>1. value.next = 2 + Size(e % 16)
        BY <3>1, FixedForm
      <4>2. Size(e % 16) \in Nat
        BY <3>1, SizeFact
      <4> QED BY <3>1, <4>1, <4>2
    <3>2. CASE e % 16 = DW_EH_PE_uleb128 /\ IsULEBField(s)
      <4>1. value = readULEB128(data, 2)
        BY <3>2 DEF encodedValue, DW_EH_PE_uleb128, DW_EH_PE_absptr, DW_EH_PE_udata2,
                    DW_EH_PE_udata4, DW_EH_PE_udata8, DW_EH_PE_sdata2, DW_EH_PE_sdata4,
                    DW_EH_PE_sdata8
      <4>2. readULEB128(data, 1 + 1).next = 1 + Len(s)
        BY <3>2, ULEBFieldNext
      <4> QED BY <4>1, <4>2
    <3> QED BY <1>3, <3>1, <3>2 DEF IsLpStart
  <2>4. value # Trap
    BY <2>3 DEF Trap
  <2> HIDE DEF value
  <2>5. readEncodedPointer(data, 2, e, base).next = value.next
    BY <1>3, <2>2, <2>4, Zenon DEF readEncodedPointer, value
  <2> QED BY <1>1, <1>3, <2>3, <2>5
<1> QED
  BY <1>2, <1>3

LEMMA FunctionFacts ==
  ASSUME NEW f \in Functions
  PROVE  /\ f.table \in Seq(CallSite) /\ f.enc \in FixedFormats \cup {DW_EH_PE_uleb128}
         /\ f.start \in Nat /\ f.lsda \in Seq(Byte) /\ (f.lsda = <<>> <=> f.table = <<>>)
         /\ \A i \in 1 .. Len(f.table) :
              /\ f.table[i].pad # 0 => f.resume[f.table[i].pad] \in Offsets(f)
              /\ Fits(f.enc, f.table[i].start) /\ Fits(f.enc, f.table[i].length)
              /\ Fits(f.enc, f.table[i].pad)
  BY FunctionsAssumption

LEMMA DataFacts ==
  ASSUME NEW f \in Functions, f.table # <<>>
  PROVE  /\ f.lpStart \in Seq(Byte) \ {<<>>} /\ IsLpStart(f.lpStart)
         /\ f.ttype \in Seq(Byte) \ {<<>>} /\ IsTtype(f.ttype)
         /\ f.begin \in [1 .. Len(f.table) + 1 -> Nat] /\ TableEnd(f) - f.begin[1] \in Value
         /\ Lsda(f)
  BY FunctionsAssumption

LEMMA ConcatBytes ==
  ASSUME NEW a \in Seq(Byte), NEW b \in Seq(Byte)
  PROVE  a \o b \in Seq(Byte) /\ Len(a \o b) = Len(a) + Len(b)
  OBVIOUS

\* what ParseHeader computes: the walk begins at the first entry, in the encoding of the
\* table, and ends where the last entry ends
LEMMA HeaderRead ==
  ASSUME NEW f \in Functions, f.table # <<>>, NEW base
  PROVE  LET lp == IF f.lsda[1] # DW_EH_PE_omit THEN readEncodedPointer(f.lsda, 2, f.lsda[1], base).next
                   ELSE 2
             tt == IF f.lsda[lp] # DW_EH_PE_omit THEN readULEB128(f.lsda, lp + 1).next ELSE lp + 1
             length == readULEB128(f.lsda, tt + 1)
         IN  /\ f.lsda[tt] = f.enc /\ length.next = f.begin[1]
             /\ length.next + length.val = TableEnd(f)
<1> DEFINE d == f.lsda
           a == f.lpStart
           b == f.ttype
           c == <<f.enc>>
           n == TableEnd(f) - f.begin[1]
           u == ULEB(n)
           lp == IF d[1] # DW_EH_PE_omit THEN readEncodedPointer(d, 2, d[1], base).next ELSE 2
           tt == IF d[lp] # DW_EH_PE_omit THEN readULEB128(d, lp + 1).next ELSE lp + 1
           length == readULEB128(d, tt + 1)
<1>1. /\ d \in Seq(Byte) /\ a \in Seq(Byte) \ {<<>>} /\ b \in Seq(Byte) \ {<<>>}
      /\ IsLpStart(a) /\ IsTtype(b) /\ n \in Value
  BY FunctionFacts, DataFacts
<1>2. f.enc \in Byte /\ c \in Seq(Byte) /\ Len(c) = 1
  <2>1. f.enc \in Byte
    BY FunctionFacts
       DEF FixedFormats, Byte, DW_EH_PE_uleb128, DW_EH_PE_absptr, DW_EH_PE_udata2, DW_EH_PE_udata4,
           DW_EH_PE_udata8, DW_EH_PE_sdata2, DW_EH_PE_sdata4, DW_EH_PE_sdata8
  <2> QED BY <2>1
<1>3. Holds(d, 1, a \o b \o c \o u) /\ f.begin[1] = Len(a \o b \o c \o u) + 1
  BY DataFacts DEF Lsda, Header
<1>4. u \in Seq(Byte)
  BY <1>1, ULEBBytes
<1>5. f.begin[1] \in Nat /\ TableEnd(f) \in Nat
  <2>1. Len(f.table) \in Nat
    BY FunctionFacts
  <2>2. 1 \in 1 .. Len(f.table) + 1 /\ Len(f.table) + 1 \in 1 .. Len(f.table) + 1
    BY <2>1
  <2> QED BY <2>2, DataFacts DEF TableEnd
<1> HIDE DEF a, b, c, d, u, n
<1>6. Len(a) \in Nat /\ Len(b) \in Nat /\ Len(u) \in Nat /\ Len(d) \in Nat
  BY <1>1, <1>4
<1>7. /\ a \o b \in Seq(Byte) /\ Len(a \o b) = Len(a) + Len(b)
      /\ a \o b \o c \in Seq(Byte) /\ Len(a \o b \o c) = Len(a) + Len(b) + 1
      /\ Len(a \o b \o c \o u) = Len(a) + Len(b) + 1 + Len(u)
  <2>1. a \o b \in Seq(Byte) /\ Len(a \o b) = Len(a) + Len(b)
    BY <1>1, ConcatBytes
  <2>2. a \o b \o c \in Seq(Byte) /\ Len(a \o b \o c) = Len(a) + Len(b) + 1
    BY <1>2, <2>1, ConcatBytes
  <2>3. Len(a \o b \o c \o u) = Len(a) + Len(b) + 1 + Len(u)
    BY <1>4, <2>2, ConcatBytes
  <2> QED BY <2>1, <2>2, <2>3
<1>8. Holds(d, 1, a \o b \o c) /\ Holds(d, 1 + Len(a \o b \o c), u)
  BY <1>3, <1>4, <1>6, <1>7, HoldsParts
<1>9. Holds(d, 1, a \o b) /\ Holds(d, 1 + Len(a \o b), c)
  BY <1>2, <1>6, <1>7, <1>8, HoldsParts
<1>10. Holds(d, 1, a) /\ Holds(d, 1 + Len(a), b)
  BY <1>1, <1>6, <1>9, HoldsParts
<1>11. lp = Len(a) + 1
  BY <1>1, <1>10, LpStartNext
<1> HIDE DEF lp
<1>12. tt = lp + Len(b) /\ lp \in Nat \ {0}
  <2>1. lp \in Nat \ {0} /\ lp = 1 + Len(a)
    BY <1>6, <1>11
  <2>2. Holds(d, lp, b)
    BY <1>10, <2>1
  <2> QED BY <1>1, <2>1, <2>2, TtypeNext
<1> HIDE DEF tt
<1>13. tt = Len(a) + Len(b) + 1 /\ tt \in Nat \ {0} /\ tt + 1 \in Nat \ {0}
  BY <1>6, <1>11, <1>12
<1>14. d[tt] = f.enc
  <2>1. Holds(d, tt, c) /\ Len(c) = 1 /\ c[1] = f.enc
    BY <1>2, <1>6, <1>7, <1>9, <1>13 DEF c
  <2>2. d[tt + 1 - 1] = c[1] /\ tt + 1 - 1 = tt
    BY <2>1, <1>13 DEF Holds
  <2> QED BY <2>1, <2>2
<1>15. length = [val |-> n, next |-> (tt + 1) + Len(u)]
  <2>1. Holds(d, tt + 1, u)
    BY <1>6, <1>7, <1>8, <1>13
  <2> QED BY <1>1, <1>13, <2>1, ULEBRead DEF u
<1>16. length.next = f.begin[1] /\ length.val = n
  BY <1>3, <1>6, <1>7, <1>13, <1>15
<1>17. length.next + length.val = TableEnd(f)
  BY <1>5, <1>16 DEF n
<1> QED
  BY <1>14, <1>16, <1>17, Zenon DEF d, lp, tt

-----------------------------------------------------------------------------
(* The entries of the call-site table *)

LEMMA EncodedBytes ==
  ASSUME NEW n \in Value, NEW enc \in FixedFormats \cup {DW_EH_PE_uleb128}
  PROVE  Encoded(enc, n) \in Seq(Byte)
<1>1. CASE enc = DW_EH_PE_uleb128
  BY <1>1, ULEBBytes DEF Encoded
<1>2. CASE enc # DW_EH_PE_uleb128
  <2>1. Size(enc) \in Nat
    BY <1>2, SizeFact
  <2> QED BY <1>2, <2>1, LittleBytes DEF Encoded
<1> QED
  BY <1>1, <1>2

LEMMA EntryBytes ==
  ASSUME NEW f \in Functions, NEW i \in 1 .. Len(f.table)
  PROVE  /\ f.table[i].start \in Value /\ f.table[i].length \in Value
         /\ f.table[i].pad \in Value /\ f.table[i].action \in Value
         /\ Encoded(f.enc, f.table[i].start) \in Seq(Byte)
         /\ Encoded(f.enc, f.table[i].length) \in Seq(Byte)
         /\ Encoded(f.enc, f.table[i].pad) \in Seq(Byte)
         /\ ULEB(f.table[i].action) \in Seq(Byte) /\ Len(ULEB(f.table[i].action)) >= 1
<1>1. f.table[i] \in CallSite
  BY FunctionFacts
<1>2. /\ f.table[i].start \in Value /\ f.table[i].length \in Value
      /\ f.table[i].pad \in Value /\ f.table[i].action \in Value
  BY <1>1 DEF CallSite
<1>3. Len(ULEB(f.table[i].action)) >= 1 /\ ULEB(f.table[i].action) \in Seq(Byte)
  <2>1. ULEB(f.table[i].action) \in Seq(Byte) /\ Len(ULEB(f.table[i].action)) \in 1 .. 5
    BY <1>2, ULEBBytes, Zenon
  <2>2. \A v \in 1 .. 5 : v >= 1
    OBVIOUS
  <2> QED BY <2>1, <2>2, Zenon
<1> QED
  BY <1>2, <1>3, EncodedBytes, FunctionFacts

\* entries do not overlap
LEMMA BeginFacts ==
  ASSUME NEW f \in Functions, NEW i \in 1 .. Len(f.table)
  PROVE  /\ i + 1 \in 1 .. Len(f.table) + 1 /\ f.begin[i] \in Nat \ {0} /\ f.begin[i + 1] \in Nat
         /\ Len(Entry(f, i)) \in Nat /\ Len(Entry(f, i)) >= 1
         /\ f.begin[i + 1] = f.begin[i] + Len(Entry(f, i))
         /\ Holds(f.lsda, f.begin[i], Entry(f, i))
<1>1. Len(f.table) \in Nat /\ f.table # <<>>
  BY FunctionFacts
<1>2. ASSUME NEW j \in 1 .. Len(f.table)
      PROVE  Len(Entry(f, j)) \in Nat /\ Len(Entry(f, j)) >= 1
  <2> DEFINE a == Encoded(f.enc, f.table[j].start)
             b == Encoded(f.enc, f.table[j].length)
             c == Encoded(f.enc, f.table[j].pad)
             u == ULEB(f.table[j].action)
  <2>1. a \in Seq(Byte) /\ b \in Seq(Byte) /\ c \in Seq(Byte) /\ u \in Seq(Byte) /\ Len(u) >= 1
    BY EntryBytes
  <2>2. Entry(f, j) = a \o b \o c \o u
    BY DEF Entry
  <2> HIDE DEF a, b, c, u
  <2>3. a \o b \o c \in Seq(Byte)
    BY <2>1, ConcatBytes
  <2>4. Len(a \o b \o c \o u) = Len(a \o b \o c) + Len(u)
    BY <2>1, <2>3, ConcatBytes
  <2>5. Len(a \o b \o c) \in Nat /\ Len(u) \in Nat
    BY <2>1, <2>3
  <2> QED BY <2>1, <2>2, <2>4, <2>5
<1>3. /\ f.begin \in [1 .. Len(f.table) + 1 -> Nat] /\ Lsda(f)
  BY <1>1, DataFacts
<1>4. \A j \in 1 .. Len(f.table) : /\ Holds(f.lsda, f.begin[j], Entry(f, j))
                                   /\ f.begin[j + 1] = f.begin[j] + Len(Entry(f, j))
  BY <1>3 DEF Lsda
<1>5. f.begin[i] \in Nat \ {0}
  <2>1. f.begin[i] \in Nat
    BY <1>1, <1>3
  <2>2. CASE i = 1
    <3>1. f.begin[1] = Len(Header(f)) + 1
      BY <1>3 DEF Lsda
    <3>2. f.begin[1] # 0
      <4>1. f.lpStart \in Seq(Byte) \ {<<>>} /\ f.ttype \in Seq(Byte) /\ f.enc \in Byte
        BY <1>1, DataFacts, FunctionFacts
           DEF FixedFormats, Byte, DW_EH_PE_uleb128, DW_EH_PE_absptr, DW_EH_PE_udata2, DW_EH_PE_udata4,
               DW_EH_PE_udata8, DW_EH_PE_sdata2, DW_EH_PE_sdata4, DW_EH_PE_sdata8
      <4>2. ULEB(TableEnd(f) - f.begin[1]) \in Seq(Byte)
        BY <1>1, DataFacts, ULEBBytes
      <4>3. Header(f) \in Seq(Byte)
        BY <4>1, <4>2 DEF Header
      <4> QED BY <3>1, <4>3
    <3> QED BY <2>1, <2>2, <3>2
  <2>3. CASE i # 1
    <3>1. i - 1 \in 1 .. Len(f.table) /\ (i - 1) + 1 = i /\ i - 1 \in 1 .. Len(f.table) + 1
      BY <1>1, <2>3
    <3>2. f.begin[i] = f.begin[i - 1] + Len(Entry(f, i - 1)) /\ f.begin[i - 1] \in Nat
      BY <1>3, <1>4, <3>1
    <3> QED BY <1>2, <2>1, <3>1, <3>2
  <2> QED BY <2>2, <2>3
<1>6. i + 1 \in 1 .. Len(f.table) + 1 /\ f.begin[i + 1] \in Nat
  BY <1>1, <1>3
<1> QED
  BY <1>2, <1>4, <1>5, <1>6

\* what an iteration of the walk reads at the beginning of entry i, and where it ends
LEMMA EntryRead ==
  ASSUME NEW f \in Functions, NEW i \in 1 .. Len(f.table), NEW base
  PROVE  LET start == readEncodedPointer(f.lsda, f.begin[i], f.enc, base)
             length == readEncodedPointer(f.lsda, start.next, f.enc, base)
             pad == readEncodedPointer(f.lsda, length.next, f.enc, base)
         IN  /\ start.val = f.table[i].start /\ length.val = f.table[i].length
             /\ pad.val = f.table[i].pad
             /\ readULEB128(f.lsda, pad.next).next = f.begin[i + 1]
<1> DEFINE d == f.lsda
           e == f.table[i]
           q == f.begin[i]
           a == Encoded(f.enc, e.start)
           b == Encoded(f.enc, e.length)
           c == Encoded(f.enc, e.pad)
           u == ULEB(e.action)
           start == readEncodedPointer(d, q, f.enc, base)
           length == readEncodedPointer(d, start.next, f.enc, base)
           pad == readEncodedPointer(d, length.next, f.enc, base)
<1>1. a \in Seq(Byte) /\ b \in Seq(Byte) /\ c \in Seq(Byte) /\ u \in Seq(Byte)
  BY EntryBytes
<1>2. d \in Seq(Byte) /\ f.enc \in FixedFormats \cup {DW_EH_PE_uleb128}
  BY FunctionFacts
<1>3. /\ e.start \in Value /\ e.length \in Value /\ e.pad \in Value /\ e.action \in Value
      /\ Fits(f.enc, e.start) /\ Fits(f.enc, e.length) /\ Fits(f.enc, e.pad)
  BY EntryBytes, FunctionFacts
<1>4. /\ q \in Nat \ {0} /\ Holds(d, q, a \o b \o c \o u)
      /\ f.begin[i + 1] = q + Len(a \o b \o c \o u)
  BY BeginFacts DEF Entry
<1>5. ASSUME NEW r \in Nat \ {0}, Holds(d, r, a)
      PROVE  readEncodedPointer(d, r, f.enc, base) = [val |-> e.start, next |-> r + Len(a)]
  BY <1>2, <1>3, <1>5, PointerRead
<1>6. ASSUME NEW r \in Nat \ {0}, Holds(d, r, b)
      PROVE  readEncodedPointer(d, r, f.enc, base) = [val |-> e.length, next |-> r + Len(b)]
  BY <1>2, <1>3, <1>6, PointerRead
<1>7. ASSUME NEW r \in Nat \ {0}, Holds(d, r, c)
      PROVE  readEncodedPointer(d, r, f.enc, base) = [val |-> e.pad, next |-> r + Len(c)]
  BY <1>2, <1>3, <1>7, PointerRead
<1>8. ASSUME NEW r \in Nat \ {0}, Holds(d, r, u)
      PROVE  readULEB128(d, r).next = r + Len(u)
  BY <1>2, <1>3, <1>8, ULEBRead
<1> HIDE DEF a, b, c, d, u, e, q
<1>9. Len(a) \in Nat /\ Len(b) \in Nat /\ Len(c) \in Nat /\ Len(u) \in Nat /\ Len(d) \in Nat
  BY <1>1, <1>2
<1>10. /\ a \o b \in Seq(Byte) /\ Len(a \o b) = Len(a) + Len(b)
       /\ a \o b \o c \in Seq(Byte) /\ Len(a \o b \o c) = Len(a) + Len(b) + Len(c)
       /\ Len(a \o b \o c \o u) = Len(a) + Len(b) + Len(c) + Len(u)
  <2>1. a \o b \in Seq(Byte) /\ Len(a \o b) = Len(a) + Len(b)
    BY <1>1, ConcatBytes
  <2>2. a \o b \o c \in Seq(Byte) /\ Len(a \o b \o c) = Len(a) + Len(b) + Len(c)
    BY <1>1, <2>1, ConcatBytes
  <2>3. Len(a \o b \o c \o u) = Len(a) + Len(b) + Len(c) + Len(u)
    BY <1>1, <2>2, ConcatBytes
  <2> QED BY <2>1, <2>2, <2>3
<1>11. Holds(d, q, a \o b \o c) /\ Holds(d, q + Len(a \o b \o c), u)
  BY <1>1, <1>4, <1>9, <1>10, HoldsParts
<1>12. Holds(d, q, a \o b) /\ Holds(d, q + Len(a \o b), c)
  BY <1>1, <1>4, <1>9, <1>10, <1>11, HoldsParts
<1>13. Holds(d, q, a) /\ Holds(d, q + Len(a), b)
  BY <1>1, <1>4, <1>9, <1>12, HoldsParts
<1>14. /\ q + Len(a) \in Nat \ {0} /\ (q + Len(a)) + Len(b) = q + Len(a \o b)
       /\ q + Len(a \o b) \in Nat \ {0} /\ (q + Len(a \o b)) + Len(c) = q + Len(a \o b \o c)
       /\ q + Len(a \o b \o c) \in Nat \ {0}
       /\ (q + Len(a \o b \o c)) + Len(u) = q + Len(a \o b \o c \o u)
  BY <1>4, <1>9, <1>10
<1>15. start = [val |-> e.start, next |-> q + Len(a)]
  BY <1>4, <1>5, <1>13, Zenon
<1>16. start.next = q + Len(a) /\ start.val = e.start
  BY <1>15
<1> HIDE DEF start
<1>17. length = [val |-> e.length, next |-> q + Len(a \o b)]
  BY <1>6, <1>13, <1>14, <1>16, Zenon
<1>18. length.next = q + Len(a \o b) /\ length.val = e.length
  BY <1>17
<1> HIDE DEF length
<1>19. pad = [val |-> e.pad, next |-> q + Len(a \o b \o c)]
  BY <1>7, <1>12, <1>14, <1>18, Zenon
<1>20. pad.next = q + Len(a \o b \o c) /\ pad.val = e.pad
  BY <1>19
<1> HIDE DEF pad
<1>21. readULEB128(d, pad.next).next = f.begin[i + 1]
  BY <1>4, <1>8, <1>11, <1>14, <1>20, Zenon
<1> QED
  BY <1>16, <1>18, <1>20, <1>21, Zenon DEF start, length, pad, d, e, q

LEMMA LeastOf ==
  ASSUME NEW T, T \subseteq Nat, T # {}
  PROVE  \E x \in T : \A y \in T : x <= y
<1>1. IsWellFoundedOn(OpToRel(<, Nat), Nat)
  BY NatLessThanWellFounded
<1>2. PICK x \in T : \A y \in T : ~ (<<y, x>> \in OpToRel(<, Nat))
  BY <1>1, WFMin
<1>3. ASSUME NEW y \in T PROVE x <= y
  <2>1. ~ (<<y, x>> \in {ss \in Nat \X Nat : ss[1] < ss[2]})
    BY <1>2 DEF OpToRel
  <2> QED BY <2>1
<1> QED
  BY <1>3

\* every entry begins in front of the end of the table
LEMMA BeginBelowEnd ==
  ASSUME NEW f \in Functions, NEW i \in 1 .. Len(f.table)
  PROVE  f.begin[i] < TableEnd(f)
<1> DEFINE n == Len(f.table)
           T == {k \in Nat : k < n /\ ~ (f.begin[n - k] < TableEnd(f))}
<1>1. n \in Nat
  BY FunctionFacts
<1>2. ASSUME NEW j \in 1 .. n PROVE f.begin[j] \in Nat /\ f.begin[j + 1] \in Nat /\ f.begin[j] < f.begin[j + 1]
  <2>1. /\ f.begin[j] \in Nat /\ f.begin[j + 1] \in Nat
        /\ Len(Entry(f, j)) \in Nat /\ Len(Entry(f, j)) >= 1
        /\ f.begin[j + 1] = f.begin[j] + Len(Entry(f, j))
    BY BeginFacts
  <2> QED BY <2>1
<1>3. TableEnd(f) = f.begin[n + 1]
  BY DEF TableEnd
<1>4. T = {}
  <2> SUFFICES ASSUME T # {} PROVE FALSE
    OBVIOUS
  <2>1. PICK k \in T : \A y \in T : k <= y
    BY LeastOf
  <2>2. k \in Nat /\ k < n /\ ~ (f.begin[n - k] < TableEnd(f)) /\ n - k \in 1 .. n
    BY <1>1
  <2>3. f.begin[n - k] < f.begin[(n - k) + 1] /\ f.begin[n - k] \in Nat /\ f.begin[(n - k) + 1] \in Nat
    BY <1>2, <2>2
  <2>4. CASE k = 0
    BY <1>1, <1>3, <2>2, <2>3, <2>4
  <2>5. CASE k # 0
    <3>1. k - 1 \in Nat /\ k - 1 < n /\ n - (k - 1) = (n - k) + 1 /\ ~ (k <= k - 1)
      BY <1>1, <2>2, <2>5
    <3>2. k - 1 \notin T
      BY <2>1, <3>1
    <3>3. f.begin[(n - k) + 1] < TableEnd(f)
      BY <3>1, <3>2
    <3>4. TableEnd(f) \in Nat
      BY <1>1, <1>2, <1>3, <2>2
    <3> QED BY <2>2, <2>3, <3>3, <3>4
  <2> QED BY <2>4, <2>5
<1>5. n - i \in Nat /\ n - i < n /\ n - (n - i) = i
  BY <1>1
<1> QED
  BY <1>4, <1>5

-----------------------------------------------------------------------------
(* The inductive invariant: beside the property itself, that no frame       *)
(* between the last cleanup and the frame the unwinder is at asks for one,  *)
(* that the address the personality takes from the frame is that of the     *)
(* call in progress, that no entry the walk has passed asks for a cleanup   *)
(* there, and that the landing pad it goes to is the one the table asks for.*)

From == After(Len(ran))
\* the call that the frame the unwinder is at has not returned from
Here == CallIn(From, frame)
Reached == frame \in From.frame .. Len(stack) /\ NoneBefore(From, frame)
Passed(i) == \A j \in 1 .. i - 1 : ~ Asks(fn, j, Here)
Walking ==
  /\ fn.table # <<>> /\ sites = [enc |-> fn.enc, end |-> TableEnd(fn)]
  /\ \E i \in 1 .. Len(fn.table) + 1 : p = fn.begin[i] /\ Passed(i)
UnwindInv ==
  /\ stack \in Stacks /\ frame \in 1 .. Len(stack) /\ ran \in Seq((Nat \ {0}) \X Nat)
  /\ at \in {"search", "uncaught", "cleanup", "walk", "pad", "caught"}
  /\ CleanupsInOrder
  /\ at \in {"cleanup", "walk", "pad"} => Reached
  /\ at \in {"cleanup", "walk"} => ip = Here + 1
  /\ at = "walk" => Walking
  /\ at = "pad" => ip = PadFor(fn, Here) /\ ip # 0

-----------------------------------------------------------------------------
(* What the tables ask for *)

LEMMA PadNone ==
  ASSUME NEW f, NEW off, \A i \in 1 .. Len(f.table) : ~ Asks(f, i, off)
  PROVE  PadFor(f, off) = 0
  BY DEF PadFor

LEMMA PadFirst ==
  ASSUME NEW f, NEW off, Len(f.table) \in Nat, NEW i \in 1 .. Len(f.table), Asks(f, i, off),
         \A j \in 1 .. i - 1 : ~ Asks(f, j, off)
  PROVE  PadFor(f, off) = f.table[i].pad
<1> DEFINE S == {j \in 1 .. Len(f.table) : Asks(f, j, off)}
<1>1. i \in S /\ S # {}
  OBVIOUS
<1>2. ASSUME NEW j \in S PROVE i <= j
  OBVIOUS
<1>3. ASSUME NEW x \in S, \A j \in S : x <= j PROVE x = i
  BY <1>1, <1>2, <1>3
<1>4. (CHOOSE x \in S : \A j \in S : x <= j) = i
  <2> HIDE DEF S
  <2> QED BY <1>1, <1>2, <1>3
<1> QED
  BY <1>1, <1>4 DEF PadFor

LEMMA PadIn ==
  ASSUME NEW f, NEW off, Len(f.table) \in Nat, PadFor(f, off) # 0
  PROVE  \E i \in 1 .. Len(f.table) : f.table[i].pad = PadFor(f, off) /\ f.table[i].pad # 0
<1> DEFINE S == {j \in 1 .. Len(f.table) : Asks(f, j, off)}
<1>1. S # {} /\ S \subseteq Nat
  BY PadNone
<1>2. PICK i \in S : \A j \in S : i <= j
  BY <1>1, LeastOf
<1>3. \A j \in 1 .. i - 1 : ~ Asks(f, j, off)
  BY <1>2
<1>4. PadFor(f, off) = f.table[i].pad
  BY <1>2, <1>3, PadFirst
<1> QED
  BY <1>2, <1>4 DEF Asks

LEMMA StackFacts ==
  ASSUME stack \in Stacks
  PROVE  /\ Len(stack) \in Nat \ {0}
         /\ \A n \in 1 .. Len(stack) : stack[n].fn \in Functions /\ stack[n].off \in Offsets(stack[n].fn)
  BY StacksAssumption

LEMMA FromFacts ==
  ASSUME UnwindInv
  PROVE  /\ From.frame \in 1 .. Len(stack) /\ From.off \in Offsets(stack[From.frame].fn)
         /\ Len(ran) \in Nat
<1>1. /\ Len(stack) \in Nat \ {0}
      /\ \A n \in 1 .. Len(stack) : stack[n].fn \in Functions /\ stack[n].off \in Offsets(stack[n].fn)
  BY StackFacts DEF UnwindInv
<1>2. Len(ran) \in Nat
  BY DEF UnwindInv
<1>3. CASE Len(ran) = 0
  <2>1. From.frame = 1 /\ From.off = stack[1].off
    BY <1>3 DEF From, After
  <2> QED BY <1>1, <1>2, <2>1
<1>4. CASE Len(ran) # 0
  <2> DEFINE k == Len(ran)
             m == ran[k][1]
             pad == ran[k][2]
             f == stack[m].fn
  <2>1. k \in 1 .. Len(ran) /\ ran[k] \in (Nat \ {0}) \X Nat
    BY <1>2, <1>4 DEF UnwindInv
  <2>2. From.frame = m /\ From.off = f.resume[pad]
    BY <1>4 DEF From, After
  <2>3. /\ m \in After(k - 1).frame .. Len(stack)
        /\ pad = Wanted(After(k - 1), m) /\ pad # 0
    BY <2>1 DEF UnwindInv, CleanupsInOrder
  <2>4. m \in 1 .. Len(stack)
    <3>1. m \in Nat \ {0}
      BY <2>1
    <3>2. m <= Len(stack)
      BY <2>3, <3>1
    <3> QED BY <1>1, <3>1, <3>2
  <2>5. PICK i \in 1 .. Len(f.table) : f.table[i].pad = pad
    <3>1. Len(f.table) \in Nat
      <4>1. f \in Functions
        BY <1>1, <2>4
      <4> HIDE DEF f
      <4>2. f.table \in Seq(CallSite)
        BY <4>1, FunctionFacts
      <4> QED BY <4>2
    <3>2. pad = PadFor(f, CallIn(After(k - 1), m))
      BY <2>3 DEF Wanted
    <3> QED BY <2>3, <3>1, <3>2, PadIn
  <2>6. f.resume[pad] \in Offsets(f)
    BY <1>1, <2>3, <2>4, <2>5, FunctionFacts
  <2> QED BY <1>2, <2>2, <2>4, <2>6
<1> QED
  BY <1>3, <1>4

LEMMA HereFacts ==
  ASSUME UnwindInv, at \in {"cleanup", "walk", "pad"}
  PROVE  fn \in Functions /\ Here \in Offsets(fn) /\ Here \in Nat
<1>1. /\ Len(stack) \in Nat \ {0}
      /\ \A n \in 1 .. Len(stack) : stack[n].fn \in Functions /\ stack[n].off \in Offsets(stack[n].fn)
  BY StackFacts DEF UnwindInv
<1>2. From.off \in Offsets(stack[From.frame].fn)
  BY FromFacts
<1>3. frame \in 1 .. Len(stack)
  BY DEF UnwindInv
<1>4. fn \in Functions
  BY <1>1, <1>3 DEF fn
<1>5. Here \in Offsets(fn)
  BY <1>1, <1>2, <1>3 DEF Here, CallIn, fn
<1>6. Here \in Nat
  <2>1. 2^PtrBits \in Nat /\ fn.start \in Nat
    BY <1>4, Powers, FunctionFacts
  <2> QED BY <1>5, <2>1 DEF Offsets
<1> QED
  BY <1>4, <1>5, <1>6

\* the address of the call, not the one it returns to
LEMMA PcOffsetHere ==
  ASSUME NEW o \in Offsets(fn), fn \in Functions, ip = o + 1
  PROVE  pcOffset = o
<1> DEFINE M == 2^PtrBits
           s == fn.start
<1>1. M \in Nat /\ M >= 2^16 /\ s \in Nat
  BY Powers, FunctionFacts
<1>2. o \in 0 .. M - 2 - s
  BY DEF Offsets
<1>3. pcOffset = ((((s + ip) - 1) % M) - s) % M
  BY DEF pcOffset, Sub, Trunc
<1> HIDE DEF M, s
<1>4. (s + ip) - 1 = s + o /\ s + o \in 0 .. M - 1 /\ (s + o) - s = o /\ o \in 0 .. M - 1 /\ s + o \in Nat /\ o \in Nat
  BY <1>1, <1>2
<1>5. (s + o) % M = s + o
  BY <1>1, <1>4, SMT
<1>6. o % M = o
  BY <1>1, <1>4, SMT
<1> QED
  BY <1>3, <1>4, <1>5, <1>6

LEMMA CoversHere ==
  ASSUME NEW o \in Nat, pcOffset = o, NEW start \in Value, NEW length \in Value
  PROVE  Covers(start, length) <=> o \in start .. start + length - 1
<1>1. start \in Nat /\ length \in Nat
  BY ValueFacts
<1>2. Add(PtrBits, start, length) = start + length
  <2> DEFINE M == 2^PtrBits
             h == 2^(IntBits - 1)
  <2>1. M \in Nat /\ h \in Nat /\ M >= 2 * h
    <3>1. M \in Nat /\ h \in Nat /\ M >= 2^IntBits /\ 2^IntBits = 2 * h
      BY Powers
    <3> HIDE DEF M, h
    <3> QED BY <3>1
  <2>2. start < h /\ length < h
    BY ValueFacts
  <2>3. start + length \in 0 .. M - 1
    <3> HIDE DEF M, h
    <3> QED BY <1>1, <2>1, <2>2
  <2>4. Add(PtrBits, start, length) = (start + length) % M
    BY DEF Add, Trunc
  <2> HIDE DEF M, h
  <2>5. (start + length) % M = start + length
    BY <2>1, <2>3, ModSmall
  <2> QED BY <2>4, <2>5, Zenon
<1> QED
  BY <1>1, <1>2 DEF Covers

-----------------------------------------------------------------------------
(* Each action preserves the invariant *)

\* the cleanups that ran, and that none is left
Links ==
  \A k \in 1 .. Len(ran) :
    /\ ran[k][1] \in After(k - 1).frame .. Len(stack)
    /\ ran[k][2] = Wanted(After(k - 1), ran[k][1]) /\ ran[k][2] # 0
    /\ NoneBefore(After(k - 1), ran[k][1])
NoneLeft == NoneBefore(From, Len(stack) + 1)

LEMMA OrderParts ==
  /\ CleanupsInOrder <=> /\ Links /\ (at = "caught" => NoneLeft)
                         /\ (at \in {"search", "uncaught"} => ran = <<>>)
  /\ CleanupsInOrder' <=> /\ Links' /\ (at' = "caught" => NoneLeft')
                          /\ (at' \in {"search", "uncaught"} => ran' = <<>>)
  BY DEF CleanupsInOrder, Links, NoneLeft, From

\* what a step that runs no cleanup leaves as it is
LEMMA SameRan ==
  ASSUME stack' = stack, ran' = ran
  PROVE  Links' = Links /\ NoneLeft' = NoneLeft /\ From' = From
<1>1. From' = From
  BY DEF From, After
<1>2. Links' = Links
  BY DEF Links, After, Wanted, CallIn, NoneBefore
<1>3. NoneLeft' = NoneLeft
  BY <1>1 DEF NoneLeft, NoneBefore, Wanted, CallIn
<1> QED
  BY <1>1, <1>2, <1>3

LEMMA SameFrame ==
  ASSUME stack' = stack, ran' = ran, frame' = frame
  PROVE  Reached' = Reached /\ Here' = Here /\ fn' = fn
<1>1. From' = From
  BY SameRan
<1> QED
  BY <1>1 DEF Reached, Here, fn, NoneBefore, Wanted, CallIn

LEMMA InitUnwind == Init => UnwindInv
<1> SUFFICES ASSUME Init PROVE UnwindInv
  OBVIOUS
<1>1. stack \in Stacks /\ Len(stack) \in Nat \ {0}
  BY StackFacts DEF Init
<1>2. Links
  BY DEF Init, Links
<1>3. CleanupsInOrder
  BY <1>2, OrderParts DEF Init
<1> QED
  BY <1>1, <1>3 DEF Init, UnwindInv

LEMMA SearchUnwind ==
  ASSUME UnwindInv, SearchPhase
  PROVE  UnwindInv'
<1>1. stack' = stack /\ ran' = ran /\ at = "search" /\ ran = <<>>
  BY DEF SearchPhase, UnwindInv, CleanupsInOrder
<1>2. Links' /\ From' = From
  BY <1>1, SameRan, OrderParts DEF UnwindInv
<1>3. Len(stack) \in Nat \ {0} /\ frame \in 1 .. Len(stack)
  BY StackFacts DEF UnwindInv
<1>4. CASE frame < Len(stack)
  <2>1. frame' = frame + 1 /\ at' = "search"
    BY <1>1, <1>4 DEF SearchPhase
  <2>2. frame' \in 1 .. Len(stack)
    BY <1>3, <1>4, <2>1
  <2>3. CleanupsInOrder'
    BY <1>1, <1>2, <2>1, OrderParts
  <2> QED BY <1>1, <2>1, <2>2, <2>3 DEF UnwindInv
<1>5. CASE frame' = 1 /\ at' = "cleanup" /\ ip' = stack[1].off + 1
  <2>1. From = [frame |-> 1, off |-> stack[1].off]
    BY <1>1 DEF From, After
  <2>2. Reached'
    BY <1>1, <1>2, <1>3, <1>5, <2>1 DEF Reached, NoneBefore
  <2>3. Here' = stack[1].off
    BY <1>1, <1>2, <1>5, <2>1 DEF Here, CallIn
  <2>4. CleanupsInOrder'
    BY <1>2, <1>5, OrderParts
  <2> QED BY <1>1, <1>3, <1>5, <2>2, <2>3, <2>4 DEF UnwindInv
<1>6. CASE at' = "uncaught" /\ UNCHANGED <<frame, ip>>
  <2>1. CleanupsInOrder'
    BY <1>1, <1>2, <1>6, OrderParts
  <2> QED BY <1>1, <1>3, <1>6, <2>1 DEF UnwindInv
<1> QED
  BY <1>4, <1>5, <1>6 DEF SearchPhase

LEMMA ContinueUnwind ==
  ASSUME UnwindInv, at \in {"cleanup", "walk"}, PadFor(fn, Here) = 0, continueUnwind
  PROVE  UnwindInv'
<1>1. stack' = stack /\ ran' = ran
  BY DEF continueUnwind
<1>2. Links' /\ From' = From /\ NoneLeft' = NoneLeft
  BY <1>1, SameRan, OrderParts DEF UnwindInv
<1>3. Len(stack) \in Nat \ {0} /\ frame \in 1 .. Len(stack) /\ From.frame \in 1 .. Len(stack)
  BY StackFacts, FromFacts DEF UnwindInv
<1>4. frame \in From.frame .. Len(stack) /\ NoneBefore(From, frame)
  BY DEF UnwindInv, Reached
<1>5. ASSUME NEW m \in From.frame .. frame PROVE Wanted(From, m) = 0
  <2>1. CASE m = frame
    BY <2>1 DEF Wanted, Here, fn
  <2>2. CASE m # frame
    <3>1. m \in From.frame .. frame - 1
      BY <1>3, <2>2
    <3> QED BY <1>4, <3>1 DEF NoneBefore
  <2> QED BY <2>1, <2>2
<1>6. CASE frame < Len(stack)
  <2>1. frame' = frame + 1 /\ ip' = stack[frame + 1].off + 1 /\ at' = "cleanup"
    BY <1>6 DEF continueUnwind, OuterFrame
  <2>2. frame + 1 \in From.frame .. Len(stack) /\ frame + 1 # From.frame
        /\ frame + 1 \in 1 .. Len(stack)
    BY <1>3, <1>4, <1>6
  <2>3. NoneBefore(From, frame + 1)
    <3>1. (frame + 1) - 1 = frame
      BY <1>3
    <3> QED BY <1>5, <3>1 DEF NoneBefore
  <2>4. Reached'
    BY <1>1, <1>2, <2>1, <2>2, <2>3 DEF Reached, NoneBefore, Wanted, CallIn
  <2>5. Here' = stack[frame + 1].off
    BY <1>1, <1>2, <2>1, <2>2 DEF Here, CallIn
  <2>6. CleanupsInOrder'
    BY <1>2, <2>1, OrderParts
  <2> QED BY <1>1, <2>1, <2>2, <2>4, <2>5, <2>6 DEF UnwindInv
<1>7. CASE ~ (frame < Len(stack))
  <2>1. frame' = frame /\ at' = "caught"
    BY <1>7 DEF continueUnwind, OuterFrame
  <2>2. (Len(stack) + 1) - 1 = frame
    BY <1>3, <1>7
  <2>3. NoneLeft
    BY <1>5, <2>2 DEF NoneLeft, NoneBefore
  <2>4. CleanupsInOrder'
    BY <1>2, <2>1, <2>3, OrderParts
  <2> QED BY <1>1, <1>3, <2>1, <2>4 DEF UnwindInv
<1> QED
  BY <1>6, <1>7

LEMMA NoLsdaUnwind ==
  ASSUME UnwindInv, NoLsda
  PROVE  UnwindInv'
<1>1. at = "cleanup" /\ fn.lsda = <<>> /\ continueUnwind
  BY DEF NoLsda, lsda
<1>2. fn \in Functions
  BY <1>1, HereFacts
<1>3. fn.table = <<>>
  BY <1>1, <1>2, FunctionFacts
<1>4. PadFor(fn, Here) = 0
  BY <1>3, PadNone
<1> QED
  BY <1>1, <1>4, ContinueUnwind

LEMMA HeaderUnwind ==
  ASSUME UnwindInv, ParseHeader
  PROVE  UnwindInv'
<1> DEFINE d == fn.lsda
           lp == IF d[1] # DW_EH_PE_omit THEN readEncodedPointer(d, 2, d[1], fn.start).next ELSE 2
           tt == IF d[lp] # DW_EH_PE_omit THEN readULEB128(d, lp + 1).next ELSE lp + 1
           length == readULEB128(d, tt + 1)
<1>1. /\ at = "cleanup" /\ d # <<>> /\ at' = "walk"
      /\ stack' = stack /\ frame' = frame /\ ip' = ip /\ ran' = ran
  BY DEF ParseHeader, lsda
<1>2. p' = length.next /\ sites' = [enc |-> d[tt], end |-> length.next + length.val]
  BY DEF ParseHeader, lsda, Pointer
<1>3. fn \in Functions /\ fn.table # <<>>
  BY <1>1, HereFacts, FunctionFacts
<1>4. d[tt] = fn.enc /\ length.next = fn.begin[1] /\ length.next + length.val = TableEnd(fn)
  BY <1>3, HeaderRead, Zenon
<1> HIDE DEF d, lp, tt, length
<1>5. Reached' = Reached /\ Here' = Here /\ fn' = fn
  BY <1>1, SameFrame
<1>6. Links' /\ Len(fn.table) \in Nat
  BY <1>1, <1>3, SameRan, OrderParts, FunctionFacts DEF UnwindInv
<1>7. Walking'
  <2>1. 1 \in 1 .. Len(fn.table) + 1 /\ p' = fn.begin[1] /\ \A j \in 1 .. 1 - 1 : FALSE
    BY <1>2, <1>4, <1>6
  <2>2. sites' = [enc |-> fn.enc, end |-> TableEnd(fn)]
    BY <1>2, <1>4
  <2>3. TableEnd(fn') = TableEnd(fn) /\ (TableEnd(fn))' = TableEnd(fn')
    BY <1>5 DEF TableEnd
  <2> QED BY <1>3, <1>5, <2>1, <2>2, <2>3 DEF Walking, Passed
<1>8. CleanupsInOrder'
  BY <1>1, <1>6, OrderParts
<1> QED
  BY <1>1, <1>5, <1>7, <1>8 DEF UnwindInv

\* an iteration reads the call site it is at, and goes to the next one or to its landing pad
LEMMA WalkReads ==
  ASSUME UnwindInv, Walk
  PROVE  \E i \in 1 .. Len(fn.table) :
           /\ p = fn.begin[i] /\ Passed(i)
           /\ IF fn.table[i].pad # 0 /\ Covers(fn.table[i].start, fn.table[i].length)
              THEN at' = "pad" /\ ip' = fn.table[i].pad
              ELSE p' = fn.begin[i + 1] /\ UNCHANGED <<at, ip, sites>>
<1>1. /\ at = "walk" /\ p < sites.end /\ stack' = stack /\ frame' = frame /\ ran' = ran
  BY DEF Walk
<1>2. fn \in Functions /\ Here \in Offsets(fn) /\ Here \in Nat
  BY <1>1, HereFacts
<1>3. /\ fn.table # <<>> /\ sites = [enc |-> fn.enc, end |-> TableEnd(fn)]
      /\ ip = Here + 1
  BY <1>1 DEF UnwindInv, Walking
<1>4. PICK i \in 1 .. Len(fn.table) + 1 : p = fn.begin[i] /\ Passed(i)
  BY <1>1 DEF UnwindInv, Walking
<1>5. Len(fn.table) \in Nat
  BY <1>2, FunctionFacts
<1>6. i \in 1 .. Len(fn.table) /\ i + 1 \in 1 .. Len(fn.table) + 1
  <2>1. sites.end = fn.begin[Len(fn.table) + 1]
    BY <1>3 DEF TableEnd
  <2>2. fn.begin[Len(fn.table) + 1] \in Nat
    BY <1>2, <1>3, <1>5, DataFacts
  <2>3. i # Len(fn.table) + 1
    BY <1>1, <1>4, <2>1, <2>2
  <2> QED BY <1>4, <1>5, <2>3
<1> DEFINE start == readEncodedPointer(fn.lsda, fn.begin[i], fn.enc, fn.start)
           length == readEncodedPointer(fn.lsda, start.next, fn.enc, fn.start)
           pad == readEncodedPointer(fn.lsda, length.next, fn.enc, fn.start)
           e == fn.table[i]
<1>7. /\ start.val = e.start /\ length.val = e.length /\ pad.val = e.pad
      /\ readULEB128(fn.lsda, pad.next).next = fn.begin[i + 1]
  BY <1>2, <1>6, EntryRead, Zenon
<1>8. sites.enc = fn.enc
  BY <1>3
<1>9. IF pad.val # 0 /\ Covers(start.val, length.val)
      THEN at' = "pad" /\ ip' = pad.val
      ELSE p' = readULEB128(fn.lsda, pad.next).next /\ UNCHANGED <<at, ip, sites>>
  BY <1>4, <1>8, Zenon DEF Walk, Pointer, lsda, AfterEntry
<1> HIDE DEF start, length, pad, e
<1>10. IF e.pad # 0 /\ Covers(e.start, e.length)
       THEN at' = "pad" /\ ip' = e.pad
       ELSE p' = fn.begin[i + 1] /\ UNCHANGED <<at, ip, sites>>
  BY <1>7, <1>9, Zenon
<1> QED
  BY <1>4, <1>6, <1>10, Zenon DEF e

LEMMA WalkUnwind ==
  ASSUME UnwindInv, Walk
  PROVE  UnwindInv'
<1>1. /\ at = "walk" /\ p < sites.end /\ stack' = stack /\ frame' = frame /\ ran' = ran
  BY DEF Walk
<1>2. fn \in Functions /\ Here \in Offsets(fn) /\ Here \in Nat
  BY <1>1, HereFacts
<1>3. /\ fn.table # <<>> /\ sites = [enc |-> fn.enc, end |-> TableEnd(fn)]
      /\ ip = Here + 1
  BY <1>1 DEF UnwindInv, Walking
<1>4. PICK i \in 1 .. Len(fn.table) :
        /\ p = fn.begin[i] /\ Passed(i)
        /\ IF fn.table[i].pad # 0 /\ Covers(fn.table[i].start, fn.table[i].length)
           THEN at' = "pad" /\ ip' = fn.table[i].pad
           ELSE p' = fn.begin[i + 1] /\ UNCHANGED <<at, ip, sites>>
  BY WalkReads
<1>5. Len(fn.table) \in Nat
  BY <1>2, FunctionFacts
<1>6. i + 1 \in 1 .. Len(fn.table) + 1
  BY <1>4, <1>5
<1> DEFINE e == fn.table[i]
<1>10. e.start \in Value /\ e.length \in Value
  BY <1>2, <1>6, EntryBytes
<1>11. pcOffset = Here
  BY <1>2, <1>3, PcOffsetHere
<1>12. Covers(e.start, e.length) <=> Here \in e.start .. e.start + e.length - 1
  BY <1>2, <1>10, <1>11, CoversHere
<1>13. Asks(fn, i, Here) <=> e.pad # 0 /\ Covers(e.start, e.length)
  BY <1>12 DEF Asks
<1>14. Reached' = Reached /\ Here' = Here /\ fn' = fn
  BY <1>1, SameFrame
<1>15. Links' /\ Reached
  BY <1>1, SameRan, OrderParts DEF UnwindInv
<1>16. CASE Asks(fn, i, Here)
  <2>1. at' = "pad" /\ ip' = e.pad /\ e.pad # 0
    BY <1>4, <1>13, <1>16
  <2>2. PadFor(fn, Here) = e.pad
    BY <1>4, <1>5, <1>6, <1>16, PadFirst DEF Passed
  <2>3. CleanupsInOrder'
    BY <1>15, <2>1, OrderParts
  <2>4. PadFor(fn, Here)' = PadFor(fn, Here)
    BY <1>14 DEF PadFor, Asks
  <2> QED BY <1>1, <1>14, <1>15, <2>1, <2>2, <2>3, <2>4 DEF UnwindInv
<1>17. CASE ~ Asks(fn, i, Here)
  <2>1. p' = fn.begin[i + 1] /\ at' = "walk" /\ ip' = ip /\ sites' = sites
    BY <1>1, <1>4, <1>13, <1>17
  <2>2. \A j \in 1 .. (i + 1) - 1 : ~ Asks(fn, j, Here)
    <3> TAKE j \in 1 .. (i + 1) - 1
    <3>1. j = i \/ j \in 1 .. i - 1
      BY <1>4, <1>5
    <3> QED BY <1>4, <1>17, <3>1 DEF Passed
  <2>3. (TableEnd(fn))' = TableEnd(fn)
    BY <1>14 DEF TableEnd
  <2>4. Walking'
    BY <1>3, <1>6, <1>14, <2>1, <2>2, <2>3 DEF Walking, Passed, Asks
  <2>5. CleanupsInOrder'
    BY <1>15, <2>1, OrderParts
  <2> QED BY <1>1, <1>3, <1>14, <1>15, <2>1, <2>4, <2>5 DEF UnwindInv
<1> QED
  BY <1>16, <1>17

LEMMA WalkEndsUnwind ==
  ASSUME UnwindInv, WalkEnds
  PROVE  UnwindInv'
<1>1. at = "walk" /\ p >= sites.end /\ continueUnwind
  BY DEF WalkEnds
<1>2. fn \in Functions
  BY <1>1, HereFacts
<1>3. fn.table # <<>> /\ sites = [enc |-> fn.enc, end |-> TableEnd(fn)]
  BY <1>1 DEF UnwindInv, Walking
<1>4. PICK i \in 1 .. Len(fn.table) + 1 : p = fn.begin[i] /\ Passed(i)
  BY <1>1 DEF UnwindInv, Walking
<1>5. Len(fn.table) \in Nat /\ sites.end = TableEnd(fn)
  BY <1>2, <1>3, FunctionFacts
<1>6. i = Len(fn.table) + 1
  <2> SUFFICES ASSUME i # Len(fn.table) + 1 PROVE FALSE
    OBVIOUS
  <2>1. i \in 1 .. Len(fn.table)
    BY <1>4, <1>5
  <2>2. fn.begin[i] < TableEnd(fn)
    BY <1>2, <2>1, BeginBelowEnd
  <2>3. fn.begin[i] \in Nat /\ TableEnd(fn) \in Nat
    BY <1>2, <1>3, <1>4, <1>5, DataFacts DEF TableEnd
  <2> QED BY <1>1, <1>4, <1>5, <2>2, <2>3
<1>7. (Len(fn.table) + 1) - 1 = Len(fn.table)
  BY <1>5
<1>8. PadFor(fn, Here) = 0
  BY <1>4, <1>6, <1>7, PadNone DEF Passed
<1> QED
  BY <1>1, <1>8, ContinueUnwind

LEMMA LandingUnwind ==
  ASSUME UnwindInv, LandingPad
  PROVE  UnwindInv'
<1> DEFINE n == Len(ran)
<1>1. /\ at = "pad" /\ ran' = Append(ran, <<frame, ip>>) /\ ip' = fn.resume[ip] + 1
      /\ at' = "cleanup" /\ stack' = stack /\ frame' = frame
  BY DEF LandingPad
<1>2. fn \in Functions /\ ip = PadFor(fn, Here) /\ ip # 0 /\ Reached
  BY <1>1, HereFacts DEF UnwindInv
<1>3. Len(stack) \in Nat \ {0} /\ frame \in 1 .. Len(stack) /\ ran \in Seq((Nat \ {0}) \X Nat) /\ n \in Nat
  BY StackFacts DEF UnwindInv
<1>4. ip \in Nat
  <2>1. Len(fn.table) \in Nat
    BY <1>2, FunctionFacts
  <2>2. PICK i \in 1 .. Len(fn.table) : fn.table[i].pad = ip
    BY <1>2, <2>1, PadIn
  <2> QED BY <1>2, <2>2, EntryBytes, ValueFacts
<1>5. <<frame, ip>> \in (Nat \ {0}) \X Nat
  BY <1>3, <1>4
<1>6. /\ ran' \in Seq((Nat \ {0}) \X Nat) /\ Len(ran') = n + 1 /\ ran'[n + 1] = <<frame, ip>>
      /\ \A k \in 1 .. n : ran'[k] = ran[k]
  BY <1>1, <1>3, <1>5
<1>7. ASSUME NEW k \in 0 .. n PROVE After(k)' = After(k)
  <2>1. CASE k = 0
    BY <1>1, <2>1 DEF After
  <2>2. CASE k # 0
    <3>1. k \in 1 .. n
      BY <1>3, <2>2
    <3>2. ran'[k] = ran[k]
      BY <1>6, <3>1
    <3> QED BY <1>1, <2>2, <3>2 DEF After
  <2> QED BY <2>1, <2>2
<1>8. Links'
  <2> SUFFICES ASSUME NEW k \in 1 .. n + 1
               PROVE  /\ ran'[k][1] \in After(k - 1)'.frame .. Len(stack)
                      /\ ran'[k][2] = Wanted(After(k - 1), ran[k][1])' /\ ran'[k][2] # 0
                      /\ NoneBefore(After(k - 1), ran[k][1])'
    BY <1>1, <1>6 DEF Links
  <2>1. k - 1 \in 0 .. n
    BY <1>3
  <2>2. After(k - 1)' = After(k - 1)
    BY <1>7, <2>1
  <2>3. CASE k \in 1 .. n
    <3>1. ran'[k] = ran[k]
      BY <1>6, <2>3
    <3>2. /\ ran[k][1] \in After(k - 1).frame .. Len(stack)
          /\ ran[k][2] = Wanted(After(k - 1), ran[k][1]) /\ ran[k][2] # 0
          /\ NoneBefore(After(k - 1), ran[k][1])
      BY <2>3 DEF UnwindInv, CleanupsInOrder
    <3>3. Wanted(After(k - 1), ran[k][1])' = Wanted(After(k - 1), ran[k][1])
      BY <1>1, <2>2, <3>1 DEF Wanted, CallIn
    <3>4. NoneBefore(After(k - 1), ran[k][1])' = NoneBefore(After(k - 1), ran[k][1])
      BY <1>1, <2>2, <3>1 DEF NoneBefore, Wanted, CallIn
    <3> QED BY <2>2, <3>1, <3>2, <3>3, <3>4
  <2>4. CASE k = n + 1
    <3>1. ran'[k] = <<frame, ip>> /\ k - 1 = n /\ After(k - 1)' = From
      BY <1>3, <1>6, <2>2, <2>4 DEF From
    <3>2. ran'[k][1] = frame /\ ran'[k][2] = ip
      BY <3>1
    <3>3. Wanted(After(k - 1), ran[k][1])' = PadFor(fn, Here)
      BY <1>1, <3>1, <3>2 DEF Wanted, CallIn, Here, fn
    <3>4. NoneBefore(After(k - 1), ran[k][1])' = NoneBefore(From, frame)
      BY <1>1, <3>1, <3>2 DEF NoneBefore, Wanted, CallIn
    <3> QED BY <1>2, <3>1, <3>2, <3>3, <3>4 DEF Reached
  <2>5. k \in 1 .. n \/ k = n + 1
    BY <1>3
  <2> QED BY <2>3, <2>4, <2>5, Zenon
<1>9. From' = [frame |-> frame, off |-> fn.resume[ip]]
  <2>1. n + 1 # 0
    BY <1>3
  <2> QED BY <1>1, <1>6, <2>1 DEF From, After, fn
<1>10. Reached'
  BY <1>1, <1>3, <1>9 DEF Reached, NoneBefore
<1>11. Here' = fn.resume[ip]
  BY <1>1, <1>9 DEF Here, CallIn
<1>12. CleanupsInOrder'
  BY <1>1, <1>8, OrderParts
<1> QED
  BY <1>1, <1>3, <1>6, <1>10, <1>11, <1>12 DEF UnwindInv

LEMMA StutterUnwind ==
  ASSUME UnwindInv, UNCHANGED vars
  PROVE  UnwindInv'
<1>1. /\ stack' = stack /\ frame' = frame /\ at' = at /\ p' = p /\ sites' = sites /\ ip' = ip /\ ran' = ran
  BY DEF vars
<1>2. Reached' = Reached /\ Here' = Here /\ fn' = fn
  BY <1>1, SameFrame
<1>3. CleanupsInOrder'
  BY <1>1, SameRan, OrderParts DEF UnwindInv
<1>4. Walking' = Walking
  BY <1>1, <1>2 DEF Walking, Passed, TableEnd, Asks
<1>5. PadFor(fn, Here)' = PadFor(fn, Here)
  BY <1>2 DEF PadFor, Asks
<1> QED
  BY <1>1, <1>2, <1>3, <1>4, <1>5 DEF UnwindInv

\* The invariant holds in every reachable state, for any functions, tables, encodings and
\* stacks of frames that the assumptions allow.
THEOREM Unwind == Spec => []UnwindInv
<1>1. UnwindInv /\ [Next]_vars => UnwindInv'
  <2> SUFFICES ASSUME UnwindInv, [Next]_vars PROVE UnwindInv'
    OBVIOUS
  <2>1. CASE SearchPhase
    BY <2>1, SearchUnwind
  <2>2. CASE NoLsda
    BY <2>2, NoLsdaUnwind
  <2>3. CASE ParseHeader
    BY <2>3, HeaderUnwind
  <2>4. CASE Walk
    BY <2>4, WalkUnwind
  <2>5. CASE WalkEnds
    BY <2>5, WalkEndsUnwind
  <2>6. CASE LandingPad
    BY <2>6, LandingUnwind
  <2>7. CASE UNCHANGED vars
    BY <2>7, StutterUnwind
  <2> QED BY <2>1, <2>2, <2>3, <2>4, <2>5, <2>6, <2>7 DEF Next
<1> QED
  BY InitUnwind, <1>1, PTL DEF Spec

(***************************************************************************)
(* For all functions the compiler can have laid out and all stacks of      *)
(* them, the cleanups that the personality has the unwinder run are those  *)
(* the call-site tables ask for, in order, each once, and all of them by   *)
(* the time the handler is reached (__gcc_personality_v0).                 *)
(***************************************************************************)
THEOREM CleanupsRunInOrder == Spec => []CleanupsInOrder
<1>1. UnwindInv => CleanupsInOrder
  BY DEF UnwindInv
<1> QED
  BY Unwind, <1>1, PTL

(***************************************************************************)
(* The loop over the call sites is at the beginning of an entry, or at the *)
(* end of the table, whatever the header's fields and the encoding, and    *)
(* however long the values (__gcc_personality_v0).                         *)
(***************************************************************************)
THEOREM WalkStaysInStep == Spec => []WalkInStep
<1>1. UnwindInv => WalkInStep
  BY DEF UnwindInv, Walking, WalkInStep
<1> QED
  BY Unwind, <1>1, PTL

\* What the loop over the call sites does in a step that stays in it.
Advances == at = "walk" /\ at' = "walk" => p < p' /\ p' <= sites.end /\ sites' = sites

(***************************************************************************)
(* Each iteration of the loop that does not leave it goes forward and not  *)
(* beyond the end of the table, so that the loop is left after finitely    *)
(* many of them, for every table: the safety half of UnwindingEnds         *)
(* (__gcc_personality_v0, lines 226 to 244).                               *)
(***************************************************************************)
THEOREM WalkAdvances == Spec => [][Advances]_vars
<1>1. UnwindInv /\ [Next]_vars => [Advances]_vars
  <2> SUFFICES ASSUME UnwindInv, Next, at = "walk", at' = "walk"
              PROVE  p < p' /\ p' <= sites.end /\ sites' = sites
    BY DEF Advances
  <2>1. Walk
    BY DEF Next, SearchPhase, NoLsda, ParseHeader, WalkEnds, LandingPad, continueUnwind, OuterFrame
  <2>2. PICK i \in 1 .. Len(fn.table) :
          /\ p = fn.begin[i] /\ Passed(i)
          /\ IF fn.table[i].pad # 0 /\ Covers(fn.table[i].start, fn.table[i].length)
             THEN at' = "pad" /\ ip' = fn.table[i].pad
             ELSE p' = fn.begin[i + 1] /\ UNCHANGED <<at, ip, sites>>
    BY <2>1, WalkReads
  <2>3. p' = fn.begin[i + 1] /\ sites' = sites
    BY <2>2
  <2>4. fn \in Functions
    BY HereFacts
  <2>5. sites.end = TableEnd(fn) /\ fn.table # <<>>
    BY DEF UnwindInv, Walking
  <2>6. /\ i + 1 \in 1 .. Len(fn.table) + 1 /\ fn.begin[i] \in Nat /\ fn.begin[i + 1] \in Nat
        /\ Len(Entry(fn, i)) \in Nat /\ Len(Entry(fn, i)) >= 1
        /\ fn.begin[i + 1] = fn.begin[i] + Len(Entry(fn, i))
    BY <2>2, <2>4, BeginFacts
  <2>7. Len(fn.table) \in Nat /\ TableEnd(fn) \in Nat
    <3>1. Len(fn.table) \in Nat
      BY <2>4, FunctionFacts
    <3>2. Len(fn.table) + 1 \in 1 .. Len(fn.table) + 1
      BY <3>1
    <3>3. fn.begin[Len(fn.table) + 1] \in Nat
      BY <2>4, <2>5, <3>2, DataFacts
    <3> QED BY <3>1, <3>3 DEF TableEnd
  <2>8. fn.begin[i + 1] <= TableEnd(fn)
    <3>1. CASE i + 1 = Len(fn.table) + 1
      BY <2>7, <3>1 DEF TableEnd
    <3>2. CASE i + 1 \in 1 .. Len(fn.table)
      <4>1. fn.begin[i + 1] < TableEnd(fn)
        BY <2>4, <3>2, BeginBelowEnd
      <4> QED BY <2>6, <2>7, <4>1
    <3> QED BY <2>6, <2>7, <3>1, <3>2
  <2>9. fn.begin[i] < fn.begin[i + 1]
    BY <2>6
  <2> QED BY <2>2, <2>3, <2>5, <2>8, <2>9
<1> QED
  BY Unwind, <1>1, PTL DEF Spec
=============================================================================
