------------------------------ MODULE MCAtomic ------------------------------
(***************************************************************************)
(* Two threads and three objects: a and b, of two bytes, hash to the same  *)
(* lock; c, of one byte, is accessed by an instruction.                    *)
(***************************************************************************)
EXTENDS Atomic

MCObjects == {"a", "b", "c"}
MCSize == [o \in MCObjects |-> IF o = "c" THEN 1 ELSE 2]
MCAddr == [o \in MCObjects |-> CASE o = "a" -> 17 [] o = "b" -> 49 [] o = "c" -> 64]
\* the n bytes of a number
Bytes(v, n) == [i \in 1 .. n |-> (v \div 2^(i - 1)) % 2]
C(fn, o, val, expected) ==
  [fn |-> fn, obj |-> o, val |-> Bytes(val, Size[o]), expected |-> Bytes(expected, Size[o])]
MCCalls ==
  {C("load_c", "a", 0, 0), C("store_c", "a", 3, 0), C("exchange_c", "a", 2, 0),
   C("compare_exchange_c", "a", 1, 2),
   C("load_n", "a", 0, 0), C("store_n", "a", 0, 0), C("exchange_n", "a", 3, 0),
   C("compare_exchange_n", "a", 3, 0),
   C("add", "a", 1, 0), C("sub", "a", 3, 0), C("and", "a", 1, 0), C("or", "a", 2, 0),
   C("xor", "a", 3, 0),
   C("load_c", "b", 0, 0), C("or", "b", 1, 0),
   C("compare_exchange_n", "c", 1, 0),
   C("flag_test_and_set", "c", 1, 0), C("flag_clear", "c", 0, 0)}
=============================================================================
