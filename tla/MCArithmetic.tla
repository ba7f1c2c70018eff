--------------------------- MODULE MCArithmetic ---------------------------
(***************************************************************************)
(* Formats with short significands and nearly the exponents of IEEE 754,   *)
(* so that the constants of the code keep their meaning, and operands at   *)
(* the edges of the formats.  Double has the 11 exponent bits of a double, *)
(* a divisor whose low half is not always 0 and the bound of 2^8 on the    *)
(* error of its reciprocal (2^(W-4-SB) in fp_div_impl.inc).                *)
(* All pairs of words where they are few, and otherwise the words at a     *)
(* distance of at most 1 from a power of two, and their complements.       *)
(***************************************************************************)
EXTENDS FpCalls

MCHalf == [prec |-> "half", w |-> 7, s |-> 1]
MCSingle == [prec |-> "single", w |-> 12, s |-> 3]
MCDouble == [prec |-> "double", w |-> 24, s |-> 12]
MCQuad == [prec |-> "quad", w |-> 28, s |-> 14]

MCFloatTypes ==
  {[ty |-> "binary", F |-> f] : f \in {Single, Double, Quad}}
    \cup {[ty |-> "unary", F |-> f] : f \in {Half, Single, Double, Quad}}
    \cup {[ty |-> "int", F |-> Single]}
    \cup {[ty |-> "complex", F |-> f] : f \in {Single, Double}}

Floats(f, exps, sigs) ==
  {sign * signBit(f) + e * implicitBit(f) + m : sign \in {0, 1}, e \in exps, m \in sigs}
\* the significands at a distance of at most 1 from a power of two, and their complements
Edges(f) == LET below == {2^i + d : i \in 0 .. f.s - 1, d \in {-1, 0, 1}}
            IN  {m \in below \cup {significandMask(f) - m : m \in below} :
                   m \in 0 .. significandMask(f)}
Few(f) == CASE f = Single -> 0 .. significandMask(f)
            [] f = Double -> {0, 1, 2, 1000, 2731, quietBit(f) - 1, quietBit(f), quietBit(f) + 1,
                              731, 3001, significandMask(f) - 1, significandMask(f)}
            [] f = Quad -> {0, 1, quietBit(f), significandMask(f) - 1, significandMask(f)}

\* exponents that cancel, align by the width, underflow and overflow
BinaryExps(f) == LET B == exponentBias(f)
                 IN  {0, 1, 2, f.s + 2, B - 1, B, B + f.s + 2, B + f.w, maxExponent(f) - 1,
                      maxExponent(f)}
\* exponents at the range of integers and of the narrower formats
UnaryExps(f) ==
  LET B == exponentBias(f)
      Bs == {exponentBias(g) : g \in {h \in {Half, Single, Double} : h.w < f.w}}
  IN  {0, 1, maxExponent(f) - 1, maxExponent(f)}
        \cup {e \in {B + j : j \in -2 .. 26} \cup {B + 1 - c + j : c \in Bs, j \in -14 .. 1}
                    \cup {B + c + j : c \in Bs, j \in -1 .. 1} :
                e \in 0 .. maxExponent(f)}
ComplexParts(f) ==
  {0, signBit(f), oneRep(f), signBit(f) + oneRep(f), 1, (maxExponent(f) - 1) * implicitBit(f),
   infRep(f), signBit(f) + infRep(f), qnanRep(f)}
FewParts(f) == {0, signBit(f) + oneRep(f), 1, infRep(f), qnanRep(f)}
Parts(f) == IF f = Single THEN ComplexParts(f) ELSE FewParts(f)

MCFirst(t) ==
  CASE t.ty = "binary" -> Floats(t.F, BinaryExps(t.F), Few(t.F))
    [] t.ty = "unary" -> Floats(t.F, UnaryExps(t.F), Edges(t.F))
    [] t.ty = "int" -> 0 .. 2^(IntBits - 2)
                         \cup {v \in {2^i + d : i \in 8 .. 24, d \in -9 .. 9} : v < 2^24}
    [] t.ty = "complex" -> Parts(t.F) \X Parts(t.F)
MCSecond(t) ==
  IF t.ty \in {"binary", "complex"} THEN MCFirst(t) ELSE {0}

MCTypes ==
  {[ty |-> ty, b |-> k] : ty \in {"si", "di"}, k \in {4, 8}}
    \cup {[ty |-> "ti", b |-> k] : k \in {2, 4, 8}} \cup {[ty |-> "si", b |-> 16]}

EdgeDistance == 1
WordEdges(n) == {v \in {2^i + d : i \in 0 .. n - 1, d \in -EdgeDistance .. EdgeDistance} :
                   0 <= v /\ v < 2^n}
MCOperands(t) ==
  LET n == Width(t)
  IN  IF n <= 4 \/ t = [ty |-> "di", b |-> 4] THEN 0 .. 2^n - 1
      ELSE IF n <= 16 THEN WordEdges(n) \cup {2^n - 1 - v : v \in WordEdges(n)}
      ELSE WordEdges(30)
=============================================================================
