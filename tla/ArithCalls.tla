----------------------------- MODULE ArithCalls -----------------------------
(***************************************************************************)
(* A program that calls the integer routines of compiler-rt_soft_float:    *)
(* one call after another, each with its operand type, the width b of      *)
(* si_int and two operands.  The properties say what every routine of      *)
(* IntArith returns in terms of ordinary arithmetic.                       *)
(***************************************************************************)
EXTENDS IntArith

CONSTANTS
  OperandTypes,     \* the calls the program makes: records [ty, b], b bits in si_int
  Operands(_),      \* the words a call of such a type may take
  WidthLimit        \* the widest words the properties speak of: 16 for TLC's integers

Width(t) == CASE t.ty = "si" -> t.b [] t.ty = "di" -> 2 * t.b [] t.ty = "ti" -> 4 * t.b
\* what arithmetic says of the powers of two of an even width and its half
Powers(n) ==
  LET half == 2^(n \div 2)
  IN  half \in Nat /\ half >= 2 /\ 2^(n - 1) \in Nat /\ 2^n = 2 * 2^(n - 1) /\ 2^n = half * half

ASSUME TypesAssumption ==
  \A t \in OperandTypes : /\ t.ty \in {"si", "di", "ti"} /\ t.b \in {2, 4, 8, 16, 32}
                          /\ \A v \in Operands(t) : v \in Nat
ASSUME WidthsAssumption ==
  /\ WidthLimit \in Nat
  /\ \A t \in OperandTypes : Width(t) <= WidthLimit =>
       /\ \A v \in Operands(t) : v < 2^Width(t)
       /\ Powers(Width(t)) /\ (t.ty # "si" => Powers(Width(t) \div 2))

VARIABLES
  call,             \* the operand type of the call
  x, y              \* its operands

callVars == <<call, x, y>>

CallsInit == \E t \in OperandTypes : call = t /\ x \in Operands(t) /\ y = 0

\* a call, and the way back to the state before it
CallRoutine == y = 0 /\ y' \in Operands(call) /\ UNCHANGED <<call, x>>
RoutineReturns == y # 0 /\ y' = 0 /\ UNCHANGED <<call, x>>

CallsNext == CallRoutine \/ RoutineReturns
CallsSpec == CallsInit /\ [][CallsNext]_callVars

-----------------------------------------------------------------------------
(* The routines of a type *)

b == call.b
w == Width(call)
is(ty) == call.ty = ty /\ w <= WidthLimit
Value(v) == SVal(w, v)
Fits(v) == -(2^(w - 1)) <= v /\ v < 2^(w - 1)
\* what a routine that aborts on overflow returns for the exact result v
OrAbort(v) == IF Fits(v) THEN Trunc(w, v) ELSE Abort

(***************************************************************************)
(* A trapping routine ends the process exactly when the exact result does  *)
(* not fit its type, and the reporting multiplication reports exactly then *)
(* and returns the wrapped product (the absv, addv, subv, negv, mulv and   *)
(* mulo routines).                                                         *)
(***************************************************************************)
TrapIffOverflow ==
  LET X == Value(x)
      Y == Value(y)
      Check(abs, neg, add, sub, mul, mulo) ==
        /\ abs = OrAbort(IF X < 0 THEN -X ELSE X)
        /\ neg = OrAbort(-X)
        /\ add = OrAbort(X + Y)
        /\ sub = OrAbort(X - Y)
        /\ mul = OrAbort(X * Y)
        /\ mulo = [value |-> Trunc(w, X * Y), overflow |-> ~Fits(X * Y)]
  IN  /\ is("si") => Check(absvsi2(b, x), negvsi2(b, x), addvsi3(b, x, y), subvsi3(b, x, y),
                           mulvsi3(b, x, y), mulosi4(b, x, y))
      /\ is("di") => Check(absvdi2(b, x), negvdi2(b, x), addvdi3(b, x, y), subvdi3(b, x, y),
                           mulvdi3(b, x, y), mulodi4(b, x, y))
      /\ is("ti") => Check(absvti2(b, x), negvti2(b, x), addvti3(b, x, y), subvti3(b, x, y),
                           mulvti3(b, x, y), muloti4(b, x, y))

(***************************************************************************)
(* Multiplication and negation of double words wrap, and a comparison      *)
(* orders its operands as numbers: 0, 1 or 2 (muldi3.c, cmpdi2.c, ...).    *)
(***************************************************************************)
Order(u, v) == IF u < v THEN 0 ELSE IF u > v THEN 2 ELSE 1
WrapsAndOrders ==
  LET Check(mul, neg, cmp, ucmp) ==
        /\ mul = Trunc(w, Value(x) * Value(y))
        /\ neg = Trunc(w, -x)
        /\ cmp = Order(Value(x), Value(y))
        /\ ucmp = Order(x, y)
  IN  /\ is("di") => Check(muldi3(b, x, y), negdi2(b, x), cmpdi2(b, x, y), ucmpdi2(b, x, y))
      /\ is("ti") => Check(multi3(b, x, y), negti2(b, x), cmpti2(b, x, y), ucmpti2(b, x, y))
=============================================================================
