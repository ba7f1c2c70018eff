-------------------------------- MODULE X86 --------------------------------
(***************************************************************************)
(* What the processor does for the instructions X86IR translates, from the *)
(* architecture's definition in terms of signed and unsigned integers, not *)
(* of the bit tricks the translation uses.  s has registers r, flags fl    *)
(* (those that are 1) and memory mem.                                      *)
(***************************************************************************)
EXTENDS X86IR

AllFlags == {"CF", "PF", "ZF", "SF", "OF"}

Get(s, o, size) ==
    CASE o.mode = "reg" -> ucast(IF o.hi THEN s.r[o.reg] \div 2^ByteBits ELSE s.r[o.reg], size)
      [] o.mode = "imm" -> ucast(o.imm, size)
      [] o.mode = "mem" -> s.mem[ucast(addr(s, o), 8)]

(* A 4-byte write clears the upper half, a 1- or 2-byte write keeps all    *)
(* the other bits.                                                         *)
Put(s, o, size, v) ==
    LET lowest == IF o.mode = "reg" /\ o.hi THEN ByteBits ELSE 0
        width  == Bits(size)
    IN  IF o.mode = "mem" THEN [s EXCEPT !.mem[ucast(addr(s, o), 8)] = ucast(v, 8)]
        ELSE IF size >= 4 THEN [s EXCEPT !.r[o.reg] = ucast(v, size)]
        ELSE [s EXCEPT !.r[o.reg] =
                 @ - (((@ \div 2^lowest) % 2^width) * 2^lowest) + ucast(v, size) * 2^lowest]

SetFlags(s, mask, on) == [s EXCEPT !.fl = (@ \ mask) \cup on]

EvenParity(v) == ~OddParity(v)

(* Zero, sign and parity of a result of a size. *)
ResultFlags(v, size) ==
    Flag("ZF", ucast(v, size) = 0) \cup Flag("SF", scast(v, size) < 0)
        \cup Flag("PF", EvenParity(v))

InSigned(v, size) == v = scast(v, size)

(* a + b + c or a - b - c, as numbers. *)
Arith(s, size, a, b, c, sub) ==
    LET k   == IF sub THEN -1 ELSE 1
        exact  == a + k * b + k * c
        signed == scast(a, size) + k * scast(b, size) + k * c
    IN  [res |-> ucast(exact, size),
         fl  |-> Flag("CF", exact # ucast(exact, size))
                   \cup Flag("OF", ~InSigned(signed, size))
                   \cup ResultFlags(exact, size)]

(* The meaning of a condition suffix: n negates, e adds "or equal". *)
Condition(s, suf) ==
    LET CF == "CF" \in s.fl
        ZF == "ZF" \in s.fl
        less == ("SF" \in s.fl) # ("OF" \in s.fl)
        base == CASE suf.c = "a"          -> ~CF /\ (suf.e \/ ~ZF)
                  [] suf.c = "b"          -> CF \/ (suf.e /\ ZF)
                  [] suf.c = "g"          -> ~less /\ (suf.e \/ ~ZF)
                  [] suf.c = "l"          -> less \/ (suf.e /\ ZF)
                  [] suf.c = "c"          -> CF
                  [] suf.c \in {"e", "z"} -> ZF
                  [] suf.c = "o"          -> "OF" \in s.fl
                  [] suf.c = "p"          -> "PF" \in s.fl
                  [] suf.c = "s"          -> "SF" \in s.fl
    IN  base # suf.n

(* Rotation of the n low bits of v to the left by k. *)
RotL(v, n, k) ==
    LET j == k % n IN (v % 2^(n - j)) * 2^j + (v \div 2^(n - j))

Shifted(s, i) ==
    LET size == i.size2
        n    == Bits(size)
        dest == i.operands[Len(i.operands)]
        v    == Get(s, IF i.op = "sh_d" THEN dest ELSE i.operands[2], size)
        k    == ShiftAmount(s, i)
        cf   == IF "CF" \in s.fl THEN 1 ELSE 0
        wide == v + cf * 2^n                       \* rc rotates CF and v together
        rcl  == RotL(wide, n + 1, IF i.c_left THEN k ELSE n + 1 - k)
        res  == CASE i.op = "sh" /\ i.c_left   -> ucast(v * 2^k, size)
                  [] i.op = "sh" /\ ~i.c_left  ->
                        ucast((IF i.sign_ext THEN scast(v, size) ELSE v) \div 2^k, size)
                  [] i.op = "ro"               -> RotL(v, n, IF i.c_left THEN k ELSE n - k)
                  [] i.op = "rc"               -> rcl % 2^n
                  [] i.op = "sh_d" /\ i.c_left ->
                        ucast(v * 2^k, size) + (Get(s, i.operands[2], size) \div 2^(n - k))
                  [] OTHER                     ->
                        (v \div 2^k) + (Get(s, i.operands[2], size) % 2^k) * 2^(n - k)
        (* the last bit shifted out *)
        out  == CASE i.op = "rc" -> rcl \div 2^n = 1
                  [] i.c_left /\ k > n -> FALSE
                  [] i.c_left  -> BitAt(v, n - k) = 1
                  [] OTHER     -> BitAt(IF i.sign_ext THEN scast(v, size) ELSE v, k - 1) = 1
        sign == Flag("OF", (scast(res, size) < 0) # (scast(v, size) < 0))
        s1   == Put(s, dest, size, res)
    IN  CASE k = 0 \/ i.c_noflag      -> s1
          [] i.op \in {"rc", "ro"}    -> SetFlags(s1, {"CF", "OF"}, Flag("CF", out) \cup sign)
          [] OTHER -> SetFlags(s1, AllFlags, Flag("CF", out) \cup sign \cup ResultFlags(res, size))

Pushed(s, v) == [s EXCEPT !.r["rsp"] = ucast(@ - 8, 8), !.mem[ucast(s.r["rsp"] - 8, 8)] = v]
Top(s) == s.mem[s.r["rsp"]]
Dropped(s) == [s EXCEPT !.r["rsp"] = ucast(@ + 8, 8)]
Jumped(s, v) == [s EXCEPT !.r["rip"] = v]

(* The double-width operand and result of div and mul. *)
HighPart(size) == IF size = 1 THEN HiReg("rax") ELSE Reg("rdx")

Execute(s0, i) ==
    LET s    == [s0 EXCEPT !.r["rip"] = ucast(@ + i.length, 8)]
        n    == Len(i.operands)
        op1  == i.operands[1]
        op2  == i.operands[2]
        size == i.size1
        a    == Get(s, op2, size)
        b    == Get(s, op1, size)
        c    == IF "CF" \in s.fl THEN 1 ELSE 0
        Set(o, x) == SetFlags(Put(s, o, size, x.res), AllFlags, x.fl)
        logic == CASE i.op \in {"and", "test"} -> a & b
                   [] i.op = "or" -> a | b
                   [] i.op = "xor" -> a ^^ b
        num(v)  == IF i.sign_ext THEN scast(v, size) ELSE v
        product == num(IF n = 1 THEN Get(s, Reg("rax"), size) ELSE a) * num(b)
        over    == product # (IF i.sign_ext THEN scast(product, size) ELSE ucast(product, size))
        mulFl(x) == SetFlags(x, {"CF", "OF"}, IF over THEN {"CF", "OF"} ELSE {})
        dividend == LET v == Get(s, HighPart(size), size) * 2^Bits(size) + Get(s, Reg("rax"), size)
                    IN  IF i.sign_ext THEN scast(v, 2 * size) ELSE v
        quotient == CQuot(dividend, num(b))
    IN  CASE i.op = "nop"  -> s
          [] i.op = "add"  -> Set(op2, Arith(s, size, a, b, 0, FALSE))
          [] i.op = "adc"  -> Set(op2, Arith(s, size, a, b, c, FALSE))
          [] i.op = "sub"  -> Set(op2, Arith(s, size, a, b, 0, TRUE))
          [] i.op = "sbb"  -> Set(op2, Arith(s, size, a, b, c, TRUE))
          [] i.op = "cmp"  -> SetFlags(s, AllFlags, Arith(s, size, a, b, 0, TRUE).fl)
          [] i.op = "neg"  -> Set(op1, Arith(s, size, 0, b, 0, TRUE))
          [] i.op \in {"inc", "dec"} ->
                LET x == Arith(s, size, b, 1, 0, i.op = "dec")
                IN  SetFlags(Put(s, op1, size, x.res), AllFlags \ {"CF"}, x.fl \ {"CF"})
          [] i.op \in {"and", "or", "xor"} ->
                SetFlags(Put(s, op2, size, logic), AllFlags, ResultFlags(logic, size))
          [] i.op = "test" -> SetFlags(s, AllFlags, ResultFlags(logic, size))
          [] i.op = "not"  -> Put(s, op1, size, -1 - b)
          [] i.op = "mul" /\ n = 1 ->
                mulFl(Put(Put(s, Reg("rax"), size, product), HighPart(size), size,
                          product \div 2^Bits(size)))
          [] i.op = "mul" /\ n > 1 -> mulFl(Put(s, i.operands[n], size, product))
          [] i.op = "div" ->
                Put(Put(s, Reg("rax"), size, quotient), HighPart(size), size,
                    dividend - quotient * num(b))
          [] i.op \in {"rc", "ro", "sh", "sh_d"} -> Shifted(s, i)
          [] i.op \in {"bt", "btc", "btr", "bts"} ->
                LET k  == b % Bits(size)
                    on == BitAt(a, k) = 1
                    s1 == SetFlags(s, {"CF"}, Flag("CF", on))
                    set == i.op = "bts" \/ (i.op = "btc" /\ ~on)
                IN  IF i.op = "bt" THEN s1
                    ELSE Put(s1, op2, size, a - (IF on THEN 2^k ELSE 0) + (IF set THEN 2^k ELSE 0))
          [] i.op = "mov"  -> Put(s, op2, i.size2, num(b))
          [] i.op = "cmov" -> Put(s, op2, size, IF Condition(s, i.suf) THEN b ELSE a)
          [] i.op = "set"  -> Put(s, op1, 1, IF Condition(s, i.suf) THEN 1 ELSE 0)
          [] i.op = "lea"  -> Put(s, op2, size, addr(s, op1))
          [] i.op = "c_td" -> Put(s, Reg("rdx"), size,
                                  IF scast(Get(s, Reg("rax"), size), size) < 0 THEN -1 ELSE 0)
          [] i.op = "bswap" ->
                LET byte(k) == (b \div 2^Bits(k)) % 2^ByteBits
                    sum[k \in 0..size] ==
                        IF k = 0 THEN 0 ELSE sum[k - 1] + byte(k - 1) * 2^Bits(size - k)
                IN  Put(s, op1, size, sum[size])
          [] i.op = "xchg" -> Put(Put(s, op1, size, a), op2, size, b)
          [] i.op = "xadd" ->
                LET x == Arith(s, size, a, b, 0, FALSE)
                IN  SetFlags(Put(Put(s, op1, size, a), op2, size, x.res), AllFlags, x.fl)
          [] i.op = "push" -> Pushed(s, Get(s, op1, 8))
          [] i.op = "pop"  -> Put(Dropped(s), op1, 8, Top(s))
          [] i.op = "call" -> Jumped(Pushed(s, s.r["rip"]), Get(s, op1, 8))
          [] i.op = "ret"  -> Jumped(Dropped(s), Top(s))
          [] i.op = "jmp"  -> Jumped(s, Get(s, op1, 8))
          [] i.op = "j"    -> IF Condition(s, i.suf) THEN Jumped(s, Get(s, op1, 8)) ELSE s
          [] i.op = "enter" ->
                LET s1 == Pushed(s, s.r["rbp"])
                IN  [s1 EXCEPT !.r["rbp"] = s1.r["rsp"], !.r["rsp"] = ucast(@ - op1.imm, 8)]
          [] i.op = "leave" ->
                LET s1 == [s EXCEPT !.r["rsp"] = s.r["rbp"]]
                IN  [Dropped(s1) EXCEPT !.r["rbp"] = Top(s1)]
          [] i.op = "clc"  -> SetFlags(s, {"CF"}, {})
          [] i.op = "stc"  -> SetFlags(s, {"CF"}, {"CF"})
          [] i.op = "cmc"  -> SetFlags(s, {"CF"}, Flag("CF", "CF" \notin s.fl))

(* The flags an instruction may read ... *)
FlagsRead(i) ==
    CASE i.op \in {"adc", "sbb", "cmc", "rc"} -> {"CF"}
      [] i.op \in {"j", "cmov", "set"} ->
            (CASE i.suf.c = "a"          -> {"CF", "ZF"}
               [] i.suf.c \in {"b", "c"} -> {"CF"}
               [] i.suf.c = "g"          -> {"SF", "OF", "ZF"}
               [] i.suf.c = "l"          -> {"SF", "OF"}
               [] i.suf.c \in {"e", "z"} -> {"ZF"}
               [] i.suf.c = "o"          -> {"OF"}
               [] i.suf.c = "p"          -> {"PF"}
               [] i.suf.c = "s"          -> {"SF"}) \cup Flag("ZF", i.suf.e)
      [] OTHER -> {}

(* ... those it gives a defined value in state s ... *)
FlagsDefined(s, i) ==
    CASE i.op \in {"add", "adc", "sub", "sbb", "cmp", "neg", "and", "or", "xor", "test", "xadd"} -> AllFlags
      [] i.op \in {"inc", "dec"} -> AllFlags \ {"CF"}
      [] i.op = "mul" -> {"CF", "OF"}
      [] i.op \in {"bt", "btc", "btr", "bts", "clc", "stc", "cmc"} -> {"CF"}
      [] i.op \in {"sh", "sh_d"} /\ ~i.c_noflag /\ ShiftAmount(s, i) # 0 ->
            {"ZF", "SF", "PF"} \cup Flag("OF", ShiftAmount(s, i) = 1)
                \cup Flag("CF", ShiftAmount(s, i) < Bits(i.size2))
      [] i.op \in {"rc", "ro"} /\ ShiftAmount(s, i) # 0 ->
            {"CF"} \cup Flag("OF", ShiftAmount(s, i) = 1)
      [] OTHER -> {}

(* ... and those it leaves undefined. *)
FlagsUndefined(s, i) ==
    CASE i.op = "mul" -> AllFlags \ {"CF", "OF"}
      [] i.op = "div" -> AllFlags
      [] i.op \in {"bt", "btc", "btr", "bts"} -> {"OF", "SF", "PF"}
      [] i.op \in {"sh", "sh_d"} /\ ~i.c_noflag /\ ShiftAmount(s, i) # 0 ->
            AllFlags \ FlagsDefined(s, i)
      [] i.op \in {"rc", "ro"} /\ ShiftAmount(s, i) # 0 -> {"OF"} \ FlagsDefined(s, i)
      [] OTHER -> {}
=============================================================================
