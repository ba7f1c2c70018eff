----------------------------- MODULE MCInterpFn -----------------------------
(* InterpFn on 2-bit bytes: operands of 2, 4, 8 and 16 bits. *)
EXTENDS InterpFn

rax == Reg("rax")
rcx == Reg("rcx")
rdx == Reg("rdx")

NoSuffix == [n |-> FALSE, c |-> "none", e |-> FALSE]
Instruction(op, size, operands) ==
    [op |-> op, size1 |-> size, size2 |-> size, sign_ext |-> FALSE, c_left |-> FALSE,
     c_noflag |-> FALSE, suf |-> NoSuffix, length |-> 5, operands |-> operands]

Suffixes ==
    [n : BOOLEAN, c : {"a", "b", "g", "l"}, e : BOOLEAN]
      \cup [n : BOOLEAN, c : {"c", "e", "o", "s", "z", "p"}, e : {FALSE}]

-----------------------------------------------------------------------------
(* Two-operand arithmetic: register to register, immediate to register,    *)
(* high byte, 8-byte memory.                                               *)
Pairs(size) ==
    {<<rdx, rax>>, <<rax, rax>>, <<Imm(1), rax>>, <<Imm(-1), rdx>>}
      \cup (IF size = 1 THEN {<<HiReg("rax"), rax>>, <<rdx, HiReg("rax")>>} ELSE {})
      \cup (IF size = 8 THEN {<<rdx, Mem("rsp", 0)>>, <<Mem("rsp", 8), rax>>} ELSE {})

Arithmetic ==
    UNION {{Instruction(op, size, p) : p \in Pairs(size),
              op \in {"add", "adc", "sub", "sbb", "cmp", "and", "or", "xor", "test"}}
           : size \in Sizes}

Unary ==
    UNION {{Instruction(op, size, <<o>>) : o \in {rax} \cup (IF size = 1 THEN {HiReg("rdx")} ELSE {}),
              op \in {"neg", "inc", "dec", "not"}}
           : size \in Sizes}

Multiply ==
    {Instruction("mul", size, <<rdx>>) : size \in {1, 2, 4}}
      \cup {Instruction("div", size, <<rcx>>) : size \in {1, 2, 4}}
      \cup {[Instruction("div", size, <<rcx>>) EXCEPT !.sign_ext = TRUE] : size \in {1, 2, 4}}
      \cup {[Instruction("mul", size, ops) EXCEPT !.sign_ext = TRUE] :
              size \in {2, 4}, ops \in {<<rdx>>, <<rdx, rax>>, <<Imm(3), rax, rdx>>}}
      \cup {[Instruction("mul", 1, <<rdx>>) EXCEPT !.sign_ext = TRUE]}

(* size1 is 1 except for the shifts that take the amount from a register   *)
(* of the operand size and set no flags (shlx, shrx, sarx).                *)
ShiftInstr(op, size, left, ops) ==
    [Instruction(op, 1, ops) EXCEPT !.size2 = size, !.c_left = left]

Shifts ==
    {ShiftInstr(op, size, left, <<amt, rax>>) : op \in {"sh", "ro"}, size \in Sizes,
        left \in BOOLEAN, amt \in {rcx, Imm(1)}}
      \cup {ShiftInstr("rc", size, left, <<amt, rax>>) : size \in Sizes,
              left \in BOOLEAN, amt \in {rcx, Imm(1), Imm(2)}}
      \cup {ShiftInstr("sh_d", size, left, <<amt, rdx, rax>>) : size \in {2, 4, 8},
              left \in BOOLEAN, amt \in {rcx, Imm(1), Imm(3)}}
      \cup {[ShiftInstr("sh", size, FALSE, <<amt, rax>>) EXCEPT !.sign_ext = TRUE] :
              size \in Sizes, amt \in {rcx, Imm(1)}}
      \cup {[ShiftInstr("sh", size, left, <<rcx, rax, rdx>>) EXCEPT !.size1 = size, !.c_noflag = TRUE] :
              size \in {4, 8}, left \in BOOLEAN}

BitsAndFlags ==
    {Instruction(op, size, <<o, rax>>) : op \in {"bt", "btc", "btr", "bts"},
        size \in {2, 4, 8}, o \in {rdx, Imm(3)}}
      \cup {Instruction(op, 8, <<>>) : op \in {"clc", "stc", "cmc"}}

Conditional ==
    {[Instruction("set", 1, <<o>>) EXCEPT !.suf = x] : x \in Suffixes, o \in {rax, HiReg("rax")}}
      \cup {[Instruction("cmov", size, <<rdx, rax>>) EXCEPT !.suf = x] : x \in Suffixes, size \in {2, 4, 8}}
      \cup {[Instruction("j", 8, <<Imm(64)>>) EXCEPT !.suf = x] : x \in Suffixes}

Moves ==
    {Instruction("mov", size, <<rdx, rax>>) : size \in Sizes}
      \cup {Instruction("mov", 1, p) : p \in {<<HiReg("rdx"), rax>>, <<rax, HiReg("rdx")>>}}
      \cup {Instruction("mov", 8, p) : p \in {<<rax, Mem("rsp", -8)>>, <<Mem("rsp", 8), rax>>}}
      \cup {[Instruction("mov", 1, <<rdx, rax>>) EXCEPT !.size2 = size] : size \in {2, 4, 8}}
      \cup {[Instruction("mov", size, <<rdx, rax>>) EXCEPT !.size2 = to, !.sign_ext = TRUE] :
              <<size, to>> \in {<<1, 2>>, <<1, 4>>, <<1, 8>>, <<2, 4>>, <<2, 8>>, <<4, 8>>}}
      \cup {Instruction("lea", size, <<Indexed("rax", -3, "rdx", 4), rdx>>) : size \in {2, 4, 8}}
      \cup {Instruction("c_td", size, <<>>) : size \in {2, 4, 8}}
      \cup {Instruction("bswap", size, <<rax>>) : size \in {4, 8}}
      \cup {Instruction(op, size, <<rdx, rax>>) : op \in {"xchg", "xadd"}, size \in Sizes}
      \cup {Instruction(op, 8, <<rdx, Mem("rsp", 0)>>) : op \in {"xchg", "xadd"}}
      \cup {Instruction("xchg", 8, <<Reg("rbp"), Mem("rbp", 0)>>)}

Stack ==
    {Instruction("push", 8, <<o>>) : o \in {rax, Imm(7), Mem("rbp", 0), Reg("rsp"), Mem("rsp", 0)}}
      \cup {Instruction("pop", 8, <<o>>) :
              o \in {rdx, Reg("rbp"), Mem("rbp", -8), Reg("rsp"), Mem("rsp", 0)}}
      \cup {Instruction("call", 8, <<o>>) : o \in {Imm(96), rax, Mem("rsp", 0)}}
      \cup {Instruction("ret", 8, <<>>), Instruction("jmp", 8, <<rdx>>),
            Instruction("enter", 8, <<Imm(8), Imm(0)>>), Instruction("leave", 8, <<>>),
            Instruction("nop", 8, <<>>), Instruction("mov", 8, <<rax, Reg("r14")>>)}

AllInstrs == Arithmetic \cup Unary \cup Multiply \cup Shifts \cup BitsAndFlags
                \cup Conditional \cup Moves \cup Stack

(* A few of each kind, for sequences. *)
MCSequence ==
    {Instruction("add", 4, <<rdx, rax>>), Instruction("adc", 1, <<rdx, HiReg("rax")>>),
     Instruction("sbb", 2, <<rax, rdx>>), Instruction("inc", 8, <<rax>>),
     Instruction("cmp", 8, <<rdx, rax>>), Instruction("xadd", 8, <<rax, Mem("rsp", 0)>>),
     ShiftInstr("rc", 2, TRUE, <<Imm(1), rax>>),
     [Instruction("set", 1, <<rdx>>) EXCEPT !.suf = [n |-> FALSE, c |-> "l", e |-> FALSE]],
     [Instruction("j", 8, <<Imm(64)>>) EXCEPT !.suf = [n |-> FALSE, c |-> "b", e |-> TRUE]],
     Instruction("push", 8, <<rax>>), Instruction("pop", 8, <<Reg("rbp")>>),
     Instruction("call", 8, <<Mem("rsp", 0)>>), Instruction("ret", 8, <<>>),
     Instruction("leave", 8, <<>>)}

-----------------------------------------------------------------------------
(* Where the emitted parity flag and the processor's part, *)
MCAdd == {Instruction("add", size, <<rdx, rax>>) : size \in Sizes}

(* and the registers: stores of signed values to two bytes. *)
MCPartial ==
    {[Instruction("mov", 1, <<rdx, rax>>) EXCEPT !.size2 = 2, !.sign_ext = TRUE],
     [ShiftInstr("sh", 2, FALSE, <<Imm(1), rax>>) EXCEPT !.sign_ext = TRUE],
     [Instruction("div", 2, <<rcx>>) EXCEPT !.sign_ext = TRUE],
     Instruction("c_td", 2, <<>>), Instruction("not", 2, <<rax>>)}


-----------------------------------------------------------------------------
(* One instruction on boundary values ("values"), one under all flags      *)
(* ("flags": the conditions read nothing else), sequences of three.        *)
MCAgreeing == {"values", "flags", "sequences"}

MCInstrs(p) == CASE p \in {"values", "flags"} -> AllInstrs [] p = "sequences" -> MCSequence
                 [] p = "parity" -> MCAdd [] p = "partial" -> MCPartial
MCLength(p) == CASE p \in {"values", "flags"} -> 1 [] p = "sequences" -> 3 [] OTHER -> 2
MCRegValues(p) == CASE p = "values" -> {0, 1, 6, 127, 128, 32768, 42435, 65535}
                    [] p = "flags" -> {1, 65535}
                    [] OTHER -> {1, 128, 65535}
MCCounts(p) == IF p \in {"values", "flags"} THEN {0, 1, 3, 8} ELSE {2}
MCInitFlags(p) == CASE p = "flags" -> SUBSET {"CF", "ZF", "SF", "OF"}
                    [] p = "sequences" -> {{}}
                    [] OTHER -> {{}, {"CF"}}
MCSlots == {16, 24, 32, 40}
=============================================================================
