------------------------------- MODULE X86IR -------------------------------
(***************************************************************************)
(* The C that parseltongue86 emits for one x86-64 instruction              *)
(* (translator/instruction.py, translator/operand.py), as the effect this  *)
(* C has when the interpreter runs it.                                     *)
(*                                                                         *)
(* A byte has ByteBits bits instead of 8; operand sizes stay 1, 2, 4 and 8 *)
(* bytes.  A C variable is its mathematical value: emit_var_decl reduces   *)
(* it to its type, every other expression is exact until it is stored.     *)
(* The flags are the set of those that are 1.                              *)
(*                                                                         *)
(* t is the state of the emitted function: its register temporaries r,     *)
(* efl_tmp as fl, the target's memory mem (8-byte cells) and the registers *)
(* assigned so far, BB_ASSIGNED_REGS as refs.                              *)
(*                                                                         *)
(* An instruction is a record: op, size1, size2, sign_ext, c_left, the     *)
(* condition suffix suf, length and its operands (AT&T order) as the       *)
(* parser leaves them.                                                     *)
(***************************************************************************)
EXTENDS Integers, Sequences, Bitwise

CONSTANT ByteBits   \* bits of a byte (8)

ASSUME ByteAssumption == ByteBits \in Nat \ {0}

Sizes == {1, 2, 4, 8}
Bits(size) == size * ByteBits

(* static_cast<uintN_t>, static_cast<intN_t> *)
ucast(v, size) == v % 2^Bits(size)

scast(v, size) ==
    LET u == ucast(v, size)
    IN  IF u < 2^(Bits(size) - 1) THEN u ELSE u - 2^Bits(size)

icast(v, size, signed) == IF signed THEN scast(v, size) ELSE ucast(v, size)

(* Declare a variable of a size and give it a value. *)
emit_var_decl(v, size, signed) == icast(v, size, signed)

(* Bit k of the two's complement representation of v. *)
BitAt(v, k) == (v \div 2^k) % 2

-----------------------------------------------------------------------------
(* Operands *)

Reg(r)    == [mode |-> "reg", reg |-> r, hi |-> FALSE]
HiReg(r)  == [mode |-> "reg", reg |-> r, hi |-> TRUE]
Imm(n)    == [mode |-> "imm", imm |-> n]
Mem(r, d) == [mode |-> "mem", base |-> r, offset |-> d, index |-> "none", scale |-> 1]
Indexed(r, d, x, s) == [Mem(r, d) EXCEPT !.index = x, !.scale = s]

addr(t, o) ==
    o.offset + (IF o.base = "none" THEN 0 ELSE t.r[o.base])
             + (IF o.index = "none" THEN 0 ELSE t.r[o.index] * o.scale)

(* An rvalue, before it is converted to the variable that receives it. *)
emit_fetch(t, o, size, signed) ==
    emit_var_decl(
        CASE o.mode = "reg" -> (IF o.hi THEN t.r[o.reg] \div 2^ByteBits ELSE t.r[o.reg])
          [] o.mode = "imm" -> o.imm
          [] o.mode = "mem" -> t.mem[ucast(addr(t, o), 8)],
        size, signed)

(* Mutant: a 32-bit write leaves the upper half of the register alone. *)
StoredReg_no_zero_ext(old, o, size, v) ==
    LET keep(n) == old - (old % 2^n)
    IN  CASE size = 8 -> ucast(v, 8)
          [] size = 1 /\ o.hi ->
                ucast(keep(Bits(2)) + (old % 2^Bits(1)) + ucast(v * 2^ByteBits, 2), 8)
          [] OTHER -> ucast(keep(Bits(size)) + v, 8)

(* The new value of a whole register when v goes to a part of it: 1- and   *)
(* 2-byte parts are masked out and v added, with all the bits C gives it.  *)
StoredReg(old, o, size, v) ==
    LET keep(n) == old - (old % 2^n)
    IN  CASE size = 8 -> ucast(v, 8)
          [] size = 4 -> ucast(v, 4)
          [] size = 1 /\ o.hi ->
                ucast(keep(Bits(2)) + (old % 2^Bits(1)) + ucast(v * 2^ByteBits, 2), 8)
          [] OTHER -> ucast(keep(Bits(size)) + v, 8)

emit_store(t, o, size, v) ==
    IF o.mode = "reg"
    THEN [t EXCEPT !.r[o.reg] = StoredReg(@, o, size, v), !.refs = @ \cup {o.reg}]
    ELSE [t EXCEPT !.mem[ucast(addr(t, o), 8)] = ucast(v, size)]

emit_set_flag(t, mask, value, clobber) ==
    [t EXCEPT !.fl = IF clobber THEN value ELSE (@ \ mask) \cup value,
              !.refs = @ \cup {"efl"}]

-----------------------------------------------------------------------------
(* Flags *)

Flag(name, b) == IF b THEN {name} ELSE {}

(* The table lookup in 0x6996 is 1 for an odd number of bits in the low byte. *)
OddParity(v) == Len(SelectSeq([k \in 1..ByteBits |-> BitAt(v, k - 1)],
                              LAMBDA b : b = 1)) % 2 = 1

(* size is the instruction's size1, whatever the size of the result. *)
emit_zps(v, size) ==
    Flag("PF", OddParity(v)) \cup Flag("ZF", v = 0)
        \cup Flag("SF", BitAt(v, Bits(size) - 1) = 1)

emit_store_cozps(t, efl, clobber) ==
    emit_set_flag(t, {"CF", "PF", "ZF", "SF", "OF"}, efl, clobber)

-----------------------------------------------------------------------------
(* Arithmetic *)

(* Mutant: the carry coming in is ignored when the carry out is computed. *)
CarryOut_no_in(cf, res, aug, sub) == IF sub THEN res > aug ELSE res < aug

CarryOut(cf, res, aug, sub) ==
    CASE cf /\ sub   -> res >= aug
      [] cf /\ ~sub  -> res <= aug
      [] ~cf /\ sub  -> res > aug
      [] OTHER       -> res < aug

(* how: the keyword arguments of _emit_add. *)
emit_add(t, i, arg_l, arg_r, how) ==
    LET size == i.size1
        aug  == emit_fetch(t, arg_l, size, FALSE)
        add  == emit_fetch(t, arg_r, size, FALSE)
        cf   == how.carry /\ "CF" \in t.fl
        op   == IF how.sub THEN -1 ELSE 1
        res  == emit_var_decl(aug + op * add + op * (IF cf THEN 1 ELSE 0), size, FALSE)
        of   == (res ^^ aug) & ((IF how.sub THEN aug ELSE res) ^^ add)
        efl  == Flag("OF", BitAt(of, Bits(size) - 1) = 1)
                  \cup Flag("CF", how.set_carry /\ CarryOut(cf, res, aug, how.sub))
                  \cup emit_zps(res, size)
        t1   == CASE how.target = "l" -> emit_store(t, arg_l, size, res)
                  [] how.target = "r" -> emit_store(t, arg_r, size, res)
                  [] OTHER            -> t
    IN  emit_store_cozps(t1, efl, how.clobber)

AddArgs == [carry |-> FALSE, sub |-> FALSE, target |-> "l", set_carry |-> TRUE,
            clobber |-> FALSE]

emit_mul(t, i) ==
    LET size   == i.size1
        n      == Len(i.operands)
        rax    == Reg("rax")
        cand   == IF n = 1 THEN rax ELSE i.operands[2]
        dest   == IF n = 3 THEN i.operands[3] ELSE cand
        mcand  == emit_fetch(t, cand, size, FALSE)
        mplier == emit_fetch(t, i.operands[1], size, FALSE)
        prod   == icast(icast(mcand, 2 * size, i.sign_ext)
                          * icast(mplier, 2 * size, i.sign_ext), 2 * size, i.sign_ext)
        lo     == ucast(prod, size)
        hi     == ucast(prod \div 2^Bits(size), size)
        t1     == emit_store(t, dest, size, lo)
        t2     == IF n = 1
                  THEN emit_store(t1, IF size = 1 THEN HiReg("rax") ELSE Reg("rdx"), size, hi)
                  ELSE t1
        over   == IF i.sign_ext
                  THEN scast(lo, size) \div 2^(Bits(size) - 1) # scast(hi, size)
                  ELSE hi # 0
        mask   == {"OF", "CF"}
    IN  emit_set_flag(t2, mask, IF over THEN mask ELSE {}, FALSE)

(* C division truncates towards zero. *)
CQuot(a, b) == IF (a < 0) = (b < 0)
               THEN (IF a < 0 THEN (-a) \div (-b) ELSE a \div b)
               ELSE -((IF a < 0 THEN -a ELSE a) \div (IF b < 0 THEN -b ELSE b))

emit_div(t, i) ==
    LET size == i.size1
        rax  == Reg("rax")
        rem  == IF size = 1 THEN HiReg("rax") ELSE Reg("rdx")
        hi   == emit_fetch(t, rem, size, FALSE)
        lo   == emit_fetch(t, rax, size, FALSE)
        dvd  == emit_var_decl(lo + hi * 2^Bits(size), 2 * size, i.sign_ext)
        dvs  == emit_fetch(t, i.operands[1], size, i.sign_ext)
        q    == CQuot(dvd, dvs)
        t1   == emit_store(t, rax, size, emit_var_decl(q, size, i.sign_ext))
    IN  emit_store(t1, rem, size, emit_var_decl(dvd - q * dvs, size, i.sign_ext))

emit_logical(t, i, write_target) ==
    LET size == i.size1
        src  == emit_fetch(t, i.operands[1], size, FALSE)
        dest == emit_fetch(t, i.operands[2], size, FALSE)
        res  == CASE i.op \in {"and", "test"} -> dest & src
                  [] i.op = "or"              -> dest | src
                  [] i.op = "xor"             -> dest ^^ src
        t1   == IF write_target THEN emit_store(t, i.operands[2], size, res) ELSE t
    IN  emit_store_cozps(t1, emit_zps(res, size), TRUE)

(* ~ promotes an operand shorter than int to a (then negative) int. *)
emit_not(t, i) ==
    LET o == i.operands[1]
    IN  emit_store(t, o, i.size1,
                   IF i.size1 < 4 THEN -1 - emit_fetch(t, o, i.size1, FALSE)
                   ELSE ucast(-1 - emit_fetch(t, o, i.size1, FALSE), i.size1))

-----------------------------------------------------------------------------
(* Bit tests, single flags, shifts *)

emit_bittest(t, i) ==
    LET size == i.size1
        off  == emit_fetch(t, i.operands[1], size, FALSE) % Bits(size)
        orig == emit_fetch(t, i.operands[2], size, FALSE)
        bit  == orig & (2^off)
        t1   == emit_set_flag(t, {"CF"}, Flag("CF", bit # 0), FALSE)
        v    == CASE i.op = "btc" -> orig ^^ (2^off)
                  [] i.op = "btr" -> orig - bit
                  [] i.op = "bts" -> orig | (2^off)
    IN  IF i.op = "bt" THEN t1 ELSE emit_store(t1, i.operands[2], size, v)

emit_cmc(t) == emit_set_flag(t, {"CF"}, Flag("CF", "CF" \notin t.fl), FALSE)

Shift(v, n, left) == IF left THEN v * 2^n ELSE v \div 2^n

(* The amount of a shift.  A byte holds every amount the mask lets pass,   *)
(* so its reduction to size1 changes nothing.                              *)
ShiftAmount(t, i) ==
    LET o == i.operands[1]
    IN  (IF o.mode = "imm" THEN o.imm ELSE t.r[o.reg])
            % (IF i.size2 = 8 THEN Bits(8) ELSE Bits(4))

(* The bits a rotate or double shift moves in at the other end.  Amount 0  *)
(* shifts by the full width, which leaves nothing of a type shorter than   *)
(* int and is undefined otherwise: over tells whether the build, like the  *)
(* processor's own shifts, then does not shift at all.                     *)
MovedIn(t, i, dest, amt, over) ==
    LET size == i.size2
        raw  == emit_fetch(t, IF i.op = "sh_d" THEN i.operands[2] ELSE dest, size, FALSE)
        cf   == IF "CF" \in t.fl THEN 1 ELSE 0
        bits == IF i.op = "rc"
                THEN ucast(Shift(raw, 1, ~i.c_left)
                             + cf * (IF i.c_left THEN 2^(Bits(size) - 1) ELSE 1), size)
                ELSE raw
    IN  IF amt # 0 THEN Shift(bits, Bits(size) - amt, ~i.c_left)
        ELSE IF size >= 4 /\ over THEN bits ELSE 0

ShiftCarry(src, amt, width, left) ==
    BitAt(src, IF left THEN width - amt ELSE amt - 1) = 1

emit_shift(t, i, over) ==
    LET size  == i.size2
        width == Bits(size)
        dest  == i.operands[Len(i.operands)]
        src   == emit_fetch(t, IF i.op = "sh_d" THEN dest ELSE i.operands[2], size, i.sign_ext)
        amt   == ShiftAmount(t, i)
        part  == emit_var_decl(Shift(src, amt, i.c_left), size, i.sign_ext)
        shift == IF i.op \in {"rc", "ro", "sh_d"}
                 THEN ucast(part | ucast(MovedIn(t, i, dest, amt, over), size), size)
                 ELSE part
        t1    == emit_store(t, dest, size, shift)
        efl   == emit_zps(shift, i.size1)
                   \cup Flag("OF", BitAt(shift, width - 1) # BitAt(src, width - 1))
                   \cup Flag("CF", IF i.c_left /\ amt > width THEN over
                                   ELSE ShiftCarry(src, amt, width, i.c_left))
    IN  IF i.c_noflag \/ amt = 0 THEN t1 ELSE emit_store_cozps(t1, efl, FALSE)

-----------------------------------------------------------------------------
(* Conditions and control flow *)

(* A condition suffix: n, a letter c, e.  Mutant: De Morgan forgets eq.    *)
parse_cond_no_eq(suf) ==
    LET eq == suf.e \/ suf.c = "e"
    IN  CASE suf.c = "a" -> [cond |-> "c", neg |-> ~suf.n, eq |-> eq]
          [] suf.c = "g" -> [cond |-> "l", neg |-> ~suf.n, eq |-> eq]
          [] suf.c = "b" -> [cond |-> "c", neg |-> suf.n, eq |-> eq]
          [] suf.c = "e" -> [cond |-> "z", neg |-> suf.n, eq |-> eq]
          [] OTHER       -> [cond |-> suf.c, neg |-> suf.n, eq |-> eq]

(* a and g become the negation of c (b) and l with the equality turned     *)
(* over; b and e are aliases of c and z.                                   *)
parse_cond(suf) ==
    LET eq == suf.e \/ suf.c = "e"
    IN  CASE suf.c = "a" -> [cond |-> "c", neg |-> ~suf.n, eq |-> ~eq]
          [] suf.c = "g" -> [cond |-> "l", neg |-> ~suf.n, eq |-> ~eq]
          [] suf.c = "b" -> [cond |-> "c", neg |-> suf.n, eq |-> eq]
          [] suf.c = "e" -> [cond |-> "z", neg |-> suf.n, eq |-> eq]
          [] OTHER       -> [cond |-> suf.c, neg |-> suf.n, eq |-> eq]

COND_FLAG == [c |-> "CF", z |-> "ZF", o |-> "OF", p |-> "PF", s |-> "SF"]

(* Whether the code after "if (...) {} else" runs. *)
CondHolds(t, suf) ==
    LET c    == parse_cond(suf)
        base == IF c.cond = "l" THEN ("SF" \in t.fl) # ("OF" \in t.fl)
                ELSE COND_FLAG[c.cond] \in t.fl
        exp  == IF c.eq /\ c.cond # "z" THEN "ZF" \in t.fl \/ base ELSE base
    IN  exp # c.neg

emit_mov(t, src, dest, size1, size2, signed) ==
    LET in == emit_fetch(t, src, size1, signed)
    IN  emit_store(t, dest, size2, emit_var_decl(in, size2, signed))

emit_lea(t, src, dest, size) == emit_store(t, dest, size, ucast(addr(t, src), size))

emit_set(t, i) ==
    LET o  == i.operands[1]
        t1 == emit_store(t, o, 1, 0)
    IN  IF CondHolds(t1, i.suf) THEN emit_store(t1, o, 1, 1) ELSE t1

emit_jump(t, i) ==
    IF i.op = "jmp" \/ CondHolds(t, i.suf)
    THEN emit_mov(t, i.operands[1], Reg("rip"), 8, 8, FALSE) ELSE t

(* The destination is first moved to itself, which truncates it. *)
emit_cmov(t, i) ==
    LET t1 == emit_mov(t, i.operands[2], i.operands[2], i.size1, i.size1, FALSE)
    IN  IF CondHolds(t1, i.suf)
        THEN emit_mov(t1, i.operands[1], i.operands[2], i.size1, i.size1, FALSE) ELSE t1

-----------------------------------------------------------------------------
(* The stack and the other data instructions *)

emit_push(t, src) ==
    emit_mov(emit_lea(t, Mem("rsp", -8), Reg("rsp"), 8), src, Mem("rsp", 0), 8, 8, FALSE)

emit_pop(t, dest) ==
    emit_lea(emit_mov(t, Mem("rsp", 0), dest, 8, 8, FALSE), Mem("rsp", 8), Reg("rsp"), 8)

(* The target is read before rip is pushed: it may be relative to rsp. *)
emit_call(t, i) ==
    LET target == emit_fetch(t, i.operands[1], 8, FALSE)
    IN  emit_store(emit_push(t, Reg("rip")), Reg("rip"), 8, target)

emit_ret(t) == emit_pop(t, Reg("rip"))

emit_enter(t, i) ==
    LET t1 == emit_push(t, Reg("rbp"))
        t2 == emit_mov(t1, Reg("rsp"), Reg("rbp"), 8, 8, FALSE)
    IN  emit_lea(t2, Mem("rsp", -i.operands[1].imm), Reg("rsp"), 8)

emit_leave(t) == emit_pop(emit_mov(t, Reg("rbp"), Reg("rsp"), 8, 8, FALSE), Reg("rbp"))

emit_xchg(t, i) ==
    LET src  == i.operands[1]
        dest == i.operands[2]
        s    == emit_fetch(t, src, i.size1, FALSE)
        d    == emit_fetch(t, dest, i.size1, FALSE)
    IN  emit_store(emit_store(t, src, i.size1, d), dest, i.size1, s)

emit_xadd(t, i) == emit_add(emit_xchg(t, i), i, i.operands[2], i.operands[1], AddArgs)

emit_ctd(t, i) ==
    LET in == emit_fetch(t, Reg("rax"), i.size1, TRUE)
    IN  emit_store(t, Reg("rdx"), i.size1, in \div 2^(Bits(i.size1) - 1))

(* Byte k goes to place size-1-k. *)
emit_bswap(t, i) ==
    LET v       == emit_fetch(t, i.operands[1], i.size1, FALSE)
        byte(k) == (v \div 2^Bits(k)) % 2^ByteBits
        pair(k) == byte(k) * 2^Bits(i.size1 - 1 - k) + byte(i.size1 - 1 - k) * 2^Bits(k)
    IN  emit_store(t, i.operands[1], i.size1,
                   IF i.size1 = 4 THEN pair(0) + pair(1)
                   ELSE pair(0) + pair(1) + pair(2) + pair(3))

-----------------------------------------------------------------------------

(* Instructions that only the instrumentation uses: an operand is r14, or  *)
(* r15 in its 32-bit form.                                                 *)
is_instrumentation(i) ==
    \E k \in DOMAIN i.operands :
        LET o == i.operands[k]
        IN  o.mode = "reg" /\ (o.reg = "r14" \/ (o.reg = "r15" /\ i.size1 = 4))

(* emit_function between its prolog and its epilog. *)
emit_function(t0, i, over) ==
    LET t   == [t0 EXCEPT !.r["rip"] = ucast(@ + i.length, 8)]
        op1 == i.operands[1]
        op2 == i.operands[2]
        sub == [AddArgs EXCEPT !.sub = TRUE]
    IN  CASE i.op = "nop" \/ is_instrumentation(i) -> t
          [] i.op = "xchg"  -> emit_xchg(t, i)
          [] i.op = "xadd"  -> emit_xadd(t, i)
          [] i.op = "lea"   -> emit_lea(t, op1, op2, i.size1)
          [] i.op = "mov"   -> emit_mov(t, op1, op2, i.size1, i.size2, i.sign_ext)
          [] i.op = "cmov"  -> emit_cmov(t, i)
          [] i.op = "c_td"  -> emit_ctd(t, i)
          [] i.op = "push"  -> emit_push(t, op1)
          [] i.op = "pop"   -> emit_pop(t, op1)
          [] i.op = "enter" -> emit_enter(t, i)
          [] i.op = "leave" -> emit_leave(t)
          [] i.op = "add"   -> emit_add(t, i, op2, op1, AddArgs)
          [] i.op = "sub"   -> emit_add(t, i, op2, op1, sub)
          [] i.op = "adc"   -> emit_add(t, i, op2, op1, [AddArgs EXCEPT !.carry = TRUE])
          [] i.op = "sbb"   -> emit_add(t, i, op2, op1, [sub EXCEPT !.carry = TRUE])
          [] i.op = "cmp"   -> emit_add(t, i, op2, op1,
                                        [sub EXCEPT !.target = "none", !.clobber = TRUE])
          [] i.op = "neg"   -> emit_add(t, i, Imm(0), op1, [sub EXCEPT !.target = "r"])
          [] i.op = "inc"   -> emit_add(t, i, op1, Imm(1), [AddArgs EXCEPT !.set_carry = FALSE])
          [] i.op = "dec"   -> emit_add(t, i, op1, Imm(1), [sub EXCEPT !.set_carry = FALSE])
          [] i.op = "mul"   -> emit_mul(t, i)
          [] i.op = "div"   -> emit_div(t, i)
          [] i.op \in {"and", "or", "xor"} -> emit_logical(t, i, TRUE)
          [] i.op = "not"   -> emit_not(t, i)
          [] i.op \in {"rc", "ro", "sh", "sh_d"} -> emit_shift(t, i, over)
          [] i.op = "call"  -> emit_call(t, i)
          [] i.op = "ret"   -> emit_ret(t)
          [] i.op \in {"jmp", "j"} -> emit_jump(t, i)
          [] i.op = "set"   -> emit_set(t, i)
          [] i.op \in {"bt", "btc", "btr", "bts"} -> emit_bittest(t, i)
          [] i.op = "test"  -> emit_logical(t, i, FALSE)
          [] i.op = "bswap" -> emit_bswap(t, i)
          [] i.op = "clc"   -> emit_set_flag(t, {"CF"}, {}, FALSE)
          [] i.op = "stc"   -> emit_set_flag(t, {"CF"}, {"CF"}, FALSE)
          [] i.op = "cmc"   -> emit_cmc(t)
=============================================================================
