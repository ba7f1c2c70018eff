------------------------------ MODULE InterpFn ------------------------------
(***************************************************************************)
(* The functions interp_fn_<address> that parseltongue86 generates, run in *)
(* lockstep with a processor.  A function loads the register file gregs    *)
(* into temporaries (prolog), runs the code of each instruction of its     *)
(* cartridge on them (X86IR) and writes the registers noted in             *)
(* BB_ASSIGNED_REGS back (epilog).  A cartridge is straight-line code: a   *)
(* jump, call or return is its last instruction.                           *)
(***************************************************************************)
EXTENDS X86

CONSTANTS
    Programs,      \* kinds of straight-line programs
    Instrs(_),     \* the instructions that those of a kind are made of
    Length(_),     \* how many of them a program runs
    RegValues(_),  \* initial values of rax and rdx
    Counts(_),     \* initial values of rcx (shift amounts)
    InitFlags(_),  \* initial sets of flags
    Slots          \* addresses of the 8-byte cells of memory

VARIABLES
    program,  \* the kind of the program
    gregs,    \* the register file of the interpreter
    fn,       \* the running function: temporaries, memory, BB_ASSIGNED_REGS
    phase,    \* "closed", "open", or "branched" (only the epilog is left)
    cpu,      \* the processor
    dead,     \* flags with no defined or no dependable value
    strayed,  \* a divergent instruction has been run
    count     \* instructions run

vars == <<program, gregs, fn, phase, cpu, dead, strayed, count>>

Registers == {"rax", "rcx", "rdx", "rsp", "rbp", "rip", "r14"}
NoTemps   == [x \in Registers |-> 0]
CallFrame == CHOOSE a \in Slots : {a - 8, a + 8} \subseteq Slots

Init ==
    /\ program \in Programs
    /\ \E a, d \in RegValues(program), c \in Counts(program), f \in InitFlags(program) :
         gregs = [r |-> [x \in Registers |-> CASE x = "rax" -> a [] x = "rdx" -> d
                            [] x = "rcx" -> c [] x \in {"rsp", "rbp"} -> CallFrame
                            [] OTHER -> 0],
                  fl |-> f]
    /\ fn = [r |-> NoTemps, fl |-> {}, mem |-> [a \in Slots |-> 3], refs |-> {"rip"}]
    /\ phase = "closed"
    /\ cpu = [r |-> gregs.r, fl |-> gregs.fl, mem |-> fn.mem]
    /\ dead = {}
    /\ strayed = FALSE
    /\ count = 0

-----------------------------------------------------------------------------

emit_function_prolog ==
    /\ phase = "closed"
    /\ count < Length(program) /\ ~strayed
    /\ fn' = [fn EXCEPT !.r = gregs.r, !.fl = gregs.fl]
    /\ phase' = "open"
    /\ UNCHANGED <<program, gregs, cpu, dead, strayed, count>>

(* The cells an instruction touches in state s. *)
Cells(s, i) ==
    LET rsp == s.r["rsp"]
        mems == {k \in DOMAIN i.operands : i.operands[k].mode = "mem"}
    IN  (IF i.op = "lea" THEN {} ELSE {ucast(addr(s, i.operands[k]), 8) : k \in mems})
          \cup (IF i.op \in {"push", "call", "enter"} THEN {ucast(rsp - 8, 8)} ELSE {})
          \cup (IF i.op \in {"pop", "ret"} THEN {rsp} ELSE {})
          \cup (IF i.op = "leave" THEN {s.r["rbp"]} ELSE {})

(* Instructions that fault or whose result is undefined are not run: a     *)
(* division whose quotient does not fit, a double shift by more than its   *)
(* width; nor a rotate by more than its width, which C leaves undefined.   *)
Defined(s, i) ==
    /\ Cells(s, i) \subseteq Slots
    /\ i.op = "div" =>
         LET size == i.size1
             v    == Get(s, HighPart(size), size) * 2^Bits(size) + Get(s, Reg("rax"), size)
             num(x, n) == IF i.sign_ext THEN scast(x, n) ELSE x
             b    == num(Get(s, i.operands[1], size), size)
         IN  b # 0 /\ LET q == CQuot(num(v, 2 * size), b) IN q = num(ucast(q, size), size)
    /\ i.op \in {"rc", "ro", "sh_d"} => ShiftAmount(s, i) <= Bits(i.size2)

(* Flags the emitted code does not compute as the processor does: the      *)
(* parity flag is inverted, inc and dec clear the carry, shifts take the   *)
(* sign from the low byte, rotates recompute zero and sign, and signed     *)
(* multiplication extends its operands with zeros.                         *)
Lost(s, i) ==
    (FlagsDefined(s, i) \cap {"PF"})
      \cup (IF i.op \in {"inc", "dec"} THEN {"CF"} ELSE {})
      \cup (IF i.op \in {"sh", "sh_d"} /\ i.size2 > 1 /\ FlagsDefined(s, i) # {} THEN {"SF"} ELSE {})
      \cup (IF i.op \in {"rc", "ro"} /\ FlagsDefined(s, i) # {} THEN {"ZF", "SF", "PF"} ELSE {})
      \cup (IF i.op = "mul" /\ i.sign_ext THEN {"CF", "OF"} ELSE {})

(* Whether the address of o depends on register x, or o is x. *)
Uses(o, x) == IF o.mode = "mem" THEN x \in {o.base, o.index} ELSE o.mode = "reg" /\ o.reg = x

(* An instruction whose emitted C leaves other registers or memory than    *)
(* the processor does in state s:                                          *)
(* - a negative value added to the masked register by a 1- or 2-byte store *)
(*   (operand.py 326-338): not, and with a negative result movsx, cbtw,    *)
(*   cwtd, sar and idiv;                                                   *)
(* - push and pop move rsp before, or after, their operand uses it, the    *)
(*   other way round than the processor (instruction.py, _emit_push and    *)
(*   _emit_pop);                                                           *)
(* - the upper half of a one-operand imul of a negative number (_emit_mul  *)
(*   extends the unsigned operands);                                       *)
(* - an exchange of a register with the memory it points to (_emit_xchg    *)
(*   stores the register first);                                           *)
(* - a double shift or rotate through carry by 0, where C shifts by the    *)
(*   full width of an int (_emit_shift).                                   *)
Divergent(s, i) ==
    LET o      == i.operands
        neg(x, size) == scast(Get(s, x, size), size) < 0
        partial(x, size) == size <= 2 /\ x.mode = "reg" /\ ~x.hi
    IN  CASE i.op = "not"  -> partial(o[1], i.size1)
          [] i.op = "mov"  -> i.sign_ext /\ partial(o[2], i.size2) /\ neg(o[1], i.size1)
          [] i.op = "c_td" -> i.size1 = 2 /\ neg(Reg("rax"), 2)
          [] i.op = "sh"   -> i.sign_ext /\ partial(o[2], i.size2) /\ neg(o[2], i.size2)
          [] i.op = "div"  -> /\ i.sign_ext /\ i.size1 <= 2
                              /\ neg(o[1], i.size1) \/ neg(HighPart(i.size1), i.size1)
          [] i.op \in {"push", "pop"} -> Uses(o[1], "rsp")
          [] i.op = "mul"  -> /\ i.sign_ext /\ Len(o) = 1
                              /\ neg(o[1], i.size1) \/ neg(Reg("rax"), i.size1)
          [] i.op \in {"xchg", "xadd"} ->
                o[1].mode = "reg" /\ o[2].mode = "mem" /\ Uses(o[2], o[1].reg)
          [] i.op \in {"rc", "sh_d"} -> i.size2 >= 4 /\ ShiftAmount(s, i) = 0
          [] OTHER -> FALSE

(* One instruction, on a path that reads no dead flag.  Where a divergent  *)
(* one has been run there is nothing to compare any more.                  *)
Instr ==
    \E i \in Instrs(program), over \in BOOLEAN :
        /\ phase = "open"
        /\ count < Length(program) /\ ~strayed
        /\ Defined(cpu, i)
        /\ FlagsRead(i) \cap dead = {}
        /\ fn' = emit_function(fn, i, over)
        /\ cpu' = Execute(cpu, i)
        /\ dead' = (dead \ FlagsDefined(cpu, i)) \cup FlagsUndefined(cpu, i) \cup Lost(cpu, i)
        /\ strayed' = Divergent(cpu, i)
        /\ phase' = IF i.op \in {"call", "ret", "jmp", "j"} THEN "branched" ELSE "open"
        /\ count' = count + 1
        /\ UNCHANGED <<program, gregs>>

(* print_reg_writes and clear_bb_reg_refs. *)
emit_function_epilog ==
    /\ phase \in {"open", "branched"}
    /\ count > 0
    /\ gregs' = [r  |-> [x \in Registers |-> IF x \in fn.refs THEN fn.r[x] ELSE gregs.r[x]],
                 fl |-> IF "efl" \in fn.refs THEN fn.fl ELSE gregs.fl]
    /\ fn' = [fn EXCEPT !.r = NoTemps, !.fl = {}, !.refs = {"rip"}]
    /\ phase' = "closed"
    /\ UNCHANGED <<program, cpu, dead, strayed, count>>

Done == phase = "closed" /\ (count = Length(program) \/ strayed) /\ UNCHANGED vars

Next == emit_function_prolog \/ Instr \/ emit_function_epilog \/ Done

Spec == Init /\ [][Next]_vars

-----------------------------------------------------------------------------
(* Between two functions the interpreter's register file and memory are    *)
(* what the processor has after the same instructions, as long as none of  *)
(* them was divergent; and so is every flag that is not dead: no register  *)
(* that a function assigns is missing from its write-back, and every       *)
(* branch goes where the processor's goes.  r14 belongs to the             *)
(* instrumentation.                                                        *)
IRAgrees ==
    phase = "closed" /\ ~strayed =>
        /\ \A x \in Registers \ {"r14"} : gregs.r[x] = cpu.r[x]
        /\ fn.mem = cpu.mem
        /\ gregs.fl \ dead = cpu.fl \ dead

(* A store to the bottom two bytes of a register, "drop bottom two bytes"  *)
(* and "add in two bytes" (operand.py lines 335 and 337), leaves the bytes *)
(* above them as the processor does.  The code does not: it adds a         *)
(* negative value with its sign.                                           *)
UpperBytesKept ==
    phase = "closed" =>
        \A x \in {"rax", "rdx"} : gregs.r[x] \div 2^Bits(2) = cpu.r[x] \div 2^Bits(2)

(* instruction.py line 604: "Capture parity flag."                         *)
ParityFlagCaptured == phase = "closed" => ("PF" \in gregs.fl) = ("PF" \in cpu.fl)
=============================================================================
