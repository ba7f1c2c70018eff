---------------------------- MODULE Springboard ----------------------------
(***************************************************************************)
(* The TASE springboard (test/tase/springboard.S) and the two C functions  *)
(* that carry control into and out of it (test/tase/common.c).             *)
(*                                                                         *)
(* A target program is a path of "cartridges" (instrumented basic blocks)  *)
(* 1..N followed by exit_tase, which is cartridge N+1.  Each cartridge is  *)
(* a header, which jumps to sb_reopen or (first cartridge of a modeled     *)
(* function) to sb_modeled, and a body.  Bodies run natively in hardware   *)
(* transactions that batch several cartridges; a header's jump checks that *)
(* the bodies run since the last check touched no poisoned (symbolic)      *)
(* data.  Whatever stops a transaction ejects to the host: the KLEE        *)
(* interpreter (TaseInterp) or the stand-alone driver (Harness).           *)
(*                                                                         *)
(* Data is abstracted to who wrote it: value i of rax or of the flags is   *)
(* what cartridge i leaves there, 0 what enter_tase puts there, and        *)
(* Clobbered any value no cartridge left.  The flags are those that lahf   *)
(* moves (SF, ZF, AF, PF, CF); no cartridge may depend on the others.  The *)
(* effect of a cartridge on the target's memory is mem.work[i].            *)
(***************************************************************************)
EXTENDS Integers, FiniteSets

CONSTANTS
    N,             \* cartridges of the program before exit_tase
    TranMaxReset,  \* the immediate stored in tran_max (16 in the code)
    MaxAbortCode,  \* the largest tran_ctr with an XABORT of its own (8)
    AsyncCauses,   \* status bits of the aborts the hardware raises by itself
    CounterMod     \* 2^width of the abort counters (2^32 in the code)

(* Bits of the RTM abort status, tase_interp.h. *)
TSX_XABORT    == 0
TSX_RETRY     == 1
TSX_CONFLICT  == 2
TSX_CAPACITY  == 3
TSX_DEBUG     == 4
TSX_NESTED    == 5
TSX_NUM_CODES == 6

ASSUME ProgramAssumption == N \in Nat \ {0}
ASSUME TranMaxAssumption == TranMaxReset \in Nat \ {0}
ASSUME AbortCodeAssumption == MaxAbortCode \in 0..253
ASSUME AsyncAssumption == AsyncCauses \subseteq SUBSET (TSX_RETRY..TSX_NESTED)
ASSUME CounterAssumption == CounterMod \in Nat \ {0}

VARIABLES
    taint,    \* cartridges whose body touches poisoned data
    modeled,  \* cartridges whose header jumps to sb_modeled
    pc,       \* where the processor is
    cpu,      \* the registers of the target
    mem,      \* the memory a transaction can write
    inTx,     \* a hardware transaction is open
    chk,      \* registers and memory as they were at the last xbegin
    eax,      \* the abort status the fallback path receives
    ctx,      \* target_ctx: the saved registers and abort status
    stats     \* target_ctx.abort_count*

sbvars == <<taint, modeled, pc, cpu, mem, inTx, chk, eax, ctx, stats>>

-----------------------------------------------------------------------------
(* Types *)

Cartridges == 1..N
exit_tase  == N + 1
Clobbered  == N + 1
Values     == 0..N+1
Positions  == [at : {"head", "body"}, i : 1..N+1]
Header(i)    == [at |-> "head", i |-> i]
Body(i)    == [at |-> "body", i |-> i]

(* What a 16-byte SIMD register holds, as far as pcmpeqw, por and ptest    *)
(* can tell: no bit set, a word equal to POISON_REFERENCE16, the all-ones  *)
(* result of a comparison, or anything else.                               *)
Words == {"zero", "poison", "ones", "plain"}

Regs == [rax : Values, flags : Values, r14 : Values, r15 : Positions,
         xref : Words, xacc : Words, xdata : Words]

Marks == {"none", "native", "interp", "twice"}

Mem == [tran_ctr : Nat, tran_max : Nat, saved_rax : Values,
        tase_springboard : {"null", "sb_open", "sb_disabled"},
        work : [Cartridges -> Marks]]

Statuses == [bits : SUBSET (0..TSX_NUM_CODES-1), imm : 0..255]
NoStatus == [bits |-> {}, imm |-> 0]

Context == [rip : Positions, regs : Regs,
            abort_status : Statuses, last_abort_status : Statuses]

Counters == [total : 0..CounterMod-1, unknown : 0..CounterMod-1,
             modeled : 0..CounterMod-1, poison : 0..CounterMod-1,
             counts : [0..TSX_NUM_CODES-1 -> 0..CounterMod-1]]

-----------------------------------------------------------------------------
(* Memory at load time and the zeroed target context *)

ZeroRegs == [rax |-> 0, flags |-> 0, r14 |-> 0, r15 |-> Header(1),
             xref |-> "zero", xacc |-> "zero", xdata |-> "zero"]

LoadedMem == [tran_ctr |-> 0, tran_max |-> TranMaxReset, saved_rax |-> 0,
              tase_springboard |-> "null", work |-> [i \in Cartridges |-> "none"]]

ZeroContext == [rip |-> Header(1), regs |-> ZeroRegs,
                abort_status |-> NoStatus, last_abort_status |-> NoStatus]

ZeroCounters == [total |-> 0, unknown |-> 0, modeled |-> 0, poison |-> 0,
                 counts |-> [b \in 0..TSX_NUM_CODES-1 |-> 0]]

(* The processor holds no checkpoint outside a transaction. *)
NoCheckpoint == [cpu |-> ZeroRegs, mem |-> LoadedMem]

SpringboardInit ==
    /\ taint \in SUBSET Cartridges
    /\ \E s \in SUBSET Cartridges : modeled = s \cup {exit_tase}
    /\ pc = "start"
    /\ cpu = ZeroRegs
    /\ mem = LoadedMem
    /\ inTx = FALSE
    /\ chk = NoCheckpoint
    /\ eax = NoStatus
    /\ ctx = ZeroContext
    /\ stats = ZeroCounters

(* Record that cartridge i has run once more. *)
Executed(work, i, how) ==
    [work EXCEPT ![i] = IF @ = "none" THEN how ELSE "twice"]

-----------------------------------------------------------------------------
(* Instructions and macros *)

pcmpeqw(a, b) == IF a = b THEN "ones" ELSE "zero"

por(a, b) == IF a = "zero" THEN b ELSE a

(* Mutant: the comparison overwrites the accumulator instead of being      *)
(* folded into it.                                                         *)
sbm_compare_poison_overwrites(c) ==
    LET cmp == pcmpeqw(c.xref, c.xdata)
    IN  [c EXCEPT !.xdata = cmp, !.xacc = cmp]

(* Lines 28 and 29 of the macro: the data register becomes the result of   *)
(* the comparison and is folded into the accumulator.                      *)
sbm_compare_poison(c) ==
    LET cmp == pcmpeqw(c.xref, c.xdata)
    IN  [c EXCEPT !.xdata = cmp, !.xacc = por(@, cmp)]

(* ptest leaves ZF clear (jnz is taken) iff the accumulator is not zero. *)
Poisoned(c) == sbm_compare_poison(c).xacc # "zero"

(* Mutant: rax is not saved in r14. *)
sbm_init_tran_no_save(c) == [c EXCEPT !.xdata = "zero", !.xacc = "zero"]

sbm_init_tran(c) == [c EXCEPT !.xdata = "zero", !.xacc = "zero", !.r14 = c.rax]

(* The register state and the target of a jump to pos: into a body, or     *)
(* through a header, which loads r15 with the body's address.              *)
Arrive(c, pos) == [c EXCEPT !.r15 = Body(pos.i)]

ArrivePc(pos) ==
    CASE pos.at = "body"       -> "body"
      [] pos.i \in modeled     -> "sb_modeled"
      [] OTHER                 -> "sb_reopen"

(* xbegin: registers c and memory m are what an abort goes back to. *)
Xbegin(c, m) == inTx' = TRUE /\ chk' = [cpu |-> c, mem |-> m]

EndTx == inTx' = FALSE /\ chk' = NoCheckpoint

(* An abort for any reason: registers and memory go back to xbegin, eax    *)
(* holds the status and control goes to .Lsb_fallback.                     *)
Abort(status) ==
    /\ cpu' = chk.cpu
    /\ mem' = chk.mem
    /\ eax' = status
    /\ EndTx
    /\ pc' = "sb_fallback"
    /\ UNCHANGED <<taint, modeled, ctx, stats>>

-----------------------------------------------------------------------------
(* Entry *)

(* Mutant: tran_ctr is not reset. *)
sb_inject_keeps_ctr(c, m) ==
    LET r1 == sbm_init_tran(c.regs)
    IN  /\ mem' = m
        /\ Xbegin(r1, m)
        /\ cpu' = Arrive(r1, r1.r15)
        /\ pc' = ArrivePc(r1.r15)

(* sb_inject, given target_ctx c and memory m: load the registers, open a  *)
(* transaction and jump to r15.                                            *)
sb_inject(c, m) ==
    LET m1 == [m EXCEPT !.tran_ctr = 0]
        r1 == sbm_init_tran(c.regs)
    IN  /\ mem' = m1
        /\ Xbegin(r1, m1)
        /\ cpu' = Arrive(r1, r1.r15)
        /\ pc' = ArrivePc(r1.r15)

(* tase_inject, called by the host with target_ctx c, memory m.            *)
tase_inject(c, m, enable_tase) ==
    LET sb == IF enable_tase THEN "sb_open" ELSE "sb_disabled"
        c1 == [c EXCEPT !.last_abort_status = c.abort_status,
                        !.abort_status = NoStatus,
                        !.regs.r15 = c.rip]
    IN  /\ ctx' = c1
        /\ sb_inject(c1, [m EXCEPT !.tase_springboard = sb])
        /\ UNCHANGED <<taint, modeled, eax>>

(* The context enter_tase builds: all zero except for the entry point and  *)
(* the poison reference.                                                   *)
EntryContext == [ZeroContext EXCEPT !.regs.xref = "poison"]

enter_tase(enable_tase) ==
    /\ pc = "start"
    /\ tase_inject(EntryContext, mem, enable_tase)
    /\ stats' = ZeroCounters

-----------------------------------------------------------------------------
(* Native execution inside a transaction *)

(* The body of a cartridge.  A body that touches poisoned data leaves it   *)
(* in the data register or, already compared, in the accumulator.          *)
RunBody ==
    LET i == cpu.r15.i
    IN  /\ pc = "body"
        /\ i \in Cartridges
        /\ \E w \in IF i \in taint THEN {<<"poison", cpu.xacc>>, <<"plain", "ones">>}
                                   ELSE {<<"plain", cpu.xacc>>} :
             cpu' = Arrive([cpu EXCEPT !.rax = i, !.flags = i,
                                       !.xdata = w[1], !.xacc = w[2]], Header(i + 1))
        /\ mem' = [mem EXCEPT !.work = Executed(@, i, "native")]
        /\ pc' = ArrivePc(Header(i + 1))
        /\ UNCHANGED <<taint, modeled, inTx, chk, eax, ctx, stats>>

(* Whether the incremented transaction counter leaves the batch open (jl). *)
BatchOpen(m) == m.tran_ctr + 1 < m.tran_max

(* Mutant: the poison check is left to the close of the batch. *)
sb_reopen_no_close_unchecked ==
    /\ pc = "sb_reopen"
    /\ BatchOpen(mem)
    /\ cpu' = [sbm_compare_poison(cpu) EXCEPT !.r14 = Clobbered]
    /\ mem' = [mem EXCEPT !.saved_rax = cpu.rax, !.tran_ctr = @ + 1]
    /\ pc' = "body"
    /\ UNCHANGED <<taint, modeled, inTx, chk, eax, ctx, stats>>

(* Mutant: sahf is missing, so the flags are those of the check. *)
sb_reopen_no_close_no_sahf ==
    /\ pc = "sb_reopen"
    /\ ~Poisoned(cpu)
    /\ BatchOpen(mem)
    /\ cpu' = [sbm_compare_poison(cpu) EXCEPT !.r14 = Clobbered, !.flags = Clobbered]
    /\ mem' = [mem EXCEPT !.saved_rax = cpu.rax, !.tran_ctr = @ + 1]
    /\ pc' = "body"
    /\ UNCHANGED <<taint, modeled, inTx, chk, eax, ctx, stats>>

(* sb_reopen, .Lno_close_tran: go on in the same transaction.  r14 is left *)
(* holding tran_max; rax and the flags come back from saved_rax and ah.    *)
sb_reopen_no_close ==
    /\ pc = "sb_reopen"
    /\ ~Poisoned(cpu)
    /\ BatchOpen(mem)
    /\ cpu' = [sbm_compare_poison(cpu) EXCEPT !.r14 = Clobbered]
    /\ mem' = [mem EXCEPT !.saved_rax = cpu.rax, !.tran_ctr = @ + 1]
    /\ pc' = "body"
    /\ UNCHANGED <<taint, modeled, inTx, chk, eax, ctx, stats>>

(* The memory a closed batch leaves for the next transaction. *)
ClosedMem(m) == [m EXCEPT !.saved_rax = cpu.rax,
                          !.tran_max = TranMaxReset, !.tran_ctr = 0]

(* sb_reopen, .Lclose_tran: commit, and open the next transaction. *)
sb_reopen_close ==
    LET c1 == sbm_init_tran(cpu)
        m1 == ClosedMem(mem)
    IN  /\ pc = "sb_reopen"
        /\ ~Poisoned(cpu)
        /\ ~BatchOpen(mem)
        /\ cpu' = c1
        /\ mem' = m1
        /\ Xbegin(c1, m1)
        /\ pc' = "body"
        /\ UNCHANGED <<taint, modeled, eax, ctx, stats>>

(* What sb_modeled leaves in memory: tran_ctr is not reset here. *)
ModeledMem(m) == [m EXCEPT !.saved_rax = cpu.rax, !.tran_max = TranMaxReset]

(* The status sb_modeled fakes: XABORT with immediate 0xff. *)
ModeledStatus == [bits |-> {TSX_XABORT}, imm |-> 255]

(* sb_modeled on clean data: commit and eject.  ptest has overwritten the  *)
(* flags and the status has overwritten rax.                               *)
sb_modeled ==
    /\ pc = "sb_modeled"
    /\ ~Poisoned(cpu)
    /\ cpu' = [sbm_compare_poison(cpu) EXCEPT !.rax = Clobbered, !.flags = Clobbered]
    /\ mem' = ModeledMem(mem)
    /\ EndTx
    /\ eax' = ModeledStatus
    /\ pc' = "sb_fallback"
    /\ UNCHANGED <<taint, modeled, ctx, stats>>

(* The XABORT immediate: tran_ctr, or the fall-through one past the table. *)
AbortCode(m) == IF m.tran_ctr <= MaxAbortCode THEN m.tran_ctr ELSE MaxAbortCode + 1

(* .Lsb_abort, from either header check. *)
sb_abort ==
    /\ pc \in {"sb_reopen", "sb_modeled"}
    /\ Poisoned(cpu)
    /\ Abort([bits |-> {TSX_XABORT}, imm |-> AbortCode(mem)])

(* The processor aborts the transaction on its own: interrupt or page      *)
(* fault (no bit), conflict, capacity.                                     *)
TsxAbort ==
    /\ inTx
    /\ \E bits \in AsyncCauses : Abort([bits |-> bits, imm |-> 0])

-----------------------------------------------------------------------------
(* Ejection *)

(* Mutant: a counter one value too wide. *)
Inc_wide(n) == (n + 1) % (CounterMod + 1)

Inc(n) == (n + 1) % CounterMod

(* Mutant: the modeled immediate is tested without the XABORT bit. *)
CountAbort_no_mask(s, a) ==
    [total   |-> Inc(s.total),
     unknown |-> IF a.bits = {} THEN Inc(s.unknown) ELSE s.unknown,
     modeled |-> IF a.imm # 0 THEN Inc(s.modeled) ELSE s.modeled,
     poison  |-> IF a.imm = 0 THEN Inc(s.poison) ELSE s.poison,
     counts  |-> [b \in 0..TSX_NUM_CODES-1 |->
                    IF b \in a.bits THEN Inc(s.counts[b]) ELSE s.counts[b]]]

(* tase_eject's accounting for an ejection with status a. *)
CountAbort(s, a) ==
    [total   |-> Inc(s.total),
     unknown |-> IF a.bits = {} THEN Inc(s.unknown) ELSE s.unknown,
     modeled |-> IF TSX_XABORT \in a.bits /\ a.imm # 0 THEN Inc(s.modeled) ELSE s.modeled,
     poison  |-> IF TSX_XABORT \in a.bits /\ a.imm = 0 THEN Inc(s.poison) ELSE s.poison,
     counts  |-> [b \in 0..TSX_NUM_CODES-1 |->
                    IF b \in a.bits THEN Inc(s.counts[b]) ELSE s.counts[b]]]

(* The register state saved in target_ctx: rax is taken back from r14. *)
Stored(c) == [c EXCEPT !.rax = c.r14]

(* Mutant: tase_eject leaves rip where the injection put it. *)
EjectedContext_old_rip(c) == [c EXCEPT !.abort_status = eax, !.regs = Stored(cpu)]

(* target_ctx after sb_eject's stores and tase_eject's rip = r15. *)
EjectedContext(c) ==
    [c EXCEPT !.abort_status = eax, !.regs = Stored(cpu), !.rip = cpu.r15]

(* .Lsb_fallback, .Lsb_eject and tase_eject: save the status and the       *)
(* registers, disable the springboard, account for the abort and longjmp   *)
(* into the host's call of tase_inject.  From there on the registers are   *)
(* the host's; none of its values comes back into the target.              *)
sb_eject ==
    /\ pc = "sb_fallback"
    /\ ctx' = EjectedContext(ctx)
    /\ stats' = CountAbort(stats, eax)
    /\ mem' = [mem EXCEPT !.tase_springboard = "sb_disabled"]
    /\ cpu' = ZeroRegs
    /\ eax' = NoStatus
    /\ pc' = "host"
    /\ UNCHANGED <<taint, modeled, inTx, chk>>

SpringboardStep ==
    \/ RunBody
    \/ sb_reopen_no_close
    \/ sb_reopen_close
    \/ sb_modeled
    \/ sb_abort
    \/ TsxAbort
    \/ sb_eject

-----------------------------------------------------------------------------
(* Properties that hold whichever host drives the springboard *)

(* The memory and the position that would survive an abort at this moment. *)
CommittedWork == IF inTx THEN chk.mem.work ELSE mem.work

CommittedAt ==
    IF inTx THEN chk.cpu.r15.i
    ELSE IF pc = "sb_fallback" THEN cpu.r15.i
    ELSE ctx.rip.i

(* The hardware reports one cause of its own at most: an abort it raises   *)
(* has no bit set, or either the conflict or the capacity bit.             *)
OneCause ==
    \A bits \in AsyncCauses :
        bits # {} => (TSX_CONFLICT \in bits <=> TSX_CAPACITY \notin bits)

(* Every ejection is accounted for once, modulo the counters' width, when  *)
(* OneCause holds: as unknown, as an XABORT (either a poison abort with    *)
(* immediate 0 or one with a non-zero immediate), as a conflict or as a    *)
(* capacity overflow.                                                      *)
AbortsAccountedFor ==
    /\ stats.counts[TSX_XABORT] = (stats.modeled + stats.poison) % CounterMod
    /\ stats.total = (stats.unknown + stats.counts[TSX_XABORT]
                        + stats.counts[TSX_CONFLICT] + stats.counts[TSX_CAPACITY]) % CounterMod

(* No cartridge that touches poisoned data, and none of a modeled          *)
(* function, is ever committed natively, however often it is run: the      *)
(* header check of the next cartridge always aborts before xend.           *)
NativeIsConcrete ==
    \A i \in Cartridges :
        CommittedWork[i] \in {"native", "twice"} => i \notin taint /\ i \notin modeled

(* Even speculatively nothing runs past a poisoned cartridge: when a body  *)
(* starts inside a transaction, all bodies run so far in it were clean, so *)
(* no symbolic value is used as a jump target or an address twice removed  *)
(* (the check happens at every header, not only when the batch closes).    *)
NoSpeculationPastPoison ==
    inTx /\ pc = "body" =>
        \A i \in chk.cpu.r15.i..cpu.r15.i-1 : i \notin taint /\ i \notin modeled
=============================================================================
