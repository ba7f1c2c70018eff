------------------------- MODULE SpringboardProofs -------------------------
(***************************************************************************)
(* What is proved of the springboard whichever host drives it: its steps   *)
(* keep the types, an invariant of control, taint and work, and the        *)
(* accounting of aborts.  TaseProofs and HarnessProofs add the steps of    *)
(* the two hosts.                                                          *)
(***************************************************************************)
EXTENDS Springboard, TLAPS

SbAssumptions ==
    /\ N \in Nat \ {0}
    /\ TranMaxReset \in Nat \ {0}
    /\ MaxAbortCode \in 0..253
    /\ AsyncCauses \subseteq SUBSET (TSX_RETRY..TSX_NESTED)
    /\ CounterMod \in Nat \ {0}

LEMMA AllSbAssumptions == SbAssumptions
BY ProgramAssumption, TranMaxAssumption, AbortCodeAssumption, AsyncAssumption,
   CounterAssumption DEF SbAssumptions

-----------------------------------------------------------------------------
(* Types of the operators *)

(* The records built at load time and by enter_tase are well typed.        *)
LEMMA InitialTypes ==
    /\ ZeroRegs \in Regs
    /\ LoadedMem \in Mem
    /\ ZeroContext \in Context
    /\ EntryContext \in Context
    /\ ZeroCounters \in Counters
    /\ NoStatus \in Statuses
    /\ ModeledStatus \in Statuses
    /\ NoCheckpoint \in [cpu : Regs, mem : Mem]
<1> USE AllSbAssumptions DEF SbAssumptions
<1>1. ZeroRegs \in Regs
  BY DEF ZeroRegs, Regs, Values, Positions, Header, Words
<1>2. LoadedMem \in Mem
  BY DEF LoadedMem, Mem, Values, Marks
<1>3. NoStatus \in Statuses
  BY DEF NoStatus, Statuses, TSX_NUM_CODES
<1>4. ModeledStatus \in Statuses
  BY DEF ModeledStatus, Statuses, TSX_NUM_CODES, TSX_XABORT
<1>5. ZeroContext \in Context
  BY <1>1, <1>3 DEF ZeroContext, Context, Positions, Header
<1>6. EntryContext \in Context
  BY <1>1, <1>3 DEF EntryContext, ZeroContext, Context, Positions, Header, Regs, Words
<1>7. ZeroCounters \in Counters
  BY DEF ZeroCounters, Counters
<1> QED
  BY <1>1, <1>2, <1>3, <1>4, <1>5, <1>6, <1>7 DEF NoCheckpoint

(* The springboard's macros map register states to register states.        *)
LEMMA RegTypes ==
    ASSUME NEW c \in Regs, NEW pos \in Positions
    PROVE  /\ sbm_compare_poison(c) \in Regs
           /\ sbm_init_tran(c) \in Regs
           /\ Stored(c) \in Regs
           /\ Arrive(c, pos) \in Regs
           /\ [c EXCEPT !.r15 = pos] \in Regs
BY DEF Regs, sbm_compare_poison, pcmpeqw, por, sbm_init_tran, Stored, Arrive,
       Words, Body, Positions

(* Recording a run of a cartridge keeps the shape of the work record.      *)
LEMMA ExecutedType ==
    ASSUME NEW m \in Mem, NEW i \in Cartridges, NEW how \in {"native", "interp"}
    PROVE  [m EXCEPT !.work = Executed(m.work, i, how)] \in Mem
BY DEF Executed, Mem, Marks

(* tase_eject's counters wrap within their width.                          *)
LEMMA CountersType ==
    ASSUME NEW s \in Counters, NEW a \in Statuses
    PROVE  CountAbort(s, a) \in Counters
<1> USE AllSbAssumptions DEF SbAssumptions
<1>1. \A n \in 0..CounterMod-1 : Inc(n) \in 0..CounterMod-1
  BY DEF Inc
<1> QED
  BY <1>1 DEF Counters, CountAbort, TSX_NUM_CODES

(* The type of every variable of the springboard but pc, whose further     *)
(* values are the host's.                                                  *)
SbType ==
    /\ taint \in SUBSET Cartridges
    /\ modeled \in SUBSET (1..N+1)
    /\ cpu \in Regs
    /\ mem \in Mem
    /\ inTx \in BOOLEAN
    /\ chk \in [cpu : Regs, mem : Mem]
    /\ eax \in Statuses
    /\ ctx \in Context
    /\ stats \in Counters

InTarget == {"body", "sb_reopen", "sb_modeled"}

(* Poisoned, spelled out for a register state with the poison reference.   *)
LEMMA PoisonedMeaning ==
    ASSUME NEW c \in Regs, c.xref = "poison"
    PROVE  Poisoned(c) <=> c.xacc # "zero" \/ c.xdata = "poison"
BY DEF Poisoned, sbm_compare_poison, pcmpeqw, por, Regs

-----------------------------------------------------------------------------
(* The effect of each step, field by field *)

(* An injection of a context at rip.                                       *)
LEMMA InjectEffect ==
    ASSUME NEW c \in Context, NEW m \in Mem,
           tase_inject(c, m, TRUE) \/ tase_inject(c, m, FALSE)
    PROVE  /\ taint' = taint /\ modeled' = modeled /\ eax' = eax
           /\ inTx' = TRUE /\ pc' = ArrivePc(c.rip)
           /\ ctx' \in Context /\ cpu' \in Regs /\ mem' \in Mem
           /\ chk' \in [cpu : Regs, mem : Mem]
           /\ chk'.cpu.r15 = c.rip /\ chk'.cpu.r14 = c.regs.rax
           /\ chk'.cpu.flags = c.regs.flags /\ chk'.cpu.xref = c.regs.xref
           /\ cpu'.r15 = Body(c.rip.i) /\ cpu'.rax = c.regs.rax
           /\ cpu'.flags = c.regs.flags /\ cpu'.xref = c.regs.xref
           /\ cpu'.xacc = "zero" /\ cpu'.xdata = "zero"
           /\ mem'.work = m.work /\ chk'.mem.work = m.work
           /\ mem'.tran_ctr = 0 /\ mem'.tran_max = m.tran_max
<1> DEFINE c1 == [c EXCEPT !.last_abort_status = c.abort_status,
                           !.abort_status = NoStatus,
                           !.regs.r15 = c.rip]
           m1(sb) == [[m EXCEPT !.tase_springboard = sb] EXCEPT !.tran_ctr = 0]
           r1 == sbm_init_tran(c1.regs)
<1>1. c1 \in Context /\ c1.regs = [c.regs EXCEPT !.r15 = c.rip] /\ c.regs \in Regs
  BY InitialTypes DEF Context, Regs
<1>2. /\ r1 \in Regs /\ r1.r15 = c.rip /\ r1.rax = c.regs.rax /\ r1.r14 = c.regs.rax
      /\ r1.flags = c.regs.flags /\ r1.xref = c.regs.xref
      /\ r1.xacc = "zero" /\ r1.xdata = "zero" /\ r1.r15 \in Positions
  BY <1>1 DEF sbm_init_tran, Regs, Context, Words
<1>4. PICK sb \in {"sb_open", "sb_disabled"} :
        /\ ctx' = c1 /\ mem' = m1(sb) /\ cpu' = Arrive(r1, r1.r15)
        /\ inTx' = TRUE /\ chk' = [cpu |-> r1, mem |-> m1(sb)] /\ pc' = ArrivePc(r1.r15)
        /\ taint' = taint /\ modeled' = modeled /\ eax' = eax
  <2>1. CASE tase_inject(c, m, TRUE)
    BY <2>1 DEF tase_inject, sb_inject, Xbegin
  <2>2. CASE tase_inject(c, m, FALSE)
    BY <2>2 DEF tase_inject, sb_inject, Xbegin
  <2> QED
    BY <2>1, <2>2
<1>3. /\ m1(sb) \in Mem /\ m1(sb).work = m.work /\ m1(sb).tran_ctr = 0
      /\ m1(sb).tran_max = m.tran_max
  BY DEF Mem
<1> HIDE DEF c1, m1, r1
<1>5. /\ cpu'.r15 = Body(c.rip.i) /\ cpu'.rax = r1.rax /\ cpu'.flags = r1.flags
      /\ cpu'.xref = r1.xref /\ cpu'.xacc = r1.xacc /\ cpu'.xdata = r1.xdata
      /\ cpu' \in Regs
  BY <1>2, <1>4, RegTypes DEF Arrive, Regs
<1> QED
  BY <1>1, <1>2, <1>3, <1>4, <1>5

(* A body: the next header follows, and the SIMD registers show its data.  *)
LEMMA RunBodyEffect ==
    ASSUME SbType, RunBody
    PROVE  /\ pc = "body" /\ cpu.r15.i \in Cartridges
           /\ SbType' /\ UNCHANGED <<taint, modeled, inTx, chk, eax, ctx, stats>>
           /\ cpu'.rax = cpu.r15.i /\ cpu'.flags = cpu.r15.i /\ cpu'.xref = cpu.xref
           /\ cpu'.r15 = Body(cpu.r15.i + 1)
           /\ IF cpu.r15.i \in taint
              THEN cpu'.xacc # "zero" \/ cpu'.xdata = "poison"
              ELSE cpu'.xacc = cpu.xacc /\ cpu'.xdata = "plain"
           /\ mem'.work = Executed(mem.work, cpu.r15.i, "native")
           /\ mem'.tran_ctr = mem.tran_ctr /\ mem'.tran_max = mem.tran_max
           /\ pc' \in {"sb_reopen", "sb_modeled"}
           /\ pc' = "sb_modeled" <=> cpu.r15.i + 1 \in modeled
<1> USE AllSbAssumptions DEF SbAssumptions
<1> DEFINE i == cpu.r15.i
<1>1. /\ pc = "body" /\ i \in Cartridges /\ i \in Values /\ i + 1 \in 1..N+1
      /\ UNCHANGED <<taint, modeled, inTx, chk, eax, ctx, stats>>
  BY DEF RunBody, Cartridges, Values
<1>2. PICK w \in IF i \in taint THEN {<<"poison", cpu.xacc>>, <<"plain", "ones">>}
                                ELSE {<<"plain", cpu.xacc>>} :
        cpu' = Arrive([cpu EXCEPT !.rax = i, !.flags = i,
                                  !.xdata = w[1], !.xacc = w[2]], Header(i + 1))
  BY DEF RunBody
<1>3. w[1] \in Words /\ w[2] \in Words
  BY <1>2 DEF Words, SbType, Regs
<1>4. [cpu EXCEPT !.rax = i, !.flags = i, !.xdata = w[1], !.xacc = w[2]] \in Regs
  BY <1>1, <1>3 DEF SbType, Regs
<1>5. Header(i + 1) \in Positions
  BY <1>1 DEF Header, Positions
<1>6. cpu' \in Regs
  BY <1>2, <1>4, <1>5, RegTypes
<1>7. /\ cpu'.rax = i /\ cpu'.flags = i /\ cpu'.xref = cpu.xref
      /\ cpu'.xdata = w[1] /\ cpu'.xacc = w[2] /\ cpu'.r15 = Body(i + 1)
  <2>1. cpu \in Regs
    BY DEF SbType
  <2> QED
    BY <1>2, <2>1 DEF Arrive, Header, Regs
<1>8. IF i \in taint THEN cpu'.xacc # "zero" \/ cpu'.xdata = "poison"
                     ELSE cpu'.xacc = cpu.xacc /\ cpu'.xdata = "plain"
  BY <1>2, <1>7
<1>9. mem' \in Mem
  BY <1>1, ExecutedType DEF RunBody, SbType
<1>10. /\ mem'.work = Executed(mem.work, i, "native")
       /\ mem'.tran_ctr = mem.tran_ctr /\ mem'.tran_max = mem.tran_max
  BY DEF RunBody, SbType, Mem
<1>11. pc' \in {"sb_reopen", "sb_modeled"} /\ (pc' = "sb_modeled" <=> i + 1 \in modeled)
  BY DEF RunBody, ArrivePc, Header
<1>12. SbType'
  BY <1>1, <1>6, <1>9 DEF SbType
<1> QED
  BY <1>1, <1>7, <1>8, <1>10, <1>11, <1>12

(* A header check that passes inside a batch.                              *)
LEMMA NoCloseEffect ==
    ASSUME SbType, sb_reopen_no_close, cpu.xref = "poison"
    PROVE  /\ pc = "sb_reopen" /\ pc' = "body" /\ ~Poisoned(cpu)
           /\ SbType' /\ UNCHANGED <<taint, modeled, inTx, chk, eax, ctx, stats>>
           /\ cpu'.rax = cpu.rax /\ cpu'.flags = cpu.flags /\ cpu'.r15 = cpu.r15
           /\ cpu'.xref = cpu.xref /\ cpu'.xacc = "zero" /\ cpu'.xdata = "zero"
           /\ mem'.work = mem.work /\ mem'.tran_ctr = mem.tran_ctr + 1
           /\ mem'.tran_max = mem.tran_max /\ mem.tran_ctr + 1 < mem.tran_max
<1> USE AllSbAssumptions DEF SbAssumptions
<1>1. /\ pc = "sb_reopen" /\ pc' = "body" /\ ~Poisoned(cpu)
      /\ UNCHANGED <<taint, modeled, inTx, chk, eax, ctx, stats>>
      /\ mem.tran_ctr + 1 < mem.tran_max
  BY DEF sb_reopen_no_close, BatchOpen
<1>2. cpu \in Regs /\ mem \in Mem
  BY DEF SbType
<1>3. cpu.xacc = "zero" /\ cpu.xdata # "poison"
  BY <1>1, <1>2, PoisonedMeaning
<1>4. sbm_compare_poison(cpu) = [cpu EXCEPT !.xdata = "zero", !.xacc = "zero"]
  BY <1>2, <1>3 DEF sbm_compare_poison, pcmpeqw, por, Regs
<1>5. cpu' = [[cpu EXCEPT !.xdata = "zero", !.xacc = "zero"] EXCEPT !.r14 = Clobbered]
  BY <1>4 DEF sb_reopen_no_close
<1>6. /\ cpu'.rax = cpu.rax /\ cpu'.flags = cpu.flags /\ cpu'.r15 = cpu.r15
      /\ cpu'.xref = cpu.xref /\ cpu'.xacc = "zero" /\ cpu'.xdata = "zero"
  BY <1>2, <1>5 DEF Regs
<1>7. cpu' \in Regs
  <2>1. Clobbered \in Values
    BY DEF Clobbered, Values
  <2> QED
    BY <1>2, <1>5, <2>1 DEF Regs, Words
<1>8. mem' = [mem EXCEPT !.saved_rax = cpu.rax, !.tran_ctr = @ + 1]
      /\ cpu.rax \in Values /\ mem.tran_ctr + 1 \in Nat
  BY <1>2 DEF sb_reopen_no_close, Regs, Mem
<1>9. /\ mem' \in Mem /\ mem'.work = mem.work /\ mem'.tran_ctr = mem.tran_ctr + 1
      /\ mem'.tran_max = mem.tran_max
  BY <1>2, <1>8 DEF Mem
<1> QED
  BY <1>1, <1>6, <1>7, <1>9 DEF SbType

(* A header check that passes and closes the batch: commit and reopen.     *)
LEMMA CloseEffect ==
    ASSUME SbType, sb_reopen_close
    PROVE  /\ pc = "sb_reopen" /\ pc' = "body" /\ ~Poisoned(cpu)
           /\ SbType' /\ UNCHANGED <<taint, modeled, eax, ctx, stats>>
           /\ inTx' = TRUE /\ chk'.cpu = cpu' /\ chk'.mem = mem'
           /\ cpu'.rax = cpu.rax /\ cpu'.flags = cpu.flags /\ cpu'.r15 = cpu.r15
           /\ cpu'.r14 = cpu.rax
           /\ cpu'.xref = cpu.xref /\ cpu'.xacc = "zero" /\ cpu'.xdata = "zero"
           /\ mem'.work = mem.work /\ mem'.tran_ctr = 0 /\ mem'.tran_max = TranMaxReset
<1> USE AllSbAssumptions DEF SbAssumptions
<1>1. cpu \in Regs /\ mem \in Mem
  BY DEF SbType
<1>2. /\ pc = "sb_reopen" /\ pc' = "body" /\ ~Poisoned(cpu)
      /\ UNCHANGED <<taint, modeled, eax, ctx, stats>>
      /\ inTx' = TRUE /\ chk' = [cpu |-> cpu', mem |-> mem']
      /\ cpu' = sbm_init_tran(cpu) /\ mem' = ClosedMem(mem)
  BY DEF sb_reopen_close, Xbegin
<1>3. /\ cpu' \in Regs /\ cpu'.rax = cpu.rax /\ cpu'.flags = cpu.flags /\ cpu'.r15 = cpu.r15
      /\ cpu'.r14 = cpu.rax
      /\ cpu'.xref = cpu.xref /\ cpu'.xacc = "zero" /\ cpu'.xdata = "zero"
  BY <1>1, <1>2 DEF sbm_init_tran, Regs, Words
<1>4. /\ mem' \in Mem /\ mem'.work = mem.work /\ mem'.tran_ctr = 0
      /\ mem'.tran_max = TranMaxReset
  BY <1>1, <1>2 DEF ClosedMem, Mem, Regs
<1>5. SbType'
  BY <1>2, <1>3, <1>4 DEF SbType
<1> QED
  BY <1>2, <1>3, <1>4, <1>5

(* The header of a modeled function on clean data: commit and eject.       *)
LEMMA ModeledEffect ==
    ASSUME SbType, sb_modeled
    PROVE  /\ pc = "sb_modeled" /\ pc' = "sb_fallback" /\ ~Poisoned(cpu)
           /\ SbType' /\ UNCHANGED <<taint, modeled, ctx, stats>>
           /\ inTx' = FALSE /\ eax' = ModeledStatus
           /\ cpu'.r15 = cpu.r15 /\ cpu'.xref = cpu.xref
           /\ mem'.work = mem.work /\ mem'.saved_rax = cpu.rax
<1> USE AllSbAssumptions DEF SbAssumptions
<1> DEFINE c1 == sbm_compare_poison(cpu)
<1>1. cpu \in Regs /\ mem \in Mem /\ Header(1) \in Positions
  BY DEF SbType, Header, Positions
<1>2. c1 \in Regs /\ c1.r15 = cpu.r15 /\ c1.xref = cpu.xref
  BY <1>1, RegTypes DEF sbm_compare_poison, Regs
<1>3. /\ pc = "sb_modeled" /\ pc' = "sb_fallback" /\ ~Poisoned(cpu)
      /\ UNCHANGED <<taint, modeled, ctx, stats>>
      /\ inTx' = FALSE /\ chk' = NoCheckpoint /\ eax' = ModeledStatus
      /\ cpu' = [c1 EXCEPT !.rax = Clobbered, !.flags = Clobbered]
      /\ mem' = ModeledMem(mem)
  BY DEF sb_modeled, EndTx
<1> HIDE DEF c1
<1>4. Clobbered \in Values
  BY DEF Clobbered, Values
<1>5. cpu' \in Regs /\ cpu'.r15 = cpu.r15 /\ cpu'.xref = cpu.xref
  BY <1>2, <1>3, <1>4 DEF Regs
<1>6. mem' \in Mem /\ mem'.work = mem.work /\ mem'.saved_rax = cpu.rax
  BY <1>1, <1>3 DEF ModeledMem, Mem, Regs
<1>7. SbType'
  BY <1>3, <1>5, <1>6, InitialTypes DEF SbType
<1> QED
  BY <1>3, <1>5, <1>6, <1>7

(* The two ways to abort: their status, and the return to xbegin.          *)
LEMMA AbortEffect ==
    ASSUME SbType, sb_abort \/ TsxAbort
    PROVE  /\ pc' = "sb_fallback" /\ SbType' /\ UNCHANGED <<taint, modeled, ctx, stats>>
           /\ inTx' = FALSE /\ cpu' = chk.cpu /\ mem' = chk.mem
           /\ \/ /\ pc \in {"sb_reopen", "sb_modeled"} /\ Poisoned(cpu)
                 /\ eax' = [bits |-> {TSX_XABORT}, imm |-> AbortCode(mem)]
              \/ inTx /\ \E bits \in AsyncCauses : eax' = [bits |-> bits, imm |-> 0]
<1> USE AllSbAssumptions DEF SbAssumptions
<1>1. ASSUME NEW status \in Statuses, Abort(status)
      PROVE  /\ pc' = "sb_fallback" /\ SbType' /\ UNCHANGED <<taint, modeled, ctx, stats>>
             /\ inTx' = FALSE /\ cpu' = chk.cpu /\ mem' = chk.mem /\ eax' = status
  BY <1>1, InitialTypes DEF SbType, Abort, EndTx
<1>2. CASE sb_abort
  <2>1. [bits |-> {TSX_XABORT}, imm |-> AbortCode(mem)] \in Statuses
    BY DEF TSX_XABORT, TSX_NUM_CODES, Statuses, AbortCode, SbType, Mem
  <2> QED
    BY <1>1, <1>2, <2>1 DEF sb_abort
<1>3. CASE TsxAbort
  <2>1. \A bits \in AsyncCauses : [bits |-> bits, imm |-> 0] \in Statuses
    BY DEF Statuses, TSX_NUM_CODES, TSX_RETRY, TSX_NESTED
  <2> QED
    BY <1>1, <1>3, <2>1 DEF TsxAbort
<1> QED
  BY <1>2, <1>3

(* The context switch back to the host.                                    *)
LEMMA EjectEffect ==
    ASSUME SbType, sb_eject
    PROVE  /\ pc = "sb_fallback" /\ pc' = "host"
           /\ SbType' /\ UNCHANGED <<taint, modeled, inTx, chk>>
           /\ ctx'.rip = cpu.r15 /\ ctx'.abort_status = eax
           /\ ctx'.regs.rax = cpu.r14 /\ ctx'.regs.flags = cpu.flags
           /\ ctx'.regs.xref = cpu.xref
           /\ mem'.work = mem.work /\ mem'.saved_rax = mem.saved_rax
           /\ stats' = CountAbort(stats, eax)
<1>1. /\ pc = "sb_fallback" /\ pc' = "host" /\ UNCHANGED <<taint, modeled, inTx, chk>>
      /\ ctx' = EjectedContext(ctx) /\ stats' = CountAbort(stats, eax)
      /\ mem' = [mem EXCEPT !.tase_springboard = "sb_disabled"]
      /\ cpu' = ZeroRegs /\ eax' = NoStatus
  BY DEF sb_eject
<1>2. cpu \in Regs /\ mem \in Mem /\ ctx \in Context /\ eax \in Statuses /\ stats \in Counters
  BY DEF SbType
<1>3. Stored(cpu) \in Regs /\ cpu.r15 \in Positions
  BY <1>2, RegTypes DEF Regs
<1>4. /\ ctx' \in Context /\ ctx'.rip = cpu.r15 /\ ctx'.abort_status = eax
      /\ ctx'.regs = Stored(cpu)
  BY <1>1, <1>2, <1>3 DEF EjectedContext, Context
<1>5. ctx'.regs.rax = cpu.r14 /\ ctx'.regs.flags = cpu.flags /\ ctx'.regs.xref = cpu.xref
  BY <1>2, <1>4 DEF Stored, Regs
<1>6. mem' \in Mem /\ mem'.work = mem.work /\ mem'.saved_rax = mem.saved_rax
  BY <1>1, <1>2 DEF Mem
<1>7. stats' \in Counters
  BY <1>1, <1>2, CountersType
<1>8. SbType'
  BY <1>1, <1>4, <1>6, <1>7, InitialTypes DEF SbType
<1> QED
  BY <1>1, <1>4, <1>5, <1>6, <1>8

-----------------------------------------------------------------------------
(* The invariant that holds under either host: what the springboard knows  *)
(* at each point of a transaction, and what it has committed.              *)

Base == chk.cpu.r15.i   \* where the open transaction began
Cur  == cpu.r15.i       \* the cartridge about to run
Clean(i) == i \notin taint /\ i \notin modeled
AtHeader == pc \in {"sb_reopen", "sb_modeled"}

ControlInv ==
    /\ exit_tase \in modeled
    /\ inTx <=> pc \in InTarget
    /\ inTx => Base <= Cur /\ cpu.r15.at = "body" /\ (Base = Cur /\ AtHeader => chk.cpu.r15.at = "head")
    /\ pc \in {"body", "sb_reopen"} => Cur \notin modeled
    /\ pc = "sb_modeled" => Cur \in modeled
    /\ pc = "start" => mem = LoadedMem /\ ctx = ZeroContext

(* The poison reference survives every context switch and every rollback.  *)
ReferenceInv ==
    /\ inTx => cpu.xref = "poison" /\ chk.cpu.xref = "poison"
    /\ pc = "sb_fallback" => cpu.xref = "poison"
    /\ pc = "host" => ctx.regs.xref = "poison"

(* What the SIMD registers know about the bodies run since xbegin.         *)
TaintInv ==
    /\ inTx => \A i \in Base..Cur-1 : i \notin modeled
    /\ inTx => \A i \in Base..Cur-2 : i \notin taint
    /\ pc = "body" => /\ cpu.xacc = "zero" /\ cpu.xdata = "zero"
                      /\ \A i \in Base..Cur-1 : i \notin taint
    /\ AtHeader => (Poisoned(cpu) <=> Cur - 1 >= Base /\ Cur - 1 \in taint)

(* The work a context may be injected with.                                *)
NativeClean(work) ==
    \A i \in Cartridges : work[i] \in {"native", "twice"} => Clean(i)

(* What one more native run makes of a cartridge's mark.                   *)
Again(mark) == IF mark = "none" THEN "native" ELSE "twice"

(* The committed work, and the work the open transaction adds to it: each  *)
(* cartridge from where it began to the running one, once.                 *)
WorkInv ==
    /\ NativeClean(CommittedWork)
    /\ inTx => \A i \in Cartridges :
         mem.work[i] = IF i \in Base..Cur-1 THEN Again(chk.mem.work[i])
                                            ELSE chk.mem.work[i]

SbInv == SbType /\ ControlInv /\ ReferenceInv /\ TaintInv /\ WorkInv

(* The initial state.                                                      *)
LEMMA SbInvInit == SpringboardInit => SbInv
<1> SUFFICES ASSUME SpringboardInit PROVE SbInv
  OBVIOUS
<1> USE AllSbAssumptions DEF SbAssumptions
<1>0. /\ pc = "start" /\ inTx = FALSE /\ mem = LoadedMem /\ ctx = ZeroContext
      /\ exit_tase \in modeled /\ modeled \in SUBSET (1..N+1)
  BY DEF SpringboardInit, Cartridges, exit_tase
<1>1. ctx.rip.i = 1 /\ \A i \in Cartridges : mem.work[i] = "none" /\ i >= 1
  BY <1>0 DEF ZeroContext, Header, LoadedMem, Cartridges
<1>2. SbType
  BY <1>0, InitialTypes DEF SbType, SpringboardInit
<1>3. ControlInv /\ ReferenceInv /\ TaintInv
  BY <1>0 DEF ControlInv, ReferenceInv, TaintInv, AtHeader, InTarget
<1>4. WorkInv
  BY <1>0, <1>1 DEF WorkInv, NativeClean, CommittedWork
<1> QED
  BY <1>2, <1>3, <1>4 DEF SbInv

(* An injection at a context that has the poison reference, wherever it    *)
(* leads, establishes the invariant.                                       *)
LEMMA InjectInv ==
    ASSUME SbType, SbType', NEW c \in Context, NEW m \in Mem,
           tase_inject(c, m, TRUE) \/ tase_inject(c, m, FALSE),
           exit_tase \in modeled,
           c.rip.at = "body" => c.rip.i \notin modeled,
           c.regs.xref = "poison",
           NativeClean(m.work)
    PROVE  SbInv'
<1> USE AllSbAssumptions DEF SbAssumptions
<1>0. c.rip \in Positions /\ c.rip.i \in 1..N+1 /\ c.rip.at \in {"head", "body"}
  BY DEF Context, Positions
<1>1. /\ taint' = taint /\ modeled' = modeled
      /\ inTx' = TRUE /\ pc' = ArrivePc(c.rip)
      /\ chk'.cpu.r15 = c.rip /\ chk'.cpu.xref = "poison"
      /\ cpu'.r15 = Body(c.rip.i) /\ cpu'.xref = "poison"
      /\ cpu'.xacc = "zero" /\ cpu'.xdata = "zero"
      /\ mem'.work = m.work /\ chk'.mem.work = m.work
  BY InjectEffect
<1>2. cpu'.r15.i = c.rip.i /\ cpu'.r15.at = "body"
  BY <1>1 DEF Body
<1>3. /\ pc' \in InTarget
      /\ pc' = "body" <=> c.rip.at = "body"
      /\ pc' \in {"body", "sb_reopen"} => c.rip.i \notin modeled
      /\ pc' = "sb_modeled" => c.rip.i \in modeled
  BY <1>0, <1>1 DEF ArrivePc, InTarget
<1>4. ~Poisoned(cpu')
  BY <1>1, PoisonedMeaning DEF SbType
<1>5. ControlInv'
  BY <1>0, <1>1, <1>2, <1>3 DEF ControlInv, Base, Cur, AtHeader, exit_tase, InTarget
<1>6. ReferenceInv'
  BY <1>1, <1>3 DEF ReferenceInv, InTarget
<1>7. TaintInv'
  BY <1>0, <1>1, <1>2, <1>3, <1>4 DEF TaintInv, Base, Cur, AtHeader, InTarget
<1>8. WorkInv'
  BY <1>0, <1>1, <1>2
     DEF WorkInv, NativeClean, Base, Cur, CommittedWork, Clean, Cartridges
<1> QED
  BY <1>5, <1>6, <1>7, <1>8 DEF SbInv

(* The positions a transaction ranges over.                                *)
LEMMA Range ==
    ASSUME SbInv, inTx
    PROVE  /\ Base \in 1..N+1 /\ Cur \in 1..N+1 /\ Base <= Cur
           /\ exit_tase \in modeled /\ cpu \in Regs /\ cpu.xref = "poison"
BY DEF SbInv, ControlInv, ReferenceInv, SbType, Regs, Positions, Base, Cur

(* A body runs.                                                            *)
LEMMA SbRunBody == SbInv /\ RunBody => SbInv'
<1> USE AllSbAssumptions DEF SbAssumptions
<1> SUFFICES ASSUME SbInv, RunBody PROVE SbInv'
  OBVIOUS
<1>1. /\ pc = "body" /\ Cur \in Cartridges
      /\ SbType' /\ UNCHANGED <<taint, modeled, inTx, chk, eax, ctx, stats>>
      /\ cpu'.xref = cpu.xref /\ cpu'.r15 = Body(Cur + 1)
      /\ IF Cur \in taint THEN cpu'.xacc # "zero" \/ cpu'.xdata = "poison"
                          ELSE cpu'.xacc = cpu.xacc /\ cpu'.xdata = "plain"
      /\ mem'.work = Executed(mem.work, Cur, "native")
      /\ pc' \in {"sb_reopen", "sb_modeled"}
      /\ pc' = "sb_modeled" <=> Cur + 1 \in modeled
  BY RunBodyEffect DEF SbInv, Cur
<1>2. inTx /\ Base \in 1..N+1 /\ Base <= Cur /\ Cur \notin modeled /\ exit_tase \in modeled
  BY <1>1, Range DEF SbInv, ControlInv, InTarget
<1>3. cpu'.r15.i = Cur + 1 /\ cpu'.r15.at = "body"
  BY <1>1 DEF Body
<1>4. cpu'.xref = "poison" /\ cpu.xacc = "zero" /\ cpu' \in Regs
  BY <1>1, <1>2 DEF SbInv, ReferenceInv, TaintInv, SbType
<1>5. Poisoned(cpu') <=> Cur \in taint
  BY <1>1, <1>4, PoisonedMeaning
<1>6. ControlInv'
  BY <1>1, <1>2, <1>3 DEF SbInv, ControlInv, Base, Cur, AtHeader, exit_tase, Cartridges, InTarget
<1>7. ReferenceInv'
  BY <1>1, <1>2, <1>4 DEF SbInv, ReferenceInv
<1>8. TaintInv'
  BY <1>1, <1>2, <1>3, <1>5 DEF SbInv, TaintInv, Base, Cur, AtHeader, Cartridges
<1>9. WorkInv'
  <2>1. \A i \in Cartridges : mem'.work[i] = IF i = Cur THEN Again(mem.work[i]) ELSE mem.work[i]
    <3>1. mem.work \in [Cartridges -> Marks]
      BY DEF SbInv, SbType, Mem
    <3> QED
      BY <1>1, <3>1 DEF Executed, Again
  <2>2. NativeClean(CommittedWork)'
    BY <1>1, <1>2 DEF SbInv, WorkInv, NativeClean, CommittedWork, Clean
  <2>3. \A i \in Cartridges : mem.work[i] = IF i \in Base..Cur-1 THEN Again(chk.mem.work[i])
                                                               ELSE chk.mem.work[i]
    BY <1>2 DEF SbInv, WorkInv
  <2>4. \A i \in Cartridges : mem'.work[i] = IF i \in Base..Cur THEN Again(chk.mem.work[i])
                                                              ELSE chk.mem.work[i]
    BY <1>1, <1>2, <2>1, <2>3 DEF Cartridges
  <2>5. Base' = Base /\ Cur' - 1 = Cur /\ chk' = chk
    BY <1>1, <1>3 DEF Base, Cur, Cartridges
  <2> QED
    BY <2>2, <2>4, <2>5 DEF WorkInv
<1> QED
  BY <1>1, <1>6, <1>7, <1>8, <1>9 DEF SbInv

(* At a header that passes its check the cartridges of the transaction are *)
(* clean, and the memory is fit to be committed.                           *)
LEMMA CheckPassed ==
    ASSUME SbInv, AtHeader, ~Poisoned(cpu)
    PROVE  inTx /\ (\A i \in Base..Cur-1 : Clean(i)) /\ NativeClean(mem.work)
<1> USE AllSbAssumptions DEF SbAssumptions
<1>1. inTx
  BY DEF SbInv, ControlInv, AtHeader, InTarget
<1>2. Base \in 1..N+1 /\ Cur \in 1..N+1 /\ Base <= Cur
  BY <1>1, Range
<1>3. \A i \in Base..Cur-1 : Clean(i)
  BY <1>1, <1>2 DEF SbInv, TaintInv, Clean
<1>4. NativeClean(mem.work)
  BY <1>1, <1>2, <1>3 DEF SbInv, WorkInv, NativeClean, CommittedWork
<1> QED
  BY <1>1, <1>3, <1>4

(* A check that passes inside a batch, one that closes it, and the header  *)
(* of a modeled function.                                                  *)
LEMMA SbChecks ==
    SbInv /\ (sb_reopen_no_close \/ sb_reopen_close \/ sb_modeled) => SbInv'
<1> USE AllSbAssumptions DEF SbAssumptions
<1> SUFFICES ASSUME SbInv, sb_reopen_no_close \/ sb_reopen_close \/ sb_modeled PROVE SbInv'
  OBVIOUS
<1>0. AtHeader /\ ~Poisoned(cpu)
  BY DEF AtHeader, sb_reopen_no_close, sb_reopen_close, sb_modeled
<1>1. /\ inTx /\ (\A i \in Base..Cur-1 : Clean(i)) /\ NativeClean(mem.work)
      /\ Base \in 1..N+1 /\ Cur \in 1..N+1 /\ Base <= Cur
      /\ exit_tase \in modeled /\ cpu.xref = "poison" /\ cpu.r15.at = "body" /\ SbType
  BY <1>0, CheckPassed, Range DEF SbInv, ControlInv
<1>2. CASE sb_reopen_no_close
  <2>1. /\ pc = "sb_reopen" /\ pc' = "body" /\ SbType'
        /\ UNCHANGED <<taint, modeled, inTx, chk, eax, ctx, stats>>
        /\ cpu'.r15 = cpu.r15 /\ cpu'.xref = cpu.xref
        /\ cpu'.xacc = "zero" /\ cpu'.xdata = "zero" /\ mem'.work = mem.work
    BY <1>1, <1>2, NoCloseEffect
  <2>2. ControlInv' /\ ReferenceInv'
    BY <1>1, <2>1 DEF SbInv, ControlInv, ReferenceInv, Base, Cur, AtHeader, exit_tase, InTarget
  <2>3. TaintInv'
    BY <1>1, <2>1 DEF SbInv, TaintInv, Base, Cur, AtHeader, Clean
  <2>4. WorkInv'
    BY <1>1, <2>1 DEF SbInv, WorkInv, NativeClean, Base, Cur, CommittedWork, Clean
  <2> QED
    BY <2>1, <2>2, <2>3, <2>4 DEF SbInv
<1>3. CASE sb_reopen_close
  <2>1. /\ pc = "sb_reopen" /\ pc' = "body" /\ SbType' /\ UNCHANGED <<taint, modeled, eax, ctx, stats>>
        /\ inTx' = TRUE /\ chk'.cpu = cpu' /\ chk'.mem = mem'
        /\ cpu'.r15 = cpu.r15 /\ cpu'.xref = cpu.xref
        /\ cpu'.xacc = "zero" /\ cpu'.xdata = "zero" /\ mem'.work = mem.work
    BY <1>1, <1>3, CloseEffect
  <2>2. ControlInv' /\ ReferenceInv'
    BY <1>1, <2>1 DEF SbInv, ControlInv, ReferenceInv, Base, Cur, AtHeader, exit_tase, InTarget
  <2>3. TaintInv'
    BY <1>1, <2>1 DEF TaintInv, Base, Cur, AtHeader
  <2>4. WorkInv'
    BY <1>1, <2>1 DEF WorkInv, NativeClean, Base, Cur, CommittedWork, Clean, Cartridges
  <2> QED
    BY <2>1, <2>2, <2>3, <2>4 DEF SbInv
<1>4. CASE sb_modeled
  <2>1. /\ pc = "sb_modeled" /\ pc' = "sb_fallback" /\ SbType' /\ UNCHANGED <<taint, modeled, ctx, stats>>
        /\ inTx' = FALSE /\ cpu'.r15 = cpu.r15 /\ cpu'.xref = cpu.xref /\ mem'.work = mem.work
    BY <1>1, <1>4, ModeledEffect
  <2>2. ControlInv' /\ ReferenceInv'
    BY <1>1, <2>1 DEF ControlInv, ReferenceInv, exit_tase, InTarget
  <2>3. TaintInv'
    BY <2>1 DEF TaintInv, AtHeader
  <2>4. WorkInv'
    BY <1>1, <2>1 DEF WorkInv, NativeClean, CommittedWork, Clean
  <2> QED
    BY <2>1, <2>2, <2>3, <2>4 DEF SbInv
<1> QED
  BY <1>2, <1>3, <1>4

(* An abort goes back to the committed state; an ejection carries it over  *)
(* to target_ctx.                                                          *)
LEMMA SbLeaves == SbInv /\ (sb_abort \/ TsxAbort \/ sb_eject) => SbInv'
<1> SUFFICES ASSUME SbInv, sb_abort \/ TsxAbort \/ sb_eject PROVE SbInv'
  OBVIOUS
<1>1. CASE sb_abort \/ TsxAbort
  <2>1. /\ pc' = "sb_fallback" /\ SbType' /\ UNCHANGED <<taint, modeled, ctx, stats>>
        /\ inTx' = FALSE /\ cpu' = chk.cpu /\ mem' = chk.mem /\ inTx
    BY <1>1, AbortEffect DEF SbInv, ControlInv, InTarget
  <2>2. ControlInv' /\ ReferenceInv' /\ TaintInv'
    BY <2>1 DEF SbInv, ControlInv, ReferenceInv, TaintInv, AtHeader, InTarget, exit_tase
  <2>3. WorkInv'
    BY <2>1 DEF SbInv, WorkInv, NativeClean, CommittedWork, Clean
  <2> QED
    BY <2>1, <2>2, <2>3 DEF SbInv
<1>2. CASE sb_eject
  <2>1. /\ pc = "sb_fallback" /\ pc' = "host" /\ SbType' /\ UNCHANGED <<taint, modeled, inTx, chk>>
        /\ ctx'.rip = cpu.r15 /\ ctx'.regs.xref = cpu.xref /\ mem'.work = mem.work /\ ~inTx
    BY <1>2, EjectEffect DEF SbInv, ControlInv, InTarget
  <2>2. ControlInv' /\ ReferenceInv' /\ TaintInv'
    BY <2>1 DEF SbInv, ControlInv, ReferenceInv, TaintInv, AtHeader, InTarget, exit_tase
  <2>3. WorkInv'
    BY <2>1 DEF SbInv, WorkInv, NativeClean, CommittedWork, Clean
  <2> QED
    BY <2>1, <2>2, <2>3 DEF SbInv
<1> QED
  BY <1>1, <1>2

(* Every step of the springboard keeps the invariant, whoever injected.    *)
LEMMA SbInvStep == SbInv /\ SpringboardStep => SbInv'
BY SbRunBody, SbChecks, SbLeaves DEF SpringboardStep

(* Where a step of the springboard leaves control.                         *)
LEMMA StepPc == SbInv /\ SpringboardStep => pc' \in InTarget \cup {"sb_fallback", "host"}
BY RunBodyEffect, NoCloseEffect, CloseEffect, ModeledEffect, AbortEffect, EjectEffect
   DEF SpringboardStep, InTarget, SbInv, sb_reopen_no_close

(* What the two hosts promise of native execution follows from it.         *)
LEMMA SbInvImplies ==
    SbInv => /\ NativeIsConcrete
             /\ NoSpeculationPastPoison
BY DEF SbInv, WorkInv, NativeClean, TaintInv, NativeIsConcrete, NoSpeculationPastPoison,
       Clean, Base, Cur

-----------------------------------------------------------------------------
(* Counting modulo the width of the counters *)

LEMMA ModUnique ==
    ASSUME NEW M \in Nat \ {0}, NEW a \in Int, NEW q \in Int, NEW r \in 0..M-1,
           a = q * M + r
    PROVE  a % M = r
OBVIOUS

(* A summand may be reduced first.                                         *)
LEMMA ModSum ==
    ASSUME NEW M \in Nat \ {0}, NEW a \in Int, NEW b \in Int
    PROVE  ((a % M) + b) % M = (a + b) % M
<1> DEFINE q == a \div M
           r == a % M
           p == (r + b) \div M
           s == (r + b) % M
<1>1. r \in 0..M-1 /\ q \in Int /\ a = q * M + r
  OBVIOUS
<1>2. s \in 0..M-1 /\ p \in Int /\ r + b = p * M + s
  BY <1>1
<1> HIDE DEF q, r, p, s
<1>3. a + b \in Int /\ q + p \in Int /\ a + b = (q + p) * M + s
  BY <1>1, <1>2
<1>4. (a + b) % M = s
  BY <1>2, <1>3, ModUnique
<1> QED
  BY <1>4 DEF r, s

(* One more of one kind is one more of the sum.                            *)
LEMMA IncSum ==
    ASSUME NEW n \in Nat, NEW rest \in Nat
    PROVE  /\ (Inc(n) + rest) % CounterMod = (n + rest + 1) % CounterMod
           /\ Inc((n + rest) % CounterMod) = (n + rest + 1) % CounterMod
<1> USE AllSbAssumptions DEF SbAssumptions
<1>0. n + 1 \in Int /\ n + rest \in Int /\ rest \in Int /\ 1 \in Int
      /\ CounterMod \in Nat \ {0}
  OBVIOUS
<1>1. (((n + 1) % CounterMod) + rest) % CounterMod = ((n + 1) + rest) % CounterMod
  BY <1>0, ModSum, Zenon
<1>2. (((n + rest) % CounterMod) + 1) % CounterMod = ((n + rest) + 1) % CounterMod
  BY <1>0, ModSum, Zenon
<1>3. (n + 1) + rest = n + rest + 1
  OBVIOUS
<1> QED
  BY <1>1, <1>2, <1>3 DEF Inc

(* A status that tase_eject counts under exactly one heading.              *)
CountedOnce(bits) ==
    \/ bits = {}
    \/ TSX_XABORT \in bits /\ TSX_CONFLICT \notin bits /\ TSX_CAPACITY \notin bits
    \/ TSX_XABORT \notin bits /\ TSX_CONFLICT \in bits /\ TSX_CAPACITY \notin bits
    \/ TSX_XABORT \notin bits /\ TSX_CONFLICT \notin bits /\ TSX_CAPACITY \in bits

CountInv ==
    /\ pc = "sb_fallback" => CountedOnce(eax.bits)
    /\ AbortsAccountedFor

(* The accounting of tase_eject keeps the two sums.                        *)
LEMMA CountStep ==
    ASSUME NEW a \in Statuses, CountedOnce(a.bits), stats \in Counters, AbortsAccountedFor,
           stats' = CountAbort(stats, a)
    PROVE  AbortsAccountedFor'
<1> USE AllSbAssumptions DEF SbAssumptions
<1> DEFINE u == stats.unknown
           x == stats.counts[TSX_XABORT]
           f == stats.counts[TSX_CONFLICT]
           y == stats.counts[TSX_CAPACITY]
           m == stats.modeled
           p == stats.poison
           bits == a.bits
           poison == TSX_XABORT \in bits /\ a.imm = 0
           other == TSX_XABORT \in bits /\ a.imm # 0
<1>1. u \in Nat /\ x \in Nat /\ f \in Nat /\ y \in Nat /\ m \in Nat /\ p \in Nat
  BY DEF Counters, TSX_XABORT, TSX_CONFLICT, TSX_CAPACITY, TSX_NUM_CODES
<1>2. /\ x = (m + p) % CounterMod
      /\ stats.total = (u + x + f + y) % CounterMod
  BY DEF AbortsAccountedFor
<1>3. /\ stats'.total = Inc(stats.total)
      /\ stats'.unknown = IF bits = {} THEN Inc(u) ELSE u
      /\ stats'.modeled = IF other THEN Inc(m) ELSE m
      /\ stats'.poison = IF poison THEN Inc(p) ELSE p
      /\ stats'.counts[TSX_XABORT] = IF TSX_XABORT \in bits THEN Inc(x) ELSE x
      /\ stats'.counts[TSX_CONFLICT] = IF TSX_CONFLICT \in bits THEN Inc(f) ELSE f
      /\ stats'.counts[TSX_CAPACITY] = IF TSX_CAPACITY \in bits THEN Inc(y) ELSE y
  BY DEF CountAbort, TSX_XABORT, TSX_CONFLICT, TSX_CAPACITY, TSX_NUM_CODES
<1>4. TSX_XABORT \in bits <=> poison \/ other
  OBVIOUS
<1> HIDE DEF u, x, f, y, m, p
<1>5. stats'.counts[TSX_XABORT] = (stats'.modeled + stats'.poison) % CounterMod
  <2>1. CASE other
    <3>1. (Inc(m) + p) % CounterMod = (m + p + 1) % CounterMod
          /\ Inc((m + p) % CounterMod) = (m + p + 1) % CounterMod
      BY <1>1, IncSum
    <3> QED
      BY <1>2, <1>3, <2>1, <3>1
  <2>2. CASE poison
    <3>1. (Inc(p) + m) % CounterMod = (p + m + 1) % CounterMod
          /\ Inc((p + m) % CounterMod) = (p + m + 1) % CounterMod
      BY <1>1, IncSum
    <3>2. Inc(p) \in Nat /\ p + m = m + p /\ Inc(p) + m = m + Inc(p)
      BY <1>1 DEF Inc
    <3>3. (m + Inc(p)) % CounterMod = Inc(x)
      BY <1>2, <3>1, <3>2
    <3> QED
      BY <1>3, <2>2, <3>3
  <2>3. CASE ~poison /\ ~other
    BY <1>2, <1>3, <2>3
  <2> QED
    BY <2>1, <2>2, <2>3
<1>6. stats'.total = (stats'.unknown + stats'.counts[TSX_XABORT]
                        + stats'.counts[TSX_CONFLICT] + stats'.counts[TSX_CAPACITY]) % CounterMod
  <2>0. /\ \A n \in Nat : Inc(n) \in Nat
        /\ Inc((u + x + f + y) % CounterMod) = stats'.total
    BY <1>2, <1>3 DEF Inc
  <2>1. CASE bits = {}
    <3>0. x + f + y \in Nat
      BY <1>1
    <3>1. (Inc(u) + (x + f + y)) % CounterMod = (u + (x + f + y) + 1) % CounterMod
          /\ Inc((u + (x + f + y)) % CounterMod) = (u + (x + f + y) + 1) % CounterMod
      BY <1>1, <3>0, IncSum, Zenon
    <3>2. Inc(u) + (x + f + y) = Inc(u) + x + f + y /\ u + (x + f + y) = u + x + f + y
      BY <1>1, <2>0
    <3>3. stats'.total = (Inc(u) + x + f + y) % CounterMod
      BY <2>0, <3>1, <3>2
    <3> QED
      BY <1>3, <2>1, <3>3
  <2>2. CASE TSX_XABORT \in bits /\ TSX_CONFLICT \notin bits /\ TSX_CAPACITY \notin bits
    <3>0. u + f + y \in Nat
      BY <1>1
    <3>1. (Inc(x) + (u + f + y)) % CounterMod = (x + (u + f + y) + 1) % CounterMod
          /\ Inc((x + (u + f + y)) % CounterMod) = (x + (u + f + y) + 1) % CounterMod
      BY <1>1, <3>0, IncSum, Zenon
    <3>2. Inc(x) + (u + f + y) = u + Inc(x) + f + y /\ x + (u + f + y) = u + x + f + y
      BY <1>1, <2>0
    <3>3. stats'.total = (u + Inc(x) + f + y) % CounterMod
      BY <2>0, <3>1, <3>2
    <3> QED
      BY <1>3, <2>2, <3>3
  <2>3. CASE TSX_XABORT \notin bits /\ TSX_CONFLICT \in bits /\ TSX_CAPACITY \notin bits
    <3>0. u + x + y \in Nat
      BY <1>1
    <3>1. (Inc(f) + (u + x + y)) % CounterMod = (f + (u + x + y) + 1) % CounterMod
          /\ Inc((f + (u + x + y)) % CounterMod) = (f + (u + x + y) + 1) % CounterMod
      BY <1>1, <3>0, IncSum, Zenon
    <3>2. Inc(f) + (u + x + y) = u + x + Inc(f) + y /\ f + (u + x + y) = u + x + f + y
      BY <1>1, <2>0
    <3>3. stats'.total = (u + x + Inc(f) + y) % CounterMod
      BY <2>0, <3>1, <3>2
    <3> QED
      BY <1>3, <2>3, <3>3
  <2>4. CASE TSX_XABORT \notin bits /\ TSX_CONFLICT \notin bits /\ TSX_CAPACITY \in bits
    <3>0. u + x + f \in Nat
      BY <1>1
    <3>1. (Inc(y) + (u + x + f)) % CounterMod = (y + (u + x + f) + 1) % CounterMod
          /\ Inc((y + (u + x + f)) % CounterMod) = (y + (u + x + f) + 1) % CounterMod
      BY <1>1, <3>0, IncSum, Zenon
    <3>2. Inc(y) + (u + x + f) = u + x + f + Inc(y) /\ y + (u + x + f) = u + x + f + y
      BY <1>1, <2>0
    <3>3. stats'.total = (u + x + f + Inc(y)) % CounterMod
      BY <2>0, <3>1, <3>2
    <3> QED
      BY <1>3, <2>4, <3>3
  <2> QED
    BY <2>1, <2>2, <2>3, <2>4 DEF CountedOnce
<1> QED
  BY <1>5, <1>6 DEF AbortsAccountedFor

(* A step of the springboard keeps the accounting: only sb_eject counts,   *)
(* and what it counts has one cause.                                       *)
LEMMA CountInvStep ==
    ASSUME OneCause, SbInv, CountInv, SpringboardStep
    PROVE  CountInv'
<1> USE AllSbAssumptions DEF SbAssumptions
<1>t. SbType
  BY DEF SbInv
<1>1. CASE RunBody \/ sb_reopen_no_close \/ sb_reopen_close
  <2>1. pc' # "sb_fallback" /\ stats' = stats
    BY <1>1, <1>t, RunBodyEffect, CloseEffect DEF sb_reopen_no_close
  <2> QED
    BY <2>1 DEF CountInv, AbortsAccountedFor
<1>2. CASE sb_modeled
  <2>1. eax' = ModeledStatus /\ stats' = stats
    BY <1>2, <1>t, ModeledEffect
  <2>2. CountedOnce(ModeledStatus.bits)
    BY DEF CountedOnce, ModeledStatus, TSX_XABORT, TSX_CONFLICT, TSX_CAPACITY
  <2> QED
    BY <2>1, <2>2 DEF CountInv, AbortsAccountedFor
<1>3. CASE sb_abort \/ TsxAbort
  <2>1. /\ stats' = stats
        /\ \/ eax' = [bits |-> {TSX_XABORT}, imm |-> AbortCode(mem)]
           \/ \E bits \in AsyncCauses : eax' = [bits |-> bits, imm |-> 0]
    BY <1>3, <1>t, AbortEffect
  <2>2. eax'.bits = {TSX_XABORT} \/ eax'.bits \in AsyncCauses
    BY <2>1
  <2>3. CountedOnce(eax'.bits)
    BY <2>2 DEF CountedOnce, OneCause, TSX_XABORT, TSX_CONFLICT, TSX_CAPACITY, TSX_RETRY, TSX_NESTED
  <2> QED
    BY <2>1, <2>3 DEF CountInv, AbortsAccountedFor
<1>4. CASE sb_eject
  <2>1. pc = "sb_fallback" /\ pc' = "host" /\ stats' = CountAbort(stats, eax)
    BY <1>4, <1>t, EjectEffect
  <2> QED
    BY <1>t, <2>1, CountStep DEF CountInv, SbType
<1> QED
  BY <1>1, <1>2, <1>3, <1>4 DEF SpringboardStep

(* Zeroed counters balance.                                                *)
LEMMA ZeroBalanced ==
    /\ stats = ZeroCounters => AbortsAccountedFor
    /\ stats' = ZeroCounters => AbortsAccountedFor'
<1> USE AllSbAssumptions DEF SbAssumptions
<1>1. 0 % CounterMod = 0
  OBVIOUS
<1> QED
  BY <1>1 DEF AbortsAccountedFor, ZeroCounters, TSX_XABORT, TSX_CONFLICT, TSX_CAPACITY, TSX_NUM_CODES
=============================================================================
