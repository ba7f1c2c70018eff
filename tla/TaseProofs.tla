----------------------------- MODULE TaseProofs -----------------------------
(***************************************************************************)
(* Proofs about TaseInterp for every program length, batch size, set of    *)
(* asynchronous abort causes, retry bound and counter width.  To what      *)
(* SpringboardProofs shows of every host it adds what the interpreter      *)
(* needs: registers, batch counter, and that no cartridge is left out.     *)
(***************************************************************************)
EXTENDS TaseInterp, SpringboardProofs

Assumptions == SbAssumptions /\ RetryMax \in Nat

LEMMA AllAssumptions == Assumptions
BY AllSbAssumptions, RetryAssumption DEF Assumptions

-----------------------------------------------------------------------------
(* The inductive invariant.  None of the safety invariants is inductive by *)
(* itself: on top of the springboard's own invariant they need to know     *)
(* what r14 and the checkpoint hold for the abort that may come, and how   *)
(* tran_ctr relates to the cartridges run since xbegin.                    *)

TriedInv == inTx \/ pc = "sb_fallback" => tried.n > 0

(* rax and the flags, and the copy of rax that .Lsb_fallback restores.     *)
RegisterInv ==
    /\ inTx => /\ cpu.rax = Cur - 1 /\ cpu.flags = Cur - 1
               /\ chk.cpu.r14 = Base - 1 /\ chk.cpu.flags = Base - 1
    /\ pc = "sb_fallback" =>
         IF eax = ModeledStatus
         THEN cpu.r15.at = "body" /\ Cur \in modeled
         ELSE cpu.r14 = Cur - 1 /\ cpu.flags = Cur - 1
    /\ pc = "host" =>
         IF tried.n > 0 /\ ctx.abort_status = ModeledStatus
         THEN ctx.rip.at = "body" /\ ctx.rip.i \in modeled
         ELSE ctx.regs.rax = ctx.rip.i - 1 /\ ctx.regs.flags = ctx.rip.i - 1

(* The cartridges behind position at have run once, the others have not.   *)
Done(work, at) ==
    \A i \in Cartridges : work[i] # "twice" /\ (work[i] = "none" <=> i >= at)

DoneInv == Done(CommittedWork, CommittedAt)

(* tran_ctr counts the headers passed since xbegin: one per cartridge run, *)
(* plus the entry header if the transaction began at one.                  *)
CounterInv ==
    /\ inTx => /\ mem.tran_ctr = Cur - Base + (IF chk.cpu.r15.at = "head" THEN 1 ELSE 0)
                                            - (IF AtHeader THEN 1 ELSE 0)
               /\ mem.tran_ctr < mem.tran_max
               /\ mem.tran_max <= TranMaxReset
    /\ AbortCodeSound

IInv == SbInv /\ TypeOK /\ TriedInv /\ RegisterInv /\ DoneInv /\ CounterInv

(* Types of the interpreter's own steps and of the initial state.          *)
LEMMA TypeInit == Init => TypeOK
<1> USE AllAssumptions DEF Assumptions
<1> SUFFICES ASSUME Init PROVE TypeOK
  OBVIOUS
<1>1. SbType
  BY SbInvInit DEF Init, SbInv
<1>2. tried \in [i : 1..N+1, n : 0..RetryMax+1]
  BY DEF Init, SbAssumptions
<1> QED
  BY <1>1, <1>2 DEF Init, SpringboardInit, SbType, TypeOK

(* The springboard's steps keep its invariant and the types.               *)
LEMMA NativeKeeps ==
    ASSUME IInv, SpringboardStep, tried' = tried
    PROVE  SbInv' /\ SbType' /\ TypeOK'
<1>1. SbInv' /\ pc' \in InTarget \cup {"sb_fallback", "host"}
  BY SbInvStep, StepPc DEF IInv
<1> QED
  BY <1>1 DEF IInv, SbInv, SbType, TypeOK, InTarget

(* An injection at a consistent context establishes the invariant.         *)
LEMMA InterpInjectInv ==
    ASSUME SbType, NEW c \in Context, NEW m \in Mem,
           tase_inject(c, m, TRUE),
           exit_tase \in modeled,
           m.tran_max \in 1..TranMaxReset,
           c.rip.at = "body" => c.rip.i \notin modeled,
           c.regs.xref = "poison",
           c.regs.rax = c.rip.i - 1, c.regs.flags = c.rip.i - 1,
           NativeClean(m.work), Done(m.work, c.rip.i),
           tried' \in [i : 1..N+1, n : 0..RetryMax+1], tried'.n > 0,
           stats' \in Counters
    PROVE  IInv'
<1> USE AllAssumptions DEF Assumptions, SbAssumptions
<1>0. c.rip \in Positions /\ c.rip.i \in 1..N+1 /\ c.rip.at \in {"head", "body"}
  BY DEF Context, Positions
<1>1. /\ taint' = taint /\ modeled' = modeled /\ eax' = eax
      /\ inTx' = TRUE /\ pc' = ArrivePc(c.rip)
      /\ ctx' \in Context /\ cpu' \in Regs /\ mem' \in Mem
      /\ chk' \in [cpu : Regs, mem : Mem]
      /\ chk'.cpu.r15 = c.rip /\ chk'.cpu.r14 = c.rip.i - 1
      /\ chk'.cpu.flags = c.rip.i - 1
      /\ cpu'.r15 = Body(c.rip.i) /\ cpu'.rax = c.rip.i - 1
      /\ cpu'.flags = c.rip.i - 1
      /\ mem'.work = m.work /\ chk'.mem.work = m.work
      /\ mem'.tran_ctr = 0 /\ mem'.tran_max = m.tran_max
  BY InjectEffect
<1>2. cpu'.r15.i = c.rip.i
  BY <1>1 DEF Body
<1>3. pc' \in InTarget /\ (pc' = "body" <=> c.rip.at = "body")
  BY <1>0, <1>1 DEF ArrivePc, InTarget
<1>4. SbType' /\ TypeOK'
  BY <1>1, <1>3 DEF SbType, TypeOK, InTarget
<1>5. SbInv'
  BY <1>4, InjectInv
<1>6. TriedInv'
  BY DEF TriedInv
<1>7. RegisterInv'
  BY <1>1, <1>2, <1>3 DEF RegisterInv, Base, Cur, InTarget
<1>8. DoneInv'
  BY <1>1 DEF DoneInv, Done, CommittedWork, CommittedAt
<1>9. CounterInv'
  BY <1>0, <1>1, <1>2, <1>3 DEF CounterInv, Base, Cur, AtHeader, AbortCodeSound, InTarget
<1> QED
  BY <1>4, <1>5, <1>6, <1>7, <1>8, <1>9 DEF IInv

(* A body runs.                                                            *)
LEMMA InvRunBody == IInv /\ RunBody /\ tried' = tried => IInv'
<1> USE AllAssumptions DEF Assumptions, SbAssumptions
<1> SUFFICES ASSUME IInv, RunBody, tried' = tried PROVE IInv'
  OBVIOUS
<1>t. SbInv' /\ TypeOK' /\ SbInv /\ SbType
  BY NativeKeeps DEF IInv, SbInv, SpringboardStep
<1>1. /\ pc = "body" /\ Cur \in Cartridges
      /\ UNCHANGED <<taint, modeled, inTx, chk, eax, ctx, stats>>
      /\ cpu'.rax = Cur /\ cpu'.flags = Cur /\ cpu'.r15 = Body(Cur + 1)
      /\ mem'.tran_ctr = mem.tran_ctr /\ mem'.tran_max = mem.tran_max
      /\ pc' \in {"sb_reopen", "sb_modeled"}
  BY <1>t, RunBodyEffect DEF Cur
<1>2. inTx /\ Base \in 1..N+1 /\ Base <= Cur
  BY <1>1, <1>t, Range DEF SbInv, ControlInv, InTarget
<1>3. cpu'.r15.i = Cur + 1
  BY <1>1 DEF Body
<1>4. TriedInv'
  BY <1>1, <1>2 DEF IInv, TriedInv
<1>5. RegisterInv'
  BY <1>1, <1>2, <1>3 DEF IInv, RegisterInv, Base, Cur, Cartridges
<1>6. DoneInv'
  BY <1>1, <1>2 DEF IInv, DoneInv, Done, CommittedWork, CommittedAt
<1>7. CounterInv'
  <2>1. AbortCodeSound'
    BY <1>1 DEF AbortCodeSound
  <2>2. mem.tran_ctr \in Nat /\ mem.tran_max \in Nat
    BY <1>t DEF SbType, Mem
  <2>3. /\ mem.tran_ctr = Cur - Base + (IF chk.cpu.r15.at = "head" THEN 1 ELSE 0)
        /\ mem.tran_ctr < mem.tran_max /\ mem.tran_max <= TranMaxReset
    BY <1>1, <1>2, <2>2 DEF IInv, CounterInv, AtHeader, Cartridges
  <2> QED
    BY <1>1, <1>2, <1>3, <2>1, <2>2, <2>3 DEF CounterInv, Base, Cur, AtHeader, Cartridges
<1> QED
  BY <1>t, <1>4, <1>5, <1>6, <1>7 DEF IInv

(* A header check that passes inside a batch.                              *)
LEMMA InvNoClose == IInv /\ sb_reopen_no_close /\ tried' = tried => IInv'
<1> USE AllAssumptions DEF Assumptions, SbAssumptions
<1> SUFFICES ASSUME IInv, sb_reopen_no_close, tried' = tried PROVE IInv'
  OBVIOUS
<1>t. SbInv' /\ TypeOK' /\ SbInv /\ SbType /\ pc = "sb_reopen"
  BY NativeKeeps DEF IInv, SbInv, SpringboardStep, sb_reopen_no_close
<1>0. /\ inTx /\ Base \in 1..N+1 /\ Cur \in 1..N+1 /\ Base <= Cur /\ cpu.xref = "poison"
  BY <1>t, Range DEF SbInv, ControlInv, InTarget
<1>1. /\ pc' = "body" /\ UNCHANGED <<taint, modeled, inTx, chk, eax, ctx, stats>>
      /\ cpu'.rax = cpu.rax /\ cpu'.flags = cpu.flags /\ cpu'.r15 = cpu.r15
      /\ mem'.work = mem.work /\ mem'.tran_ctr = mem.tran_ctr + 1
      /\ mem'.tran_max = mem.tran_max /\ mem.tran_ctr + 1 < mem.tran_max
  BY <1>t, <1>0, NoCloseEffect
<1>2. TriedInv'
  BY <1>0, <1>1 DEF IInv, TriedInv
<1>3. RegisterInv'
  BY <1>0, <1>1 DEF IInv, RegisterInv, Base, Cur
<1>4. DoneInv'
  BY <1>0, <1>1 DEF IInv, DoneInv, Done, CommittedWork, CommittedAt
<1>5. CounterInv'
  BY <1>0, <1>1, <1>t DEF IInv, CounterInv, Base, Cur, AtHeader, AbortCodeSound, SbType, Mem
<1> QED
  BY <1>t, <1>2, <1>3, <1>4, <1>5 DEF IInv

(* In a transaction every cartridge up to the one about to run has run     *)
(* once: the earlier ones before it, the others natively in it.            *)
LEMMA WorkDone ==
    ASSUME IInv, inTx
    PROVE  /\ Done(mem.work, Cur)
           /\ \A i \in Cartridges : mem.work[i] = IF i < Base THEN chk.mem.work[i]
                                                ELSE IF i < Cur THEN "native" ELSE "none"
<1> USE AllAssumptions DEF Assumptions, SbAssumptions
<1>1. SbInv /\ Base \in 1..N+1 /\ Cur \in 1..N+1 /\ Base <= Cur
  BY Range DEF IInv
<1>2. \A i \in Cartridges : chk.mem.work[i] # "twice" /\ (chk.mem.work[i] = "none" <=> i >= Base)
  BY DEF IInv, DoneInv, Done, CommittedWork, CommittedAt, Base
<1>3. \A i \in Cartridges : mem.work[i] = IF i \in Base..Cur-1 THEN Again(chk.mem.work[i])
                                                             ELSE chk.mem.work[i]
  BY <1>1 DEF SbInv, WorkInv
<1>4. \A i \in Cartridges : mem.work[i] = IF i < Base THEN chk.mem.work[i]
                                          ELSE IF i < Cur THEN "native" ELSE "none"
  BY <1>1, <1>2, <1>3 DEF Again, Cartridges
<1>5. Done(mem.work, Cur)
  BY <1>1, <1>2, <1>4 DEF Done, Cartridges
<1> QED
  BY <1>4, <1>5

(* A header check that passes and closes the batch: commit and reopen.     *)
LEMMA InvClose == IInv /\ sb_reopen_close /\ tried' = tried => IInv'
<1> USE AllAssumptions DEF Assumptions, SbAssumptions
<1> SUFFICES ASSUME IInv, sb_reopen_close, tried' = tried PROVE IInv'
  OBVIOUS
<1>t. SbInv' /\ TypeOK' /\ SbInv /\ SbType /\ pc = "sb_reopen"
  BY NativeKeeps DEF IInv, SbInv, SpringboardStep, sb_reopen_close
<1>0. /\ inTx /\ Base \in 1..N+1 /\ Cur \in 1..N+1 /\ cpu.r15.at = "body"
  BY <1>t, Range DEF SbInv, ControlInv, InTarget
<1>1. /\ pc' = "body" /\ UNCHANGED <<taint, modeled, eax, ctx, stats>>
      /\ inTx' = TRUE /\ chk'.cpu = cpu' /\ chk'.mem = mem'
      /\ cpu'.rax = cpu.rax /\ cpu'.flags = cpu.flags /\ cpu'.r15 = cpu.r15
      /\ cpu'.r14 = cpu.rax
      /\ mem'.work = mem.work /\ mem'.tran_ctr = 0 /\ mem'.tran_max = TranMaxReset
  BY <1>t, CloseEffect
<1>2. TriedInv'
  BY <1>0, <1>1 DEF IInv, TriedInv
<1>3. RegisterInv'
  BY <1>0, <1>1 DEF IInv, RegisterInv, Base, Cur
<1>4. DoneInv'
  BY <1>0, <1>1, WorkDone DEF DoneInv, Done, CommittedWork, CommittedAt, Cur
<1>5. CounterInv'
  BY <1>0, <1>1 DEF CounterInv, Base, Cur, AtHeader, AbortCodeSound
<1> QED
  BY <1>t, <1>2, <1>3, <1>4, <1>5 DEF IInv

(* The header of a modeled function on clean data: commit and eject.       *)
LEMMA InvModeled == IInv /\ sb_modeled /\ tried' = tried => IInv'
<1> SUFFICES ASSUME IInv, sb_modeled, tried' = tried PROVE IInv'
  OBVIOUS
<1>t. SbInv' /\ TypeOK' /\ SbInv /\ SbType /\ pc = "sb_modeled"
  BY NativeKeeps DEF IInv, SbInv, SpringboardStep, sb_modeled
<1>0. inTx /\ cpu.r15.at = "body" /\ Cur \in modeled
  BY <1>t DEF SbInv, ControlInv, InTarget
<1>1. /\ pc' = "sb_fallback" /\ UNCHANGED <<taint, modeled, ctx, stats>>
      /\ inTx' = FALSE /\ eax' = ModeledStatus /\ cpu'.r15 = cpu.r15
      /\ mem'.work = mem.work
  BY <1>t, ModeledEffect
<1>2. TriedInv'
  BY <1>0, <1>1 DEF IInv, TriedInv
<1>3. RegisterInv'
  BY <1>0, <1>1 DEF IInv, RegisterInv, Base, Cur
<1>4. DoneInv'
  BY <1>0, <1>1, WorkDone DEF DoneInv, Done, CommittedWork, CommittedAt, Cur
<1>5. CounterInv'
  BY <1>1 DEF CounterInv, AbortCodeSound
<1> QED
  BY <1>t, <1>2, <1>3, <1>4, <1>5 DEF IInv

(* An abort goes back to a state in which the invariant held, and the code *)
(* of a poison abort counts the clean cartridges behind the poisoned one.  *)
LEMMA InvAborts == IInv /\ (sb_abort \/ TsxAbort) /\ tried' = tried => IInv'
<1> USE AllAssumptions DEF Assumptions, SbAssumptions
<1> SUFFICES ASSUME IInv, sb_abort \/ TsxAbort, tried' = tried PROVE IInv'
  OBVIOUS
<1>t. SbInv' /\ TypeOK' /\ SbInv /\ SbType
  BY NativeKeeps DEF IInv, SbInv, SpringboardStep
<1>1. /\ pc' = "sb_fallback" /\ UNCHANGED <<taint, modeled, ctx, stats>>
      /\ inTx' = FALSE /\ cpu' = chk.cpu /\ mem' = chk.mem /\ inTx
  BY <1>t, AbortEffect DEF SbInv, ControlInv, InTarget
<1>b. Base \in 1..N+1 /\ Cur \in 1..N+1 /\ mem.tran_ctr \in Nat
      /\ chk.cpu.r15.at \in {"head", "body"}
  BY <1>t DEF SbType, Regs, Positions, Mem, Base, Cur
<1>2. /\ eax' # ModeledStatus
      /\ TSX_XABORT \in eax'.bits =>
           LET blocks == eax'.imm - (IF chk.cpu.r15.at = "head" THEN 1 ELSE 0)
           IN  /\ \A i \in Base..Base+blocks-1 : i \notin taint \cup modeled
               /\ eax'.imm <= MaxAbortCode => Base + blocks \in taint
  <2>1. CASE /\ pc \in {"sb_reopen", "sb_modeled"} /\ Poisoned(cpu)
             /\ eax' = [bits |-> {TSX_XABORT}, imm |-> AbortCode(mem)]
    <3> DEFINE code == AbortCode(mem)
               off == IF chk.cpu.r15.at = "head" THEN 1 ELSE 0
    <3>1. code \in 0..254 /\ code <= mem.tran_ctr /\ (code <= MaxAbortCode => code = mem.tran_ctr)
      BY <1>b DEF AbortCode
    <3>2. mem.tran_ctr - off = Cur - 1 - Base
      BY <1>1, <1>b, <2>1 DEF IInv, CounterInv, AtHeader
    <3>3. Cur - 1 \in taint /\ Cur - 1 >= Base
      BY <2>1, <1>t DEF SbInv, TaintInv, AtHeader
    <3>4. \A i \in Base..Cur-2 : i \notin taint \cup modeled
      BY <1>1, <1>b, <1>t DEF SbInv, TaintInv
    <3>5. eax'.imm = code /\ eax' # ModeledStatus
      BY <2>1, <3>1 DEF ModeledStatus
    <3> HIDE DEF code
    <3>6. Base + (code - off) - 1 <= Cur - 2
      BY <1>b, <3>1, <3>2
    <3>7. code <= MaxAbortCode => Base + (code - off) = Cur - 1
      BY <1>b, <3>1, <3>2
    <3> QED
      BY <1>b, <3>1, <3>3, <3>4, <3>5, <3>6, <3>7
  <2>2. CASE \E bits \in AsyncCauses : eax' = [bits |-> bits, imm |-> 0]
    <3>1. TSX_XABORT \notin eax'.bits
      BY <2>2 DEF TSX_XABORT, TSX_RETRY, TSX_NESTED
    <3> QED
      BY <3>1 DEF ModeledStatus
  <2> QED
    BY <1>t, <2>1, <2>2, AbortEffect
<1>3. TriedInv'
  BY <1>1 DEF IInv, TriedInv
<1>4. RegisterInv'
  BY <1>1, <1>2 DEF IInv, RegisterInv, Base, Cur
<1>5. DoneInv'
  BY <1>1 DEF IInv, DoneInv, Done, CommittedWork, CommittedAt
<1>6. CounterInv'
  BY <1>1, <1>2 DEF CounterInv, AbortCodeSound, Base
<1> QED
  BY <1>t, <1>3, <1>4, <1>5, <1>6 DEF IInv

(* The context switch back to the host.                                    *)
LEMMA InvEject == IInv /\ sb_eject /\ tried' = tried => IInv'
<1> SUFFICES ASSUME IInv, sb_eject, tried' = tried PROVE IInv'
  OBVIOUS
<1>t. SbInv' /\ TypeOK' /\ SbInv /\ SbType
  BY NativeKeeps DEF IInv, SbInv, SpringboardStep
<1>1. /\ pc = "sb_fallback" /\ pc' = "host" /\ UNCHANGED <<taint, modeled, inTx, chk>>
      /\ ctx'.rip = cpu.r15 /\ ctx'.abort_status = eax
      /\ ctx'.regs.rax = cpu.r14 /\ ctx'.regs.flags = cpu.flags
      /\ mem'.work = mem.work
  BY <1>t, EjectEffect
<1>2. ~inTx /\ tried.n > 0
  BY <1>1, <1>t DEF SbInv, ControlInv, InTarget, IInv, TriedInv
<1>3. TriedInv'
  BY <1>1, <1>2 DEF TriedInv
<1>4. RegisterInv'
  BY <1>1, <1>2 DEF IInv, RegisterInv, Cur
<1>5. DoneInv'
  BY <1>1, <1>2 DEF IInv, DoneInv, Done, CommittedWork, CommittedAt
<1>6. CounterInv'
  BY <1>1, <1>2 DEF CounterInv, AbortCodeSound
<1> QED
  BY <1>t, <1>3, <1>4, <1>5, <1>6 DEF IInv

(* The interpreter executes the cartridge at rip.                          *)
LEMMA InvInterpRun == IInv /\ InterpRun => IInv'
<1> USE AllAssumptions DEF Assumptions, SbAssumptions
<1> SUFFICES ASSUME IInv, InterpRun PROVE IInv'
  OBVIOUS
<1>t. SbInv /\ SbType /\ ctx \in Context /\ mem \in Mem
  BY DEF IInv, SbInv, SbType
<1> DEFINE r == ctx.rip.i
<1>0. /\ pc = "host" /\ pc' = "host" /\ ~inTx /\ inTx' = inTx /\ r \in Cartridges
      /\ UNCHANGED <<taint, modeled, cpu, chk, eax, stats>> /\ exit_tase \in modeled
      /\ tried' = [i |-> r + 1, n |-> 0] /\ r + 1 \in 1..N+1 /\ r \in Values
  BY <1>t DEF InterpRun, SbInv, ControlInv, InTarget, Cartridges, Values
<1>1. PICK pos \in {Header(r + 1), Body(r + 1)} :
        ctx' = [ctx EXCEPT !.rip = pos, !.regs = [@ EXCEPT !.rax = r, !.flags = r]]
  BY DEF InterpRun
<1>2. pos.i = r + 1 /\ pos \in Positions
  BY <1>0, <1>1 DEF Header, Body, Positions
<1>3. /\ ctx' \in Context /\ ctx'.rip = pos /\ ctx'.regs.rax = r /\ ctx'.regs.flags = r
      /\ ctx'.regs.xref = ctx.regs.xref
  BY <1>0, <1>1, <1>2, <1>t DEF Context, Regs
<1>4. NativeClean(mem.work) /\ Done(mem.work, r) /\ r \in Int
  BY <1>0, <1>t DEF IInv, SbInv, WorkInv, DoneInv, CommittedAt, CommittedWork, Cartridges
<1>5. /\ mem' \in Mem
      /\ \A i \in Cartridges : mem'.work[i] = IF i = r THEN "interp" ELSE mem.work[i]
  <2>1. /\ mem' = [mem EXCEPT !.work = Executed(mem.work, r, "interp")]
        /\ mem.work \in [Cartridges -> Marks]
    BY <1>t DEF InterpRun, Mem
  <2>2. mem.work[r] = "none"
    BY <1>0, <1>4 DEF Done
  <2>3. mem'.work = [mem.work EXCEPT ![r] = "interp"]
    BY <1>t, <2>1, <2>2, <1>0 DEF Executed, Mem
  <2> QED
    BY <1>0, <1>t, <2>1, <2>3, ExecutedType
<1>6. SbType' /\ TypeOK'
  BY <1>0, <1>3, <1>5, <1>t DEF SbType, TypeOK
<1>7. ControlInv' /\ ReferenceInv' /\ TaintInv'
  BY <1>0, <1>3, <1>t DEF SbInv, ControlInv, ReferenceInv, TaintInv, AtHeader, InTarget, exit_tase
<1>8. WorkInv'
  <2>1. CommittedAt' = r + 1 /\ CommittedWork' = mem'.work
    BY <1>0, <1>2, <1>3 DEF CommittedAt, CommittedWork
  <2> QED
    BY <1>0, <1>4, <1>5, <2>1 DEF WorkInv, NativeClean, Clean
<1>9. SbInv'
  BY <1>6, <1>7, <1>8 DEF SbInv
<1>10. TriedInv' /\ CounterInv'
  BY <1>0 DEF TriedInv, CounterInv, AbortCodeSound
<1>11. RegisterInv'
  BY <1>0, <1>2, <1>3 DEF RegisterInv, Cartridges
<1>12. DoneInv'
  BY <1>0, <1>2, <1>3, <1>4, <1>5 DEF DoneInv, Done, CommittedWork, CommittedAt, Cartridges
<1> QED
  BY <1>6, <1>9, <1>10, <1>11, <1>12 DEF IInv

(* The first injection, and an injection by the interpreter.               *)
LEMMA InvInject == IInv /\ (Enter \/ InterpInject) => IInv'
<1> USE AllAssumptions DEF Assumptions, SbAssumptions
<1> SUFFICES ASSUME IInv, Enter \/ InterpInject PROVE IInv'
  OBVIOUS
<1>t. SbInv /\ SbType /\ exit_tase \in modeled
  BY DEF IInv, SbInv, ControlInv
<1>1. CASE Enter
  <2>1. /\ tase_inject(EntryContext, LoadedMem, TRUE)
        /\ stats' = ZeroCounters /\ tried' = [i |-> 1, n |-> 1]
    BY <1>1, <1>t DEF Enter, enter_tase, SbInv, ControlInv
  <2>2. /\ tried' \in [i : 1..N+1, n : 0..RetryMax+1] /\ tried'.n > 0
        /\ stats' \in Counters
    BY <2>1, InitialTypes
  <2>3. /\ EntryContext \in Context /\ EntryContext.rip = Header(1)
        /\ EntryContext.regs = [ZeroRegs EXCEPT !.xref = "poison"]
    BY InitialTypes DEF EntryContext, ZeroContext, Context
  <2>4. /\ EntryContext.rip.at = "head" /\ EntryContext.rip.i = 1
        /\ EntryContext.regs.rax = 0 /\ EntryContext.regs.flags = 0
        /\ EntryContext.regs.xref = "poison"
    BY <2>3 DEF Header, ZeroRegs
  <2>5. LoadedMem \in Mem /\ LoadedMem.tran_max = TranMaxReset
        /\ \A i \in Cartridges : LoadedMem.work[i] = "none" /\ i >= 1
    BY InitialTypes DEF LoadedMem, Cartridges
  <2>6. /\ LoadedMem.tran_max \in 1..TranMaxReset
        /\ NativeClean(LoadedMem.work) /\ Done(LoadedMem.work, EntryContext.rip.i)
    BY <2>4, <2>5 DEF NativeClean, Done
  <2>7. /\ EntryContext.rip.at = "body" => EntryContext.rip.i \notin modeled
        /\ EntryContext.regs.rax = EntryContext.rip.i - 1
        /\ EntryContext.regs.flags = EntryContext.rip.i - 1
    BY <2>4
  <2> QED
    BY <1>t, <2>1, <2>2, <2>3, <2>4, <2>5, <2>6, <2>7, InterpInjectInv
<1>2. CASE InterpInject
  <2>1. PICK k \in 1..TranMaxReset :
          tase_inject(ctx, [mem EXCEPT !.tran_max = k], TRUE)
    BY <1>2 DEF InterpInject
  <2> DEFINE m == [mem EXCEPT !.tran_max = k]
  <2>2. m \in Mem /\ m.work = mem.work /\ m.tran_max = k
    BY <1>t DEF SbType, Mem
  <2>3. /\ pc = "host" /\ ~inTx /\ ctx \in Context /\ ctx.rip.i \in 1..N+1
        /\ ctx.rip.at = "body" => ctx.rip.i \notin modeled
        /\ stats' = stats /\ stats \in Counters
    BY <1>2, <1>t DEF InterpInject, SbInv, ControlInv, SbType, InTarget, Context, Positions
  <2>4. tried' \in [i : 1..N+1, n : 0..RetryMax+1] /\ tried'.n > 0
    BY <1>2, <2>3 DEF InterpInject, IInv, TypeOK
  <2>5. /\ ctx.regs.xref = "poison"
        /\ ctx.regs.rax = ctx.rip.i - 1 /\ ctx.regs.flags = ctx.rip.i - 1
    BY <2>3, <1>t DEF SbInv, ReferenceInv, IInv, RegisterInv
  <2>6. NativeClean(mem.work) /\ Done(mem.work, ctx.rip.i)
    BY <2>3, <1>t DEF SbInv, WorkInv, IInv, DoneInv, CommittedWork, CommittedAt
  <2> HIDE DEF m
  <2>7. tase_inject(ctx, m, TRUE)
    BY <2>1 DEF m
  <2> QED
    BY <1>t, <2>2, <2>3, <2>4, <2>5, <2>6, <2>7, InterpInjectInv
<1> QED
  BY <1>1, <1>2

-----------------------------------------------------------------------------
(* Safety *)

(* The invariant holds initially. *)
LEMMA InvInit == Init => IInv
<1> SUFFICES ASSUME Init PROVE IInv
  OBVIOUS
<1> USE AllAssumptions DEF Assumptions, SbAssumptions
<1>0. /\ pc = "start" /\ inTx = FALSE /\ mem = LoadedMem /\ ctx = ZeroContext
  BY DEF Init, SpringboardInit
<1>1. ctx.rip.i = 1 /\ \A i \in Cartridges : mem.work[i] = "none" /\ i >= 1
  BY <1>0 DEF ZeroContext, Header, LoadedMem, Cartridges
<1>2. TriedInv /\ RegisterInv /\ CounterInv
  BY <1>0 DEF TriedInv, RegisterInv, CounterInv, AbortCodeSound
<1>3. DoneInv
  BY <1>0, <1>1 DEF DoneInv, Done, CommittedWork, CommittedAt
<1> QED
  BY <1>2, <1>3, TypeInit, SbInvInit DEF IInv, Init

(* It is inductive. *)
LEMMA InvNext == IInv /\ [Next]_vars => IInv'
<1> SUFFICES ASSUME IInv, [Next]_vars PROVE IInv'
  OBVIOUS
<1>1. CASE Native
  BY <1>1, InvRunBody, InvNoClose, InvClose, InvModeled, InvAborts, InvEject
     DEF Native, SpringboardStep
<1>2. CASE InterpExit
  <2>0. /\ pc = "host" /\ pc' = "exited" /\ ~inTx
        /\ UNCHANGED <<taint, modeled, cpu, mem, inTx, chk, eax, ctx, stats, tried>>
    BY <1>2 DEF InterpExit, IInv, SbInv, ControlInv, InTarget
  <2>1. TypeOK' /\ SbType'
    BY <2>0 DEF IInv, TypeOK, SbType
  <2>2. SbInv'
    BY <2>0, <2>1 DEF IInv, SbInv, ControlInv, ReferenceInv, TaintInv, WorkInv, NativeClean,
              AtHeader, InTarget, CommittedWork, Clean, exit_tase
  <2> QED
    BY <2>0, <2>1, <2>2 DEF IInv, TriedInv, RegisterInv, DoneInv, Done, CounterInv,
              AbortCodeSound, CommittedWork, CommittedAt
<1>3. CASE UNCHANGED vars
  BY <1>3 DEF vars, sbvars, IInv, TypeOK, SbInv, SbType, ControlInv, ReferenceInv, TaintInv,
              WorkInv, NativeClean, TriedInv, RegisterInv, DoneInv, Done, CounterInv, AtHeader, InTarget,
              AbortCodeSound, CommittedWork, CommittedAt, Clean, Base, Cur, exit_tase
<1> QED
  BY <1>1, <1>2, <1>3, InvInterpRun, InvInject DEF Next, Terminated

LEMMA Invariance == Spec => []IInv
BY InvInit, InvNext, PTL DEF Spec

(* Every variable keeps its type.                                          *)
THEOREM TypeCorrect == Spec => []TypeOK
<1>1. IInv => TypeOK
  BY DEF IInv
<1> QED
  BY <1>1, Invariance, PTL

(* Every cartridge takes effect exactly once and in order, whatever batch  *)
(* sizes, aborts, retries and interpretation steps a run is made of.       *)
THEOREM ExactlyOnceTheorem == Spec => []ExactlyOnce
<1>1. IInv => ExactlyOnce
  <2> SUFFICES ASSUME IInv PROVE ExactlyOnce
    OBVIOUS
  <2> USE AllAssumptions DEF Assumptions, SbAssumptions
  <2>1. \A i \in Cartridges :
          CommittedWork[i] # "twice" /\ (CommittedWork[i] = "none" <=> i >= CommittedAt)
    BY DEF IInv, DoneInv, Done
  <2>2. inTx => \A i \in Cartridges :
          mem.work[i] # "twice" /\ (mem.work[i] = "none" <=> i >= Cur)
    BY WorkDone DEF Done
  <2> QED
    BY <2>1, <2>2 DEF ExactlyOnce, Cur
<1> QED
  BY <1>1, Invariance, PTL

(* No transaction ever commits a cartridge that touches poisoned data or   *)
(* belongs to a modeled function.                                          *)
THEOREM NativeIsConcreteTheorem == Spec => []NativeIsConcrete
<1>1. IInv => NativeIsConcrete
  BY SbInvImplies DEF IInv
<1> QED
  BY <1>1, Invariance, PTL

(* No body starts after a poisoned one in the same transaction.            *)
THEOREM NoSpeculationTheorem == Spec => []NoSpeculationPastPoison
<1>1. IInv => NoSpeculationPastPoison
  BY SbInvImplies DEF IInv
<1> QED
  BY <1>1, Invariance, PTL

(* Every body starts on the rax and the flags its predecessor left.        *)
THEOREM RegistersTheorem == Spec => []BodyStartsIntact
<1>1. IInv => BodyStartsIntact
  BY DEF IInv, RegisterInv, SbInv, ControlInv, InTarget, BodyStartsIntact, Cur
<1> QED
  BY <1>1, Invariance, PTL

(* Every abort leaves rax and the flags of the committed position in       *)
(* target_ctx.  (A modeled call does not: EjectedStateIntact fails.)       *)
THEOREM AbortedStateTheorem == Spec => []AbortedStateIntact
<1>1. IInv => AbortedStateIntact
  BY DEF IInv, RegisterInv, AbortedStateIntact, AtEjection, ContextIntact
<1> QED
  BY <1>1, Invariance, PTL

(* The immediate of a poison abort is a safe batch size for the retry.     *)
THEOREM AbortCodeTheorem == Spec => []AbortCodeSound
<1>1. IInv => AbortCodeSound
  BY DEF IInv, CounterInv
<1> QED
  BY <1>1, Invariance, PTL

(* The counters of target_ctx account for every ejection exactly once,     *)
(* modulo their width, as long as the hardware reports at most one cause   *)
(* of its own.                                                             *)
THEOREM InterpAbortsAccountedFor == OneCause => (Spec => []AbortsAccountedFor)
<1> SUFFICES ASSUME OneCause PROVE Spec => []AbortsAccountedFor
  OBVIOUS
<1>1. Init => CountInv
  BY ZeroBalanced DEF Init, SpringboardInit, CountInv
<1>2. ASSUME IInv, CountInv, [Next]_vars
      PROVE  CountInv'
  <2>1. CASE Native
    BY <1>2, <2>1, CountInvStep DEF IInv, Native
  <2>2. CASE Enter
    <3>1. stats' = ZeroCounters /\ tase_inject(EntryContext, mem, TRUE)
      BY <2>2 DEF Enter, enter_tase
    <3>2. pc' # "sb_fallback"
      BY <3>1 DEF tase_inject, sb_inject, ArrivePc
    <3>3. AbortsAccountedFor'
      BY <3>1, ZeroBalanced
    <3> QED
      BY <3>2, <3>3 DEF CountInv
  <2>3. CASE InterpInject
    <3>1. stats' = stats /\ pc' # "sb_fallback"
      BY <2>3 DEF InterpInject, tase_inject, sb_inject, ArrivePc
    <3> QED
      BY <1>2, <3>1 DEF CountInv, AbortsAccountedFor
  <2>4. CASE InterpRun \/ InterpExit
    <3>1. stats' = stats /\ pc' # "sb_fallback"
      BY <2>4 DEF InterpRun, InterpExit
    <3> QED
      BY <1>2, <3>1 DEF CountInv, AbortsAccountedFor
  <2>5. CASE UNCHANGED vars
    BY <1>2, <2>5 DEF vars, sbvars, CountInv, AbortsAccountedFor
  <2> QED
    BY <1>2, <2>1, <2>2, <2>3, <2>4, <2>5 DEF Next, Terminated
<1>3. CountInv => AbortsAccountedFor
  BY DEF CountInv
<1> QED
  BY <1>1, <1>2, <1>3, Invariance, PTL DEF Spec

-----------------------------------------------------------------------------
(* Refinement *)

(* What an ended or begun transaction means for the committed state: it    *)
(* grows by the cartridges Base..Cur-1, all clean, at most TranMaxReset.   *)
LEMMA CommitIsBatch ==
    ASSUME IInv, IInv', inTx, AtHeader, ~Poisoned(cpu),
           taint' = taint, modeled' = modeled, pc' # "exited",
           CommittedWork' = mem.work, CommittedAt' = Cur
    PROVE  [Target!Next]_Target!vars
<1> USE AllAssumptions DEF Assumptions, SbAssumptions
<1>1. /\ Base \in 1..N+1 /\ Cur \in 1..N+1 /\ Base <= Cur
      /\ CommittedAt = Base /\ CommittedWork = chk.mem.work
      /\ mem.work \in [Cartridges -> Marks] /\ chk.mem.work \in [Cartridges -> Marks]
      /\ pc # "exited"
  BY DEF IInv, SbInv, ControlInv, InTarget, TypeOK, Regs, Positions, Mem, Base, Cur, AtHeader,
         CommittedAt, CommittedWork
<1>2. \A i \in Cartridges : mem.work[i] = IF i < Base THEN chk.mem.work[i]
                                          ELSE IF i < Cur THEN "native" ELSE "none"
  BY WorkDone
<1>3. \A i \in Cartridges : i >= Base => chk.mem.work[i] = "none"
  BY <1>1 DEF IInv, DoneInv, Done
<1>4. mem.work = [i \in 1..N |-> IF i \in Base..Cur-1 THEN "native" ELSE chk.mem.work[i]]
  <2>1. \A i \in 1..N : mem.work[i] = IF i \in Base..Cur-1 THEN "native" ELSE chk.mem.work[i]
    BY <1>1, <1>2, <1>3 DEF Cartridges
  <2> QED
    BY <1>1, <2>1 DEF Cartridges
<1>5. CASE Base = Cur
  <2>1. mem.work = chk.mem.work
    BY <1>1, <1>2, <1>3, <1>5 DEF Cartridges
  <2> QED
    BY <1>1, <1>5, <2>1 DEF Target!vars
<1>6. CASE Base # Cur
  <2>1. Cur - 1 \in Base..N
    BY <1>1, <1>6
  <2>2. (Cur - 1) - Base < TranMaxReset
    <3>1. /\ mem.tran_ctr = Cur - Base + (IF chk.cpu.r15.at = "head" THEN 1 ELSE 0) - 1
          /\ mem.tran_ctr < mem.tran_max /\ mem.tran_max <= TranMaxReset
          /\ mem.tran_ctr \in Nat /\ mem.tran_max \in Nat
      BY DEF IInv, CounterInv, TypeOK, Mem
    <3> QED
      BY <1>1, <3>1
  <2>3. \A i \in Base..Cur-1 : i \notin taint /\ i \notin modeled
    BY <1>1 DEF IInv, SbInv, TaintInv
  <2>4. Target!NativeBatch
    BY <1>1, <1>4, <2>1, <2>2, <2>3 DEF Target!NativeBatch
  <2> QED
    BY <2>4 DEF Target!Next
<1> QED
  BY <1>5, <1>6

(* Every step of the springboard and the interpreter is a step of          *)
(* TargetRun or invisible there.                                           *)
LEMMA StepRefines ==
    ASSUME IInv, IInv', [Next]_vars
    PROVE  [Target!Next]_Target!vars
<1> USE AllAssumptions DEF Assumptions, SbAssumptions
<1>t. TypeOK /\ TypeOK'
  BY DEF IInv
<1>1. CASE RunBody \/ sb_reopen_no_close
  <2>1. UNCHANGED <<taint, modeled, chk, inTx>> /\ inTx /\ pc # "exited" /\ pc' # "exited"
    BY <1>1 DEF RunBody, sb_reopen_no_close, IInv, SbInv, ControlInv, InTarget
  <2> QED
    BY <2>1 DEF Target!vars, CommittedWork, CommittedAt
<1>2. CASE sb_reopen_close
  <2>1. /\ inTx /\ AtHeader /\ ~Poisoned(cpu) /\ taint' = taint /\ modeled' = modeled
        /\ pc' = "body" /\ inTx' /\ chk'.mem = mem' /\ chk'.cpu = cpu'
    BY <1>2 DEF sb_reopen_close, AtHeader, Xbegin, IInv, SbInv, ControlInv, InTarget
  <2>2. mem'.work = mem.work /\ cpu'.r15 = cpu.r15
    BY <1>2, <1>t DEF sb_reopen_close, ClosedMem, sbm_init_tran, TypeOK, Mem, Regs
  <2>3. CommittedWork' = mem.work /\ CommittedAt' = Cur
    BY <2>1, <2>2 DEF CommittedWork, CommittedAt, Cur
  <2> QED
    BY <2>1, <2>3, CommitIsBatch
<1>3. CASE sb_modeled
  <2>1. /\ inTx /\ AtHeader /\ ~Poisoned(cpu) /\ taint' = taint /\ modeled' = modeled
        /\ pc' = "sb_fallback" /\ ~inTx'
    BY <1>3 DEF sb_modeled, AtHeader, EndTx, IInv, SbInv, ControlInv, InTarget
  <2>2. mem'.work = mem.work
    BY <1>3, <1>t DEF sb_modeled, ModeledMem, TypeOK, Mem
  <2>4. cpu'.r15 = cpu.r15
    <3>1. sbm_compare_poison(cpu).r15 = cpu.r15 /\ sbm_compare_poison(cpu) \in Regs
      BY <1>t, RegTypes DEF sbm_compare_poison, TypeOK, Regs
    <3> QED
      BY <1>3, <3>1 DEF sb_modeled, Regs
  <2>3. CommittedWork' = mem.work /\ CommittedAt' = Cur
    BY <2>1, <2>2, <2>4 DEF CommittedWork, CommittedAt, Cur
  <2> QED
    BY <2>1, <2>3, CommitIsBatch
<1>4. CASE sb_abort \/ TsxAbort
  <2>1. inTx /\ \E status : Abort(status)
    BY <1>4 DEF sb_abort, TsxAbort, IInv, SbInv, ControlInv, InTarget
  <2>2. /\ cpu' = chk.cpu /\ mem' = chk.mem /\ ~inTx' /\ pc' = "sb_fallback"
        /\ taint' = taint /\ modeled' = modeled /\ pc # "exited"
    BY <2>1 DEF Abort, EndTx, IInv, SbInv, ControlInv, InTarget
  <2> QED
    BY <2>1, <2>2 DEF Target!vars, CommittedWork, CommittedAt
<1>5. CASE sb_eject
  <2>1. /\ pc = "sb_fallback" /\ pc' = "host" /\ ~inTx /\ ~inTx'
        /\ taint' = taint /\ modeled' = modeled
    BY <1>5 DEF sb_eject, IInv, SbInv, ControlInv, InTarget
  <2>2. mem'.work = mem.work /\ ctx'.rip = cpu.r15
    BY <1>5, <1>t DEF sb_eject, EjectedContext, TypeOK, Mem, Context
  <2> QED
    BY <2>1, <2>2 DEF Target!vars, CommittedWork, CommittedAt
<1>6. CASE Enter
  <2>1. /\ pc = "start" /\ tase_inject(EntryContext, LoadedMem, TRUE)
        /\ mem = LoadedMem /\ ctx = ZeroContext /\ ~inTx
    BY <1>6 DEF Enter, enter_tase, IInv, SbInv, ControlInv, InTarget
  <2>2. /\ taint' = taint /\ modeled' = modeled /\ inTx' = TRUE
        /\ chk'.cpu.r15 = EntryContext.rip /\ chk'.mem.work = LoadedMem.work
        /\ pc' # "exited"
    BY <2>1, InitialTypes, InjectEffect, <1>t DEF ArrivePc
  <2>3. EntryContext.rip = ZeroContext.rip
    BY DEF EntryContext, ZeroContext
  <2> QED
    BY <2>1, <2>2, <2>3 DEF Target!vars, CommittedWork, CommittedAt
<1>7. CASE InterpInject
  <2>1. PICK k \in 1..TranMaxReset :
          tase_inject(ctx, [mem EXCEPT !.tran_max = k], TRUE)
    BY <1>7 DEF InterpInject
  <2>2. [mem EXCEPT !.tran_max = k] \in Mem /\ [mem EXCEPT !.tran_max = k].work = mem.work
        /\ ctx \in Context
    BY <1>t DEF TypeOK, Mem
  <2>3. /\ taint' = taint /\ modeled' = modeled /\ inTx' = TRUE
        /\ chk'.cpu.r15 = ctx.rip /\ chk'.mem.work = mem.work
        /\ pc' # "exited"
    BY <2>1, <2>2, InjectEffect DEF ArrivePc
  <2>4. pc = "host" /\ ~inTx
    BY <1>7 DEF InterpInject, IInv, SbInv, ControlInv, InTarget
  <2> QED
    BY <2>3, <2>4 DEF Target!vars, CommittedWork, CommittedAt
<1>8. CASE InterpRun
  <2> DEFINE r == ctx.rip.i
  <2>1. /\ pc = "host" /\ pc' = "host" /\ ~inTx /\ ~inTx' /\ r \in Cartridges
        /\ taint' = taint /\ modeled' = modeled
    BY <1>8 DEF InterpRun, IInv, SbInv, ControlInv, InTarget
  <2>2. ctx'.rip.i = r + 1
    BY <1>8, <1>t DEF InterpRun, TypeOK, Context, Header, Body
  <2>3. mem'.work = Executed(mem.work, r, "interp") /\ mem.work \in [Cartridges -> Marks]
    BY <1>8, <1>t DEF InterpRun, TypeOK, Mem
  <2>4. mem.work[r] = "none"
    <3>1. r >= r /\ CommittedAt = r /\ CommittedWork = mem.work
      BY <2>1 DEF Cartridges, CommittedAt, CommittedWork
    <3> QED
      BY <2>1, <3>1 DEF IInv, DoneInv, Done
  <2>5. mem'.work = [mem.work EXCEPT ![r] = "interp"]
    BY <2>1, <2>3, <2>4 DEF Executed
  <2>6. Target!Interpret
    BY <2>1, <2>2, <2>5 DEF Target!Interpret, CommittedWork, CommittedAt, Cartridges
  <2> QED
    BY <2>6 DEF Target!Next
<1>9. CASE InterpExit
  <2>1. Target!Exit
    BY <1>9 DEF InterpExit, Target!Exit, CommittedWork, CommittedAt, exit_tase, IInv, SbInv, ControlInv, InTarget
  <2> QED
    BY <2>1 DEF Target!Next
<1>10. CASE UNCHANGED vars
  BY <1>10 DEF vars, sbvars, Target!vars, CommittedWork, CommittedAt
<1> QED
  BY <1>1, <1>2, <1>3, <1>4, <1>5, <1>6, <1>7, <1>8, <1>9, <1>10
     DEF Next, Native, SpringboardStep, Terminated

(* The springboard and the interpreter implement the safety part of        *)
(* TargetRun for every program.                                            *)
THEOREM Refinement == Spec => Target!Safety
<1>1. Init => Target!Init
  <2> SUFFICES ASSUME Init PROVE Target!Init
    OBVIOUS
  <2>1. /\ pc = "start" /\ inTx = FALSE /\ mem = LoadedMem /\ ctx = ZeroContext
        /\ taint \in SUBSET Cartridges
    BY DEF Init, SpringboardInit
  <2>2. modeled \in SUBSET (1..N+1)
    BY TypeInit DEF TypeOK
  <2> QED
    BY <2>1, <2>2 DEF Target!Init, CommittedWork, CommittedAt, LoadedMem, ZeroContext,
                      Header, Cartridges
<1> QED
  BY <1>1, StepRefines, Invariance, PTL DEF Spec, Target!Safety

(* What has been committed or interpreted is final.                        *)
THEOREM CommittedIsFinalTheorem == Spec => CommittedIsFinal
<1>1. ASSUME IInv, IInv', [Next]_vars
      PROVE  [\A i \in Cartridges : CommittedWork[i] # "none" =>
                  CommittedWork'[i] = CommittedWork[i]]_vars
  <2>1. [Target!Next]_Target!vars
    BY <1>1, StepRefines
  <2>2. CASE Target!NativeBatch
    <3>1. PICK last \in CommittedAt..N :
            CommittedWork' = [i \in 1..N |-> IF i \in CommittedAt..last THEN "native"
                                                                        ELSE CommittedWork[i]]
      BY <2>2 DEF Target!NativeBatch
    <3>2. \A i \in Cartridges : CommittedWork[i] = "none" <=> i >= CommittedAt
      BY <1>1 DEF IInv, DoneInv, Done
    <3> QED
      BY <3>1, <3>2 DEF Cartridges
  <2>3. CASE Target!Interpret
    <3>1. CommittedWork' = [CommittedWork EXCEPT ![CommittedAt] = "interp"]
          /\ CommittedAt \in Cartridges
      BY <2>3 DEF Target!Interpret, Cartridges
    <3>2. \A i \in Cartridges : CommittedWork[i] = "none" <=> i >= CommittedAt
      BY <1>1 DEF IInv, DoneInv, Done
    <3>3. CommittedWork \in [Cartridges -> Marks]
      BY <1>1 DEF IInv, TypeOK, Mem, CommittedWork
    <3> QED
      BY <3>1, <3>2, <3>3, AllAssumptions DEF Cartridges, Assumptions, SbAssumptions
  <2>4. CASE Target!Exit
    BY <2>4 DEF Target!Exit
  <2>5. CASE UNCHANGED Target!vars
    BY <2>5 DEF Target!vars
  <2> QED
    BY <2>1, <2>2, <2>3, <2>4, <2>5 DEF Target!Next
<1> QED
  BY <1>1, Invariance, PTL DEF Spec, CommittedIsFinal
=============================================================================
