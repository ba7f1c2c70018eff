--------------------------- MODULE HarnessProofs ---------------------------
(***************************************************************************)
(* Proofs about the stand-alone driver, for every program length, batch    *)
(* size, set of asynchronous causes and counter width, and for every word  *)
(* it finds on the target's stack: the springboard's invariant asks        *)
(* nothing of the place of an injection, so the driver's steps keep it.    *)
(***************************************************************************)
EXTENDS Harness, SpringboardProofs

(* A round injects the context it has at the header it popped.             *)
LEMMA ResumeEffect ==
    ASSUME SbInv, Resume
    PROVE  \E j \in 1..N+1 :
             /\ pc = "host" /\ stats' = stats
             /\ [ctx EXCEPT !.rip = Header(j)] \in Context
             /\ tase_inject([ctx EXCEPT !.rip = Header(j)], mem, FALSE)
<1> USE AllSbAssumptions DEF SbAssumptions
<1>1. ctx \in Context
  BY DEF SbInv, SbType
<1>2. PICK j \in 1..N+1 : tase_inject([ctx EXCEPT !.rip = Header(j)], mem, FALSE)
  BY DEF Resume, TASE_ENABLE, exit_tase
<1>3. pc = "host" /\ stats' = stats
  BY DEF Resume, Looping
<1>4. [ctx EXCEPT !.rip = Header(j)] \in Context
  BY <1>1 DEF Context, Header, Positions
<1> QED
  BY <1>2, <1>3, <1>4

(* A round that faults leaves the work, the position and the reference.    *)
LEMMA FaultEffect ==
    ASSUME SbInv, ResumeFaults
    PROVE  /\ pc = "host" /\ UNCHANGED <<taint, modeled, pc, cpu, inTx, chk, eax>>
           /\ SbType' /\ ctx'.rip = ctx.rip /\ ctx'.regs.xref = ctx.regs.xref
           /\ mem'.work = mem.work /\ stats' = CountAbort(stats, NoStatus)
<1> DEFINE r == Stored(sbm_init_tran(ctx.regs))
<1>1. /\ pc = "host" /\ UNCHANGED <<taint, modeled, pc, cpu, inTx, chk, eax>>
      /\ stats' = CountAbort(stats, NoStatus)
      /\ ctx' = [ctx EXCEPT !.last_abort_status = ctx.abort_status,
                            !.abort_status = NoStatus, !.regs = r]
      /\ mem' = [mem EXCEPT !.tran_ctr = 0, !.tase_springboard = "sb_disabled"]
  BY DEF ResumeFaults, Looping
<1>2. SbType /\ ctx \in Context /\ ctx.regs \in Regs /\ mem \in Mem
  BY DEF SbInv, SbType, Context
<1>3. r \in Regs /\ r.xref = ctx.regs.xref
  BY <1>2 DEF Stored, sbm_init_tran, Regs, Words
<1> HIDE DEF r
<1>4. ctx' \in Context /\ ctx'.rip = ctx.rip /\ ctx'.regs = r
  BY <1>1, <1>2, <1>3, InitialTypes DEF Context
<1>5. mem' \in Mem /\ mem'.work = mem.work
  BY <1>1, <1>2 DEF Mem
<1>6. stats' \in Counters
  BY <1>1, <1>2, CountersType, InitialTypes DEF SbType
<1>7. SbType'
  BY <1>1, <1>2, <1>4, <1>5, <1>6 DEF SbType
<1> QED
  BY <1>1, <1>3, <1>4, <1>5, <1>7

(* The invariant is kept by the entry, by a round of the loop and by both  *)
(* exits.                                                                  *)
LEMMA DriverInv == SbInv /\ [Next]_vars => SbInv'
<1> USE AllSbAssumptions DEF SbAssumptions
<1> SUFFICES ASSUME SbInv, [Next]_vars PROVE SbInv'
  OBVIOUS
<1>t. SbType /\ mem \in Mem /\ exit_tase \in modeled
  BY DEF SbInv, SbType, ControlInv
<1>1. CASE Enter
  <2>1. /\ tase_inject(EntryContext, mem, FALSE) /\ stats' = ZeroCounters
        /\ mem = LoadedMem /\ EntryContext \in Context
    BY <1>1, InitialTypes DEF Enter, enter_tase, TASE_ENABLE, SbInv, ControlInv
  <2>2. SbType'
    BY <1>t, <2>1, InjectEffect, InitialTypes DEF SbType
  <2>3. /\ EntryContext.rip = Header(1) /\ EntryContext.regs.xref = "poison"
    BY DEF EntryContext, ZeroContext, ZeroRegs
  <2>4. EntryContext.rip.at = "head"
    BY <2>3 DEF Header
  <2>5. NativeClean(mem.work)
    BY <2>1 DEF NativeClean, LoadedMem
  <2> QED
    BY <1>t, <2>1, <2>2, <2>3, <2>4, <2>5, InjectInv
<1>2. CASE Resume
  <2>1. PICK j \in 1..N+1 :
             /\ pc = "host" /\ stats' = stats
             /\ [ctx EXCEPT !.rip = Header(j)] \in Context
             /\ tase_inject([ctx EXCEPT !.rip = Header(j)], mem, FALSE)
    BY <1>2, ResumeEffect
  <2> DEFINE c == [ctx EXCEPT !.rip = Header(j)]
  <2>2. SbType'
    BY <1>t, <2>1, InjectEffect DEF SbType
  <2>3. ctx.regs.xref = "poison" /\ NativeClean(mem.work)
    BY <1>t, <2>1 DEF SbInv, ReferenceInv, ControlInv, WorkInv, CommittedWork, InTarget
  <2>4. c.rip = Header(j) /\ c.regs = ctx.regs
    BY <1>t DEF SbType, Context
  <2>5. c.rip.at = "head" /\ c.regs.xref = "poison"
    BY <2>3, <2>4 DEF Header
  <2>6. c \in Context /\ tase_inject(c, mem, FALSE)
    BY <2>1
  <2> HIDE DEF c
  <2> QED
    BY <1>t, <2>2, <2>3, <2>5, <2>6, InjectInv
<1>3. CASE ResumeFaults
  <2>1. /\ pc = "host" /\ UNCHANGED <<taint, modeled, pc, cpu, inTx, chk, eax>>
        /\ SbType' /\ ctx'.regs.xref = ctx.regs.xref /\ mem'.work = mem.work
    BY <1>3, FaultEffect
  <2>2. ControlInv' /\ ReferenceInv' /\ TaintInv'
    BY <2>1 DEF SbInv, ControlInv, ReferenceInv, TaintInv, AtHeader, InTarget, exit_tase
  <2>3. WorkInv'
    BY <2>1 DEF SbInv, ControlInv, WorkInv, NativeClean, CommittedWork, Clean, InTarget
  <2> QED
    BY <2>1, <2>2, <2>3 DEF SbInv
<1>4. CASE Reject \/ Leave
  <2>1. /\ pc = "host" /\ pc' \in {"bad_return", "exited"}
        /\ UNCHANGED <<taint, modeled, cpu, mem, inTx, chk, eax, ctx, stats>>
    BY <1>4 DEF Reject, Leave, Looping
  <2>2. SbType' /\ ControlInv' /\ ReferenceInv' /\ TaintInv'
    BY <2>1 DEF SbInv, SbType, ControlInv, ReferenceInv, TaintInv, AtHeader, InTarget, exit_tase
  <2>3. WorkInv'
    BY <2>1 DEF SbInv, ControlInv, WorkInv, NativeClean, CommittedWork, Clean, InTarget
  <2> QED
    BY <2>2, <2>3 DEF SbInv
<1>5. CASE UNCHANGED vars
  BY <1>5 DEF vars, sbvars, SbInv, SbType, ControlInv, ReferenceInv, TaintInv, WorkInv, NativeClean,
              AtHeader, InTarget, exit_tase, CommittedWork, Clean, Base, Cur
<1> QED
  BY <1>1, <1>2, <1>3, <1>4, <1>5, SbInvStep DEF Next, Native, Terminated

LEMMA DriverInvariance == Spec => []SbInv
<1>1. Init => SbInv
  BY SbInvInit DEF Init
<1> QED
  BY <1>1, DriverInv, PTL DEF Spec

-----------------------------------------------------------------------------
(* What a step commits, as RoundInOrder states it.                         *)
Extends ==
    /\ CommittedAt' >= CommittedAt
    /\ \A i \in Cartridges :
         CommittedWork'[i] = IF i \in CommittedAt..CommittedAt'-1
                             THEN Executed(CommittedWork, i, "native")[i]
                             ELSE CommittedWork[i]

(* A step that commits the open transaction.                               *)
LEMMA CommitExtends ==
    ASSUME SbInv, inTx, CommittedWork' = mem.work, CommittedAt' = Cur
    PROVE  Extends
<1>1. /\ Base \in Int /\ Cur \in Int /\ Base <= Cur
      /\ CommittedAt = Base /\ CommittedWork = chk.mem.work
      /\ CommittedWork \in [Cartridges -> Marks]
  BY Range DEF SbInv, SbType, Mem, CommittedAt, CommittedWork, Base
<1>2. \A i \in Cartridges : Executed(CommittedWork, i, "native")[i] = Again(CommittedWork[i])
  BY <1>1 DEF Executed, Again
<1>3. \A i \in Cartridges : mem.work[i] = IF i \in Base..Cur-1 THEN Again(chk.mem.work[i])
                                                             ELSE chk.mem.work[i]
  BY DEF SbInv, WorkInv
<1> QED
  BY <1>1, <1>2, <1>3 DEF Extends

(* A step that commits nothing and keeps its place.                        *)
LEMMA SameExtends ==
    ASSUME SbInv, CommittedWork' = CommittedWork, CommittedAt' = CommittedAt
    PROVE  Extends
<1>1. CommittedAt \in Int
  BY AllSbAssumptions DEF SbAssumptions, SbInv, SbType, CommittedAt, Context, Regs, Positions
<1> QED
  BY <1>1 DEF Extends

(* Every step of the springboard extends the committed work in order.      *)
LEMMA StepExtends ==
    ASSUME SbInv, SpringboardStep
    PROVE  Extends
<1>t. SbType
  BY DEF SbInv
<1>1. CASE RunBody \/ sb_reopen_no_close
  <2>1. UNCHANGED <<inTx, chk>> /\ inTx
    BY <1>1 DEF RunBody, sb_reopen_no_close, SbInv, ControlInv, InTarget
  <2> QED
    BY <2>1, SameExtends DEF CommittedWork, CommittedAt
<1>2. CASE sb_reopen_close
  <2>1. /\ pc = "sb_reopen" /\ inTx' = TRUE /\ chk'.cpu = cpu' /\ chk'.mem = mem'
        /\ cpu'.r15 = cpu.r15 /\ mem'.work = mem.work
    BY <1>2, <1>t, CloseEffect
  <2>2. inTx
    BY <2>1 DEF SbInv, ControlInv, InTarget
  <2> QED
    BY <2>1, <2>2, CommitExtends DEF CommittedWork, CommittedAt, Cur
<1>3. CASE sb_modeled
  <2>1. /\ pc = "sb_modeled" /\ pc' = "sb_fallback" /\ inTx' = FALSE
        /\ cpu'.r15 = cpu.r15 /\ mem'.work = mem.work
    BY <1>3, <1>t, ModeledEffect
  <2>2. inTx
    BY <2>1 DEF SbInv, ControlInv, InTarget
  <2> QED
    BY <2>1, <2>2, CommitExtends DEF CommittedWork, CommittedAt, Cur
<1>4. CASE sb_abort \/ TsxAbort
  <2>1. pc' = "sb_fallback" /\ inTx' = FALSE /\ cpu' = chk.cpu /\ mem' = chk.mem /\ inTx
    BY <1>4, <1>t, AbortEffect DEF SbInv, ControlInv, InTarget
  <2> QED
    BY <2>1, SameExtends DEF CommittedWork, CommittedAt
<1>5. CASE sb_eject
  <2>1. /\ pc = "sb_fallback" /\ pc' = "host" /\ inTx' = inTx /\ ~inTx
        /\ ctx'.rip = cpu.r15 /\ mem'.work = mem.work
    BY <1>5, <1>t, EjectEffect DEF SbInv, ControlInv, InTarget
  <2> QED
    BY <2>1, SameExtends DEF CommittedWork, CommittedAt
<1> QED
  BY <1>1, <1>2, <1>3, <1>4, <1>5 DEF SpringboardStep

(* A round commits the cartridges from where it was injected to where it   *)
(* is ejected, each once, and the driver is told that place; this holds    *)
(* for every sequence of words the driver finds on the stack, those that   *)
(* lead back to cartridges that have run and those that lead nowhere.      *)
THEOREM RoundInOrderTheorem == Spec => RoundInOrder
<1>1. ASSUME SbInv, [Next]_vars
      PROVE  [IF pc \in {"start", "host"} THEN CommittedWork' = CommittedWork ELSE Extends]_vars
  <2>1. CASE Native
    <3>1. pc \notin {"start", "host"}
      BY <1>1, <2>1 DEF Native, SpringboardStep, RunBody, sb_reopen_no_close, sb_reopen_close,
                        sb_modeled, sb_abort, TsxAbort, sb_eject, SbInv, ControlInv, InTarget
    <3> QED
      BY <1>1, <2>1, <3>1, StepExtends DEF Native
  <2>2. CASE Enter
    <3>1. pc = "start" /\ mem = LoadedMem /\ ~inTx /\ tase_inject(EntryContext, mem, FALSE)
      BY <1>1, <2>2 DEF Enter, enter_tase, TASE_ENABLE, SbInv, ControlInv, InTarget
    <3>2. inTx' = TRUE /\ chk'.mem.work = mem.work
      BY <3>1, InjectEffect, InitialTypes
    <3> QED
      BY <3>1, <3>2 DEF CommittedWork
  <2>3. CASE Resume
    <3>1. PICK j \in 1..N+1 :
               /\ pc = "host"
               /\ [ctx EXCEPT !.rip = Header(j)] \in Context
               /\ tase_inject([ctx EXCEPT !.rip = Header(j)], mem, FALSE)
      BY <1>1, <2>3, ResumeEffect
    <3>2. mem \in Mem /\ ~inTx
      BY <1>1, <3>1 DEF SbInv, SbType, ControlInv, InTarget
    <3>3. inTx' = TRUE /\ chk'.mem.work = mem.work
      BY <3>1, <3>2, InjectEffect
    <3> QED
      BY <3>1, <3>2, <3>3 DEF CommittedWork
  <2>4. CASE ResumeFaults
    <3>1. pc = "host" /\ inTx' = inTx /\ mem'.work = mem.work /\ ~inTx
      BY <1>1, <2>4, FaultEffect DEF SbInv, ControlInv, InTarget
    <3> QED
      BY <3>1 DEF CommittedWork
  <2>5. CASE Reject \/ Leave
    BY <2>5 DEF Reject, Leave, Looping, CommittedWork
  <2>6. CASE UNCHANGED vars
    BY <2>6
  <2> QED
    BY <1>1, <2>1, <2>2, <2>3, <2>4, <2>5, <2>6 DEF Next, Terminated
<1> QED
  BY <1>1, DriverInvariance, PTL DEF Spec, RoundInOrder, Extends

(* Under the driver, too, no transaction commits a cartridge that touches  *)
(* poisoned data or belongs to a modeled function.                         *)
THEOREM DriverNativeIsConcrete == Spec => []NativeIsConcrete
BY DriverInvariance, SbInvImplies, PTL

(* Under the driver, too, no body starts after a poisoned one in the same  *)
(* transaction.                                                            *)
THEOREM DriverNoSpeculation == Spec => []NoSpeculationPastPoison
BY DriverInvariance, SbInvImplies, PTL

(* The counters of target_ctx account for every ejection exactly once,     *)
(* modulo their width, as long as the hardware reports at most one cause   *)
(* of its own.                                                             *)
THEOREM AbortsAccountedForTheorem == OneCause => (Spec => []AbortsAccountedFor)
<1> SUFFICES ASSUME OneCause PROVE Spec => []AbortsAccountedFor
  OBVIOUS
<1>1. Init => CountInv
  BY ZeroBalanced DEF Init, SpringboardInit, CountInv
<1>2. ASSUME SbInv, CountInv, [Next]_vars
      PROVE  CountInv'
  <2>1. CASE Native
    BY <1>2, <2>1, CountInvStep DEF Native
  <2>2. CASE Enter
    <3>1. stats' = ZeroCounters /\ tase_inject(EntryContext, mem, FALSE)
      BY <2>2 DEF Enter, enter_tase, TASE_ENABLE
    <3>2. pc' # "sb_fallback"
      BY <3>1 DEF tase_inject, sb_inject, ArrivePc
    <3>3. AbortsAccountedFor'
      BY <3>1, ZeroBalanced
    <3> QED
      BY <3>2, <3>3 DEF CountInv
  <2>3. CASE Resume
    <3>1. stats' = stats /\ pc' # "sb_fallback"
      BY <2>3 DEF Resume, tase_inject, sb_inject, ArrivePc
    <3> QED
      BY <1>2, <3>1 DEF CountInv, AbortsAccountedFor
  <2>4. CASE ResumeFaults
    <3>1. pc' = "host" /\ stats' = CountAbort(stats, NoStatus)
      BY <1>2, <2>4, FaultEffect
    <3>2. CountedOnce(NoStatus.bits)
      BY DEF CountedOnce, NoStatus
    <3>3. AbortsAccountedFor'
      BY <1>2, <3>1, <3>2, InitialTypes, CountStep DEF CountInv, SbInv, SbType
    <3> QED
      BY <3>1, <3>3 DEF CountInv
  <2>5. CASE Reject \/ Leave
    <3>1. stats' = stats /\ pc' # "sb_fallback"
      BY <2>5 DEF Reject, Leave
    <3> QED
      BY <1>2, <3>1 DEF CountInv, AbortsAccountedFor
  <2>6. CASE UNCHANGED vars
    BY <1>2, <2>6 DEF vars, sbvars, CountInv, AbortsAccountedFor
  <2> QED
    BY <1>2, <2>1, <2>2, <2>3, <2>4, <2>5, <2>6 DEF Next, Terminated
<1>3. CountInv => AbortsAccountedFor
  BY DEF CountInv
<1> QED
  BY <1>1, <1>2, <1>3, DriverInvariance, PTL DEF Spec
=============================================================================
