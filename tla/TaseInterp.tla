----------------------------- MODULE TaseInterp -----------------------------
(***************************************************************************)
(* The springboard driven by the interpreter.  The interpreter is KLEE, a  *)
(* git submodule that is not part of the repository: it is modelled from   *)
(* the interface tase_interp.h gives it and from the options the           *)
(* repository starts it with (-retryMax, -tranBBMax).  It calls            *)
(* enter_tase, and at each ejection it interprets the cartridge at         *)
(* target_ctx.rip (for a modeled function, runs the model instead) or      *)
(* re-injects there, possibly with a smaller tran_max.                     *)
(***************************************************************************)
EXTENDS Springboard

CONSTANTS RetryMax   \* times an injection is repeated without progress

ASSUME RetryAssumption == RetryMax \in Nat

VARIABLES tried      \* the last cartridge injected at and how often in a row

vars == <<sbvars, tried>>

Init == SpringboardInit /\ tried = [i |-> 1, n |-> 0]

-----------------------------------------------------------------------------

Enter == enter_tase(TRUE) /\ tried' = [i |-> 1, n |-> 1]

Native == SpringboardStep /\ UNCHANGED tried

(* Interpret the cartridge at rip, or run its model; its jump then leaves  *)
(* rip at the header or, skipping the header, at the body of the next one. *)
InterpRun ==
    LET i == ctx.rip.i
    IN  /\ pc = "host"
        /\ i \in Cartridges
        /\ \E pos \in {Header(i + 1), Body(i + 1)} :
             ctx' = [ctx EXCEPT !.rip = pos, !.regs = [@ EXCEPT !.rax = i, !.flags = i]]
        /\ mem' = [mem EXCEPT !.work = Executed(@, i, "interp")]
        /\ tried' = [i |-> i + 1, n |-> 0]
        /\ UNCHANGED <<taint, modeled, pc, cpu, inTx, chk, eax, stats>>

(* Mutant: failed injections are not counted. *)
InterpInject_uncounted ==
    /\ pc = "host"
    /\ ctx.rip.at = "body" => ctx.rip.i \notin modeled
    /\ \E k \in 1..TranMaxReset :
         tase_inject(ctx, [mem EXCEPT !.tran_max = k], TRUE)
    /\ UNCHANGED <<stats, tried>>

(* Go native at rip.  A modeled function is only entered by its header. *)
InterpInject ==
    LET i == ctx.rip.i
        n == IF tried.i = i THEN tried.n ELSE 0
    IN  /\ pc = "host"
        /\ ctx.rip.at = "body" => i \notin modeled
        /\ n <= RetryMax
        /\ \E k \in 1..TranMaxReset :
             tase_inject(ctx, [mem EXCEPT !.tran_max = k], TRUE)
        /\ tried' = [i |-> i, n |-> n + 1]
        /\ UNCHANGED stats

(* The model of exit_tase ends the run. *)
InterpExit ==
    /\ pc = "host"
    /\ ctx.rip.i = exit_tase
    /\ pc' = "exited"
    /\ UNCHANGED <<taint, modeled, cpu, mem, inTx, chk, eax, ctx, stats, tried>>

Terminated == pc = "exited" /\ UNCHANGED vars

Next == Enter \/ Native \/ InterpRun \/ InterpInject \/ InterpExit \/ Terminated

(* The processor and the interpreter are sequential programs that keep     *)
(* running: some step is taken whenever one is possible.                   *)
Spec == Init /\ [][Next]_vars /\ WF_vars(Next)

-----------------------------------------------------------------------------
(* Type correctness of every variable. *)
TypeOK ==
    /\ taint \in SUBSET Cartridges
    /\ modeled \in SUBSET (1..N+1)
    /\ pc \in {"start", "body", "sb_reopen", "sb_modeled", "sb_fallback",
               "host", "exited"}
    /\ cpu \in Regs
    /\ mem \in Mem
    /\ inTx \in BOOLEAN
    /\ chk \in [cpu : Regs, mem : Mem]
    /\ eax \in Statuses
    /\ ctx \in Context
    /\ stats \in Counters
    /\ tried \in [i : 1..N+1, n : 0..RetryMax+1]

(* Every cartridge before the committed position has taken effect exactly  *)
(* once and none after it has, through any sequence of batches, aborts,    *)
(* retries and interpretation; and inside a transaction exactly the        *)
(* cartridges before the running one have (springboard.S: rollback to the  *)
(* xbegin state, rip = r15 in tase_eject).                                 *)
ExactlyOnce ==
    /\ \A i \in Cartridges :
         /\ CommittedWork[i] # "twice"
         /\ CommittedWork[i] = "none" <=> i >= CommittedAt
    /\ inTx => \A i \in Cartridges :
                 /\ mem.work[i] # "twice"
                 /\ mem.work[i] = "none" <=> i >= cpu.r15.i

(* A body starts with the rax its predecessor on the path left, wherever   *)
(* that ran (contract b) of tase_interp.h), and with its flags as far as   *)
(* lahf and sahf carry them: sbm_init_tran saves rax in r14 around xbegin, *)
(* sbm_compare_poison saves both around the check.                         *)
BodyStartsIntact ==
    pc = "body" => cpu.rax = cpu.r15.i - 1 /\ cpu.flags = cpu.r15.i - 1

(* The host has the context of the last ejection and has not moved on.     *)
AtEjection == pc = "host" /\ tried.n > 0

(* target_ctx holds the rax and the flags of the committed position, as    *)
(* tase_interp.h promises the interpreter.                                 *)
ContextIntact ==
    ctx.regs.rax = ctx.rip.i - 1 /\ ctx.regs.flags = ctx.rip.i - 1

(* Whenever a transaction aborted, wherever in a batch and for whatever    *)
(* reason, the host finds in target_ctx the rax and the flags of the       *)
(* position it is to go on from, and it still finds them there after it    *)
(* interpreted: r14 carries rax over xbegin and eax's abort status.        *)
AbortedStateIntact ==
    pc = "host" /\ ~(AtEjection /\ ctx.abort_status = ModeledStatus) => ContextIntact


(* The XABORT immediate of a poison abort is a safe tran_max for a retry   *)
(* at rip: the cartridges a batch of that many checks commits are clean,   *)
(* and, unless the immediate is the fall-through, the one after them is    *)
(* the poisoned one.  An injection at a header spends one count on the     *)
(* entry header itself.                                                    *)
AbortCodeSound ==
    pc = "sb_fallback" /\ TSX_XABORT \in eax.bits /\ eax # ModeledStatus =>
        LET blocks == eax.imm - (IF cpu.r15.at = "head" THEN 1 ELSE 0)
        IN  /\ \A i \in cpu.r15.i..cpu.r15.i+blocks-1 : i \notin taint \cup modeled
            /\ eax.imm <= MaxAbortCode => cpu.r15.i + blocks \in taint

(* What has taken effect is never undone or redone: an abort rolls back    *)
(* nothing that an earlier xend or the interpreter made durable.           *)
CommittedIsFinal ==
    [][\A i \in Cartridges : CommittedWork[i] # "none" =>
           CommittedWork'[i] = CommittedWork[i]]_vars

(* The springboard and the interpreter together implement TargetRun: what  *)
(* is visible when a transaction commits or the interpreter steps is a     *)
(* sequential run of the program, native only where it may be.             *)
Target == INSTANCE TargetRun WITH
    BatchMax <- TranMaxReset,
    work     <- CommittedWork,
    next     <- CommittedAt,
    exited   <- pc = "exited"

ImplementsTargetRun == Target!Spec

(* The run reaches exit_tase, however many transactions abort.             *)
RunEnds == <>(pc = "exited")
=============================================================================
