------------------------------ MODULE Harness ------------------------------
(***************************************************************************)
(* The stand-alone driver test/tase/harness.c: run_target enters the       *)
(* target and, at each ejection that it does not reject, treats the top of *)
(* the target's stack as the return address of a modeled function and      *)
(* injects there.                                                          *)
(***************************************************************************)
EXTENDS Springboard

VARIABLES lost   \* target_ctx.rip is a popped word that is no code address

vars == <<sbvars, lost>>

Init == SpringboardInit /\ lost = FALSE

(* TASE_ENABLE is 0 unless the build defines it. *)
TASE_ENABLE == FALSE

(* The C expression "s >> 24 != 1 && s & 0xff != 1": != binds tighter than *)
(* &, so the second operand tests bit 0, TSX_XABORT.                       *)
BadReturn(s) == s.imm # 1 /\ TSX_XABORT \in s.bits

Enter == enter_tase(TASE_ENABLE) /\ UNCHANGED lost

Native == SpringboardStep /\ UNCHANGED lost

(* The loop condition: rip lies outside exit_tase. *)
Looping == pc = "host" /\ (lost \/ ctx.rip.i # exit_tase)

(* One round of the loop body whose "rip = *rsp" finds the address of some *)
(* cartridge.  The ejections that come here are of any point of a          *)
(* function, where the top of the stack is whatever the target keeps       *)
(* there: any return address or function pointer, behind or ahead.         *)
Resume ==
    /\ Looping
    /\ ~BadReturn(ctx.abort_status)
    /\ \E j \in 1..exit_tase :
         tase_inject([ctx EXCEPT !.rip = Header(j)], mem, TASE_ENABLE)
    /\ lost' = FALSE
    /\ UNCHANGED stats

(* A round that pops any other word.  The jump there faults inside the     *)
(* transaction sb_inject has opened, which aborts with no status bit and   *)
(* ejects: registers and memory are those of the xbegin, rip is the word.  *)
ResumeFaults ==
    /\ Looping
    /\ ~BadReturn(ctx.abort_status)
    /\ ctx' = [ctx EXCEPT !.last_abort_status = ctx.abort_status,
                          !.abort_status = NoStatus,
                          !.regs = Stored(sbm_init_tran(@))]
    /\ mem' = [mem EXCEPT !.tran_ctr = 0, !.tase_springboard = "sb_disabled"]
    /\ stats' = CountAbort(stats, NoStatus)
    /\ lost' = TRUE
    /\ UNCHANGED <<taint, modeled, pc, cpu, inTx, chk, eax>>

(* The check fails: print "Bad return" and exit(0). *)
Reject ==
    /\ Looping
    /\ BadReturn(ctx.abort_status)
    /\ pc' = "bad_return"
    /\ UNCHANGED <<taint, modeled, cpu, mem, inTx, chk, eax, ctx, stats, lost>>

(* rip lies within exit_tase: leave the loop. *)
Leave ==
    /\ pc = "host"
    /\ ~Looping
    /\ pc' = "exited"
    /\ UNCHANGED <<taint, modeled, cpu, mem, inTx, chk, eax, ctx, stats, lost>>

Terminated == pc \in {"bad_return", "exited"} /\ UNCHANGED vars

Next == Enter \/ Native \/ Resume \/ ResumeFaults \/ Reject \/ Leave \/ Terminated

Spec == Init /\ [][Next]_vars

-----------------------------------------------------------------------------
(* Wherever the popped word leads, a round commits exactly the cartridges  *)
(* between the place it was injected at and the place it is ejected from,  *)
(* each of them once, and the driver finds that place in rip (springboard  *)
(* headers commit a batch, tase_eject sets rip = r15).  Outside a round    *)
(* nothing is committed.                                                   *)
RoundInOrder ==
    [][IF pc \in {"start", "host"}
       THEN CommittedWork' = CommittedWork
       ELSE /\ CommittedAt' >= CommittedAt
            /\ \A i \in Cartridges :
                 CommittedWork'[i] = IF i \in CommittedAt..CommittedAt'-1
                                     THEN Executed(CommittedWork, i, "native")[i]
                                     ELSE CommittedWork[i]]_vars
=============================================================================
