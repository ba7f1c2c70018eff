----------------------------- MODULE TargetRun -----------------------------
(***************************************************************************)
(* What TASE promises of a target program, whatever mixture of native and  *)
(* interpreted execution it uses: the cartridges 1..N take effect exactly  *)
(* once, in order; native execution takes effect in batches of at most     *)
(* BatchMax cartridges, none of which touches symbolic data or belongs to  *)
(* a modeled function; all the rest is interpreted; the run reaches the    *)
(* exit.                                                                   *)
(***************************************************************************)
EXTENDS Integers

CONSTANTS N, BatchMax

VARIABLES
    taint,    \* cartridges that touch symbolic data
    modeled,  \* cartridges of modeled functions
    work,     \* how each cartridge has taken effect
    next,     \* the cartridge that takes effect next
    exited    \* the program has ended

vars == <<taint, modeled, work, next, exited>>

Init ==
    /\ taint \in SUBSET (1..N)
    /\ modeled \in SUBSET (1..N+1)
    /\ work = [i \in 1..N |-> "none"]
    /\ next = 1
    /\ exited = FALSE

(* A committed hardware transaction: cartridges next..last. *)
NativeBatch ==
    \E last \in next..N :
        /\ ~exited
        /\ last - next < BatchMax
        /\ \A i \in next..last : i \notin taint /\ i \notin modeled
        /\ work' = [i \in 1..N |-> IF i \in next..last THEN "native" ELSE work[i]]
        /\ next' = last + 1
        /\ UNCHANGED <<taint, modeled, exited>>

(* One cartridge, or one model of a modeled function, interpreted. *)
Interpret ==
    /\ ~exited
    /\ next \in 1..N
    /\ work' = [work EXCEPT ![next] = "interp"]
    /\ next' = next + 1
    /\ UNCHANGED <<taint, modeled, exited>>

Exit ==
    /\ ~exited
    /\ next = N + 1
    /\ exited' = TRUE
    /\ UNCHANGED <<taint, modeled, work, next>>

Next == NativeBatch \/ Interpret \/ Exit

Safety == Init /\ [][Next]_vars

Spec == Safety /\ WF_vars(Next)
=============================================================================
