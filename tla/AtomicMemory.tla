---------------------------- MODULE AtomicMemory ----------------------------
(***************************************************************************)
(* What the atomic library of compiler-rt_soft_float promises: every       *)
(* operation on an object happens at one moment between its call and its   *)
(* return.  A value is a function from the places of its bytes to bytes.   *)
(***************************************************************************)
EXTENDS Integers

CONSTANTS Threads, Objects, Calls, Effect(_, _)

VARIABLES
  mem,              \* the value of every object
  status            \* of every thread: what it calls and what has come of it

Idle == [phase |-> "idle"]
Called(c) == [phase |-> "called", call |-> c]
Done(c, v) == [phase |-> "done", call |-> c, ok |-> Effect(c, v).ok, val |-> Effect(c, v).val]

Call(t) ==
  /\ status[t] = Idle
  /\ \E c \in Calls : status' = [status EXCEPT ![t] = Called(c)]
  /\ UNCHANGED mem
\* the operation takes effect
Perform(t) ==
  \E c \in Calls :
    /\ status[t] = Called(c)
    /\ mem' = [mem EXCEPT ![c.obj] = Effect(c, mem[c.obj]).new]
    /\ status' = [status EXCEPT ![t] = Done(c, mem[c.obj])]
Return(t) ==
  /\ status[t].phase = "done"
  /\ status' = [status EXCEPT ![t] = Idle]
  /\ UNCHANGED mem
Next == \E t \in Threads : Call(t) \/ Perform(t) \/ Return(t)
=============================================================================
