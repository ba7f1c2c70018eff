------------------------------- MODULE Atomic -------------------------------
(***************************************************************************)
(* atomic.c: operations on objects of any size.  An object of a size and   *)
(* alignment the processor handles is accessed by one instruction; any     *)
(* other is copied byte by byte under a spin lock, taken from a pool by    *)
(* hashing the object's address.  A byte is a bit here.                    *)
(***************************************************************************)
EXTENDS Integers, FiniteSetsExt

CONSTANTS
  Threads, Objects,
  Size, Addr,               \* of every object, in bytes
  AlwaysLockFree,           \* the sizes of __atomic_always_lock_free(size, 0)
  SpinlockBits,             \* SPINLOCK_COUNT is 1 << SpinlockBits; 10 in the code
  HashShift,                \* the second shift of lock_for_pointer, 16 in the code
  Calls                     \* the calls the program makes

Byte == {0, 1}
Value(o) == [1 .. Size[o] -> Byte]
FetchOps == {"add", "sub", "and", "or", "xor"}              \* __atomic_fetch_op_n
FlagOps == {"flag_test_and_set", "flag_clear"}
Fns == {"load_c", "store_c", "exchange_c", "compare_exchange_c",
        "load_n", "store_n", "exchange_n", "compare_exchange_n"} \cup FetchOps \cup FlagOps
ASSUME ObjectsAssumption ==
  /\ Size \in [Objects -> Nat \ {0}] /\ Addr \in [Objects -> Nat]
  /\ SpinlockBits \in Nat /\ HashShift \in Nat
\* val is the second operand, the desired value or 1; expected is for the comparison
ASSUME CallsAssumption ==
  /\ Calls # {}
  /\ \A c \in Calls : c.fn \in Fns /\ c.obj \in Objects
                        /\ c.val \in Value(c.obj) /\ c.expected \in Value(c.obj)

VARIABLES
  mem,              \* the bytes of every object
  locks,            \* the pool of locks: 1 when taken
  pc,               \* where every thread is
  call,             \* the call every thread is in
  old,              \* lock()'s local variable
  k,                \* the next byte to copy or to compare
  buf,              \* *dest, *old, tmp or *expected
  ok                \* the result of a compare and exchange

vars == <<mem, locks, pc, call, old, k, buf, ok>>

-----------------------------------------------------------------------------
\* the number that the bytes are
Num(v) == MapThenSumSet(LAMBDA i : v[i] * 2^(i - 1), DOMAIN v)
Blank(o) == [i \in 1 .. Size[o] |-> 0]
One(o) == [Blank(o) EXCEPT ![1] = 1]
\* tmp op val
Rmw(op, tmp, val) ==
  CASE op = "add" -> [i \in DOMAIN tmp |-> ((Num(tmp) + Num(val)) \div 2^(i - 1)) % 2]
    [] op = "sub" -> [i \in DOMAIN tmp |-> ((Num(tmp) - Num(val)) \div 2^(i - 1)) % 2]
    [] op = "and" -> [i \in DOMAIN tmp |-> tmp[i] * val[i]]
    [] op = "or" -> [i \in DOMAIN tmp |-> IF tmp[i] + val[i] > 0 THEN 1 ELSE 0]
    [] op = "xor" -> [i \in DOMAIN tmp |-> (tmp[i] + val[i]) % 2]

(* The pool of locks, and lock_for_pointer: a lock is the set of bits of its *)
(* number, hash & SPINLOCK_MASK with hash ^= low before it.                  *)
Bit(n, i) == (n \div 2^i) % 2
Locks == SUBSET (0 .. SpinlockBits - 1)
lock_for_pointer(o) ==
  LET hash == Addr[o] \div 16
  IN  {i \in 0 .. SpinlockBits - 1 : Bit(hash \div 2^HashShift, i) # Bit(hash, i)}

(* IS_LOCK_FREE_n, __atomic_is_lock_free *)
IS_LOCK_FREE(n, ptr) == n \in AlwaysLockFree /\ ptr % n = 0
is_lock_free_c(o) == IS_LOCK_FREE(Size[o], Addr[o])
\* an atomic_flag is of a size and alignment the processor handles
ASSUME FlagsAssumption == \A c \in Calls : c.fn \in FlagOps => is_lock_free_c(c.obj)

\* an instruction on a value v: what it leaves in memory, in buf and in ok
Effect(c, v) ==
  CASE c.fn \in {"load_c", "load_n"} -> [new |-> v, val |-> v, ok |-> TRUE]
    [] c.fn \in {"store_c", "store_n"} ->
         [new |-> c.val, val |-> Blank(c.obj), ok |-> TRUE]
    [] c.fn \in {"exchange_c", "exchange_n"} -> [new |-> c.val, val |-> v, ok |-> TRUE]
    [] c.fn \in {"compare_exchange_c", "compare_exchange_n"} ->
         IF v = c.expected THEN [new |-> c.val, val |-> c.expected, ok |-> TRUE]
         ELSE [new |-> v, val |-> v, ok |-> FALSE]
    [] c.fn \in FetchOps -> [new |-> Rmw(c.fn, v, c.val), val |-> v, ok |-> TRUE]
    [] c.fn = "flag_test_and_set" -> [new |-> One(c.obj), val |-> v, ok |-> TRUE]
    [] c.fn = "flag_clear" -> [new |-> Blank(c.obj), val |-> Blank(c.obj), ok |-> TRUE]

-----------------------------------------------------------------------------
obj(t) == call[t].obj
lockOf(t) == lock_for_pointer(obj(t))
isCall(t, fns) == call[t].fn \in fns
\* the value that a thread writes under a lock
Written(t) == IF isCall(t, FetchOps) THEN Rmw(call[t].fn, buf[t], call[t].val) ELSE call[t].val
CompareFns == {"compare_exchange_c", "compare_exchange_n"}
\* what a function does first under the lock
FirstStep(fn) ==
  IF fn \in {"store_c", "store_n"} THEN "write" ELSE IF fn \in CompareFns THEN "compare" ELSE "read"

\* in place of a call while there is none
NoCall == CHOOSE c \in Calls : TRUE
GoTo(t, where) == pc' = [pc EXCEPT ![t] = where]

Init ==
  /\ mem = [o \in Objects |-> Blank(o)]
  /\ locks = [l \in Locks |-> 0]
  /\ pc = [t \in Threads |-> "idle"]
  /\ call = [t \in Threads |-> NoCall]
  /\ old = [t \in Threads |-> 0]
  /\ k = [t \in Threads |-> 1]
  /\ buf = [t \in Threads |-> Blank(NoCall.obj)]
  /\ ok = [t \in Threads |-> TRUE]

\* the switch on the size: an instruction or the lock
Call(t) ==
  /\ pc[t] = "idle"
  /\ \E c \in Calls :
       /\ call' = [call EXCEPT ![t] = c]
       /\ buf' = [buf EXCEPT ![t] = IF c.fn \in CompareFns THEN c.expected ELSE Blank(c.obj)]
       /\ GoTo(t, IF c.fn \in FlagOps \/ is_lock_free_c(c.obj) THEN "free" ELSE "cas")
  /\ old' = [old EXCEPT ![t] = 0]
  /\ k' = [k EXCEPT ![t] = 1]
  /\ ok' = [ok EXCEPT ![t] = TRUE]
  /\ UNCHANGED <<mem, locks>>

\* LOCK_FREE_ACTION, and the operations on flags: one instruction
LockFreeAction(t) ==
  LET e == Effect(call[t], mem[obj(t)])
  IN  /\ pc[t] = "free"
      /\ mem' = [mem EXCEPT ![obj(t)] = e.new]
      /\ buf' = [buf EXCEPT ![t] = e.val]
      /\ ok' = [ok EXCEPT ![t] = e.ok]
      /\ GoTo(t, "return")
      /\ UNCHANGED <<locks, call, old, k>>

\* the weak compare and exchange of lock(), which may fail for no reason
LockTaken(t) ==
  /\ pc[t] = "cas" /\ locks[lockOf(t)] = old[t]
  /\ locks' = [locks EXCEPT ![lockOf(t)] = 1]
  /\ GoTo(t, FirstStep(call[t].fn))
  /\ UNCHANGED <<mem, call, old, k, buf, ok>>
LockFails(t) ==
  /\ pc[t] = "cas"
  /\ old' = [old EXCEPT ![t] = locks[lockOf(t)]]
  /\ GoTo(t, "spin")
  /\ UNCHANGED <<mem, locks, call, k, buf, ok>>
\* Mutant: the loop does not set old back to 0.
SpinKeepsOld(t) ==
  /\ pc[t] = "spin" /\ GoTo(t, "cas")
  /\ UNCHANGED <<mem, locks, call, old, k, buf, ok>>
Spin(t) ==
  /\ pc[t] = "spin"
  /\ old' = [old EXCEPT ![t] = 0]
  /\ GoTo(t, "cas")
  /\ UNCHANGED <<mem, locks, call, k, buf, ok>>
lock(t) == LockTaken(t) \/ LockFails(t) \/ Spin(t)
\* Mutant: the lock keeps its value.
UnlockNothing(t) ==
  pc[t] = "unlock" /\ GoTo(t, "return") /\ UNCHANGED <<mem, locks, call, old, k, buf, ok>>
unlock(t) ==
  /\ pc[t] = "unlock"
  /\ locks' = [locks EXCEPT ![lockOf(t)] = 0]
  /\ GoTo(t, "return")
  /\ UNCHANGED <<mem, call, old, k, buf, ok>>

\* the loop over the bytes goes on, or ends and the thread goes to next
Step(t, next) ==
  /\ k' = [k EXCEPT ![t] = IF k[t] < Size[obj(t)] THEN k[t] + 1 ELSE 1]
  /\ GoTo(t, IF k[t] < Size[obj(t)] THEN pc[t] ELSE next)
\* memcpy(buf, ptr, size) and memcpy(ptr, val, size), a byte of them
ReadByte(t, next) ==
  /\ pc[t] = "read"
  /\ buf' = [buf EXCEPT ![t][k[t]] = mem[obj(t)][k[t]]]
  /\ Step(t, next)
  /\ UNCHANGED <<mem, locks, call, old, ok>>
WriteByte(t) ==
  /\ pc[t] = "write"
  /\ mem' = [mem EXCEPT ![obj(t)][k[t]] = Written(t)[k[t]]]
  /\ Step(t, "unlock")
  /\ UNCHANGED <<locks, call, old, buf, ok>>
\* Mutant: *expected is left as it was.
CompareKeepsExpected(t) ==
  /\ pc[t] = "compare"
  /\ \/ /\ mem[obj(t)][k[t]] = buf[t][k[t]]
        /\ Step(t, "write") /\ UNCHANGED ok
     \/ /\ mem[obj(t)][k[t]] # buf[t][k[t]]
        /\ k' = [k EXCEPT ![t] = 1]
        /\ ok' = [ok EXCEPT ![t] = FALSE]
        /\ GoTo(t, "unlock")
  /\ UNCHANGED <<mem, locks, call, old, buf>>
\* memcmp(ptr, expected, size), a byte of it
CompareByte(t) ==
  /\ pc[t] = "compare"
  /\ \/ /\ mem[obj(t)][k[t]] = buf[t][k[t]]
        /\ Step(t, "write") /\ UNCHANGED ok
     \/ /\ mem[obj(t)][k[t]] # buf[t][k[t]]
        /\ k' = [k EXCEPT ![t] = 1]
        /\ ok' = [ok EXCEPT ![t] = FALSE]
        /\ GoTo(t, "read")
  /\ UNCHANGED <<mem, locks, call, old, buf>>

(* The functions, between lock() and unlock() *)
load_c(t) == isCall(t, {"load_c"}) /\ ReadByte(t, "unlock")
store_c(t) == isCall(t, {"store_c"}) /\ WriteByte(t)
compare_exchange_c(t) ==
  isCall(t, {"compare_exchange_c"}) /\ (CompareByte(t) \/ WriteByte(t) \/ ReadByte(t, "unlock"))
exchange_c(t) == isCall(t, {"exchange_c"}) /\ (ReadByte(t, "write") \/ WriteByte(t))
load_n(t) == isCall(t, {"load_n"}) /\ ReadByte(t, "unlock")
store_n(t) == isCall(t, {"store_n"}) /\ WriteByte(t)
exchange_n(t) == isCall(t, {"exchange_n"}) /\ (ReadByte(t, "write") \/ WriteByte(t))
compare_exchange_n(t) ==
  isCall(t, {"compare_exchange_n"}) /\ (CompareByte(t) \/ WriteByte(t) \/ ReadByte(t, "unlock"))
fetch_n(t) == isCall(t, FetchOps) /\ (ReadByte(t, "write") \/ WriteByte(t))

Return(t) ==
  /\ pc[t] = "return" /\ GoTo(t, "idle")
  /\ call' = [call EXCEPT ![t] = NoCall]
  /\ buf' = [buf EXCEPT ![t] = Blank(NoCall.obj)]
  /\ ok' = [ok EXCEPT ![t] = TRUE]
  /\ UNCHANGED <<mem, locks, old, k>>

Locked(t) ==
  \/ load_c(t) \/ store_c(t) \/ compare_exchange_c(t) \/ exchange_c(t)
  \/ load_n(t) \/ store_n(t) \/ exchange_n(t) \/ compare_exchange_n(t) \/ fetch_n(t)
  \/ unlock(t)
Next == \E t \in Threads : Call(t) \/ LockFreeAction(t) \/ lock(t) \/ Locked(t) \/ Return(t)
\* the scheduler runs a thread that is not waiting for a lock
Fairness == \A t \in Threads : WF_vars(Locked(t))
Spec == Init /\ [][Next]_vars /\ Fairness

-----------------------------------------------------------------------------
Holding == {"compare", "read", "write", "unlock"}

(***************************************************************************)
(* Two threads that are past lock() for the same lock are one: whatever    *)
(* the weak compare and exchange does, and whichever objects hash to the   *)
(* lock, the copies of atomic.c do not overlap.                            *)
(***************************************************************************)
MutualExclusion ==
  \A t, u \in Threads :
    pc[t] \in Holding /\ pc[u] \in Holding /\ lockOf(t) = lockOf(u) => t = u

(***************************************************************************)
(* The library implements an atomic memory: no thread sees a value that is *)
(* partly another one, and no update is lost, whichever functions and      *)
(* whichever of the two ways to access an object the threads use.  An      *)
(* operation takes effect when its writes begin, or at the end of its      *)
(* reads if there are none.                                                *)
(***************************************************************************)
AbstractMem ==
  [o \in Objects |-> IF \E t \in Threads : pc[t] = "write" /\ obj(t) = o
                     THEN Written(CHOOSE t \in Threads : pc[t] = "write" /\ obj(t) = o)
                     ELSE mem[o]]
StatusOf(t) ==
  IF pc[t] = "idle" THEN [phase |-> "idle"]
  ELSE IF pc[t] \in {"write", "unlock", "return"}
  THEN [phase |-> "done", call |-> call[t], ok |-> ok[t], val |-> buf[t]]
  ELSE [phase |-> "called", call |-> call[t]]
AbstractStatus == [t \in Threads |-> StatusOf(t)]
AM == INSTANCE AtomicMemory WITH mem <- AbstractMem, status <- AbstractStatus
IsAtomic == [][AM!Next]_<<AbstractMem, AbstractStatus>>

(***************************************************************************)
(* A lock that is taken is released: every path through a function, a      *)
(* failed compare and exchange too, unlocks.  A thread may still never     *)
(* take the lock, as the comment on lock() says.                           *)
(***************************************************************************)
LocksReleased == \A l \in Locks : locks[l] = 1 ~> locks[l] = 0
=============================================================================
