---------------------------- MODULE AtomicProofs ----------------------------
(***************************************************************************)
(* Proofs about Atomic: the spin locks exclude, and the byte-by-byte       *)
(* copies under them implement AtomicMemory, for any threads, objects,     *)
(* addresses, pool of locks and calls.                                     *)
(***************************************************************************)
EXTENDS Atomic, TLAPS

Loads == {"load_c", "load_n"}
Stores == {"store_c", "store_n"}
Waiting == {"cas", "spin"}
Copying == {"compare", "read", "write"}

\* a value is a sequence of as many bytes as the object has
Shape(o, v) == v = [i \in 1 .. Size[o] |-> v[i]]
Types ==
  /\ pc \in [Threads -> Holding \cup Waiting \cup {"idle", "free", "return"}]
  /\ call \in [Threads -> Calls]
  /\ locks \in [Locks -> {0, 1}]
  /\ old \in [Threads -> {0, 1}]
  /\ k \in [Threads -> Nat]
  /\ ok = [t \in Threads |-> ok[t]]
  /\ mem = [o \in Objects |-> mem[o]]
  /\ buf = [t \in Threads |-> buf[t]]
Shapes ==
  /\ \A o \in Objects : Shape(o, mem[o])
  /\ \A t \in Threads : Shape(obj(t), buf[t])
\* the place in the copy
Places ==
  \A t \in Threads : k[t] \in 1 .. Size[obj(t)] /\ (pc[t] \notin Copying => k[t] = 1)
\* whoever is past lock() has made the lock 1, and only a lock that is 0 is taken
LockHeld ==
  \A t \in Threads : /\ pc[t] = "cas" => old[t] = 0
                     /\ pc[t] \in Holding => locks[lockOf(t)] = 1
\* an object is accessed by instructions or under its lock, never by both
OneWayOf(t) ==
  /\ pc[t] = "free" => is_lock_free_c(obj(t))
  /\ pc[t] \in Holding \cup Waiting => ~is_lock_free_c(obj(t)) /\ ~isCall(t, FlagOps)
OneWay == \A t \in Threads : OneWayOf(t)
LockInv == Types /\ Places /\ LockHeld /\ MutualExclusion

FirstBuf(c) == IF c.fn \in CompareFns THEN c.expected ELSE Blank(c.obj)
\* the bytes before the next one are the same in memory and in the copy
Matches(t, v) == \A i \in 1 .. k[t] - 1 : mem[obj(t)][i] = v[i]
CopyOf(t) ==
  /\ pc[t] \in Waiting \cup {"free", "compare"} => ok[t] = TRUE /\ buf[t] = FirstBuf(call[t])
  /\ pc[t] = "compare" => isCall(t, CompareFns) /\ Matches(t, buf[t])
  /\ pc[t] = "read" =>
       /\ ~isCall(t, Stores) /\ Matches(t, buf[t])
       /\ isCall(t, CompareFns) => ok[t] = FALSE /\ mem[obj(t)] # call[t].expected
       /\ ~isCall(t, CompareFns) => ok[t] = TRUE
  /\ pc[t] = "write" => ~isCall(t, Loads) /\ Matches(t, Written(t))
CopyInv == \A t \in Threads : CopyOf(t)
Inv == LockInv /\ Shapes /\ OneWay /\ CopyInv

-----------------------------------------------------------------------------
(* What a step is, whichever function makes it *)

Exchanges == {"exchange_c", "exchange_n"}
ReadsLast(t) == isCall(t, Loads \cup CompareFns) /\ ReadByte(t, "unlock")
ReadsFirst(t) == isCall(t, Exchanges \cup FetchOps) /\ ReadByte(t, "write")
Compares(t) == isCall(t, CompareFns) /\ CompareByte(t)
Writes(t) == ~isCall(t, Loads) /\ WriteByte(t)
StepOf(t) ==
  \/ Call(t) \/ LockFreeAction(t) \/ LockTaken(t) \/ LockFails(t) \/ Spin(t)
  \/ ReadsLast(t) \/ ReadsFirst(t) \/ Compares(t) \/ Writes(t) \/ unlock(t) \/ Return(t)

(* Every step of the library is a step of one thread: a call, an           *)
(* instruction, a step of lock(), one of the four copies, unlock() or the  *)
(* return.                                                                 *)
LEMMA StepKinds ==
  ASSUME Next
  PROVE  \E t \in Threads : StepOf(t)
<1> USE DEF StepOf
<1>1. PICK t \in Threads : Call(t) \/ LockFreeAction(t) \/ lock(t) \/ Locked(t) \/ Return(t)
  BY DEF Next
<1>2. CASE lock(t)
  BY <1>2 DEF lock
<1>3. CASE Locked(t)
  <2>1. CASE unlock(t)
    BY <2>1
  <2>2. CASE load_c(t) \/ load_n(t)
    BY <2>2 DEF load_c, load_n, isCall, ReadsLast, Loads
  <2>3. CASE store_c(t) \/ store_n(t)
    BY <2>3 DEF store_c, store_n, isCall, Writes, Loads
  <2>4. CASE exchange_c(t) \/ exchange_n(t)
    BY <2>4 DEF exchange_c, exchange_n, isCall, Writes, ReadsFirst, Loads, Exchanges
  <2>5. CASE compare_exchange_c(t) \/ compare_exchange_n(t)
    BY <2>5 DEF compare_exchange_c, compare_exchange_n, isCall, Writes, ReadsLast, Compares, Loads,
                CompareFns
  <2>6. CASE fetch_n(t)
    BY <2>6 DEF fetch_n, isCall, Writes, ReadsFirst, Loads, FetchOps
  <2>7. QED
    BY <1>3, <2>1, <2>2, <2>3, <2>4, <2>5, <2>6 DEF Locked
<1>4. QED
  BY <1>1, <1>2, <1>3

-----------------------------------------------------------------------------
(* The locks *)

(* The object of a call, its size and its lock are what the assumptions    *)
(* say; lock_for_pointer masks the hash, so that the lock is in the pool.  *)
LEMMA CallFacts ==
  ASSUME NEW c \in Calls
  PROVE  /\ c.obj \in Objects /\ c.fn \in Fns
         /\ Size[c.obj] \in Nat \ {0}
         /\ lock_for_pointer(c.obj) \in Locks
<1>1. c.obj \in Objects /\ c.fn \in Fns
  BY CallsAssumption
<1>2. Size[c.obj] \in Nat \ {0}
  BY <1>1, ObjectsAssumption
<1>3. lock_for_pointer(c.obj) \in Locks
  BY DEF lock_for_pointer, Locks
<1>4. QED
  BY <1>1, <1>2, <1>3
LEMMA NoCallFact == NoCall \in Calls
  BY CallsAssumption DEF NoCall

(* Initially nobody is in the library and every lock is free.              *)
LEMMA LockInit == Init => LockInv
<1>1. SUFFICES ASSUME Init PROVE LockInv
  OBVIOUS
<1>2. Types
  BY <1>1, NoCallFact DEF Init, Types, Holding, Waiting
<1>3. Places
  BY <1>1, NoCallFact, CallFacts DEF Init, Places, obj, Copying
<1>4. LockHeld /\ MutualExclusion
  BY <1>1 DEF Init, LockHeld, MutualExclusion, Holding
<1>5. QED
  BY <1>2, <1>3, <1>4 DEF LockInv

(* A step of any thread keeps the locks exclusive: a lock is taken only    *)
(* when it is 0, which old tells because lock() sets it back after every   *)
(* failure, and only its holder makes it 0.                                *)
LEMMA LockStep ==
  ASSUME LockInv, [Next]_vars
  PROVE  LockInv'
<1> USE DEF LockInv
<1>1. CASE UNCHANGED vars
  BY <1>1 DEF vars, Types, Places, LockHeld, MutualExclusion, obj, lockOf
<1>2. CASE Next
  <2>1. PICK t \in Threads : StepOf(t)
    BY <1>2, StepKinds
  <2>2. \A u \in Threads : call[u] \in Calls /\ obj(u) \in Objects /\ Size[obj(u)] \in Nat \ {0}
                             /\ lockOf(u) \in Locks
    BY CallFacts DEF Types, obj, lockOf
  <2>3. CASE Call(t)
    <3>1. Types'
      <4>1. PICK c \in Calls :
              /\ call' = [call EXCEPT ![t] = c]
              /\ buf' = [buf EXCEPT ![t] = FirstBuf(c)]
              /\ GoTo(t, IF c.fn \in FlagOps \/ is_lock_free_c(c.obj) THEN "free" ELSE "cas")
        BY <2>3 DEF Call, FirstBuf
      <4>2. pc' \in [Threads -> Holding \cup Waiting \cup {"idle", "free", "return"}]
        BY <4>1 DEF GoTo, Types, Waiting
      <4>3. call' \in [Threads -> Calls] /\ buf' = [u \in Threads |-> buf'[u]]
        BY <4>1 DEF Types
      <4>4. QED
        BY <2>3, <4>2, <4>3 DEF Call, Types
    <3>2. Places' /\ LockHeld' /\ MutualExclusion'
      BY <2>3, <2>2, CallFacts DEF Call, GoTo, Types, Places, LockHeld, MutualExclusion, obj, lockOf,
                                  Copying, Holding
    <3>3. QED
      BY <3>1, <3>2
  <2>4. CASE LockFreeAction(t)
    <3>1. Types'
      BY <2>4 DEF LockFreeAction, GoTo, Types, Holding, Waiting
    <3>2. Places' /\ LockHeld' /\ MutualExclusion'
      BY <2>4, <2>2 DEF LockFreeAction, GoTo, Types, Places, LockHeld, MutualExclusion, obj, lockOf,
                        Copying, Holding
    <3>3. QED
      BY <3>1, <3>2
  <2>5. CASE LockTaken(t)
    <3>1. Types'
      BY <2>5 DEF LockTaken, GoTo, Types, Holding, Waiting, FirstStep
    <3>2. Places'
      BY <2>5, <2>2 DEF LockTaken, GoTo, Types, Places, obj, Copying
    <3>3. locks[lockOf(t)] = 0
      BY <2>5 DEF LockTaken, LockHeld
    <3>4. QED
      BY <2>5, <2>2, <3>1, <3>2, <3>3 DEF LockTaken, GoTo, Types, LockHeld, MutualExclusion, obj,
                                      lockOf, Holding
  <2>6. CASE LockFails(t)
    BY <2>6, <2>2 DEF LockFails, GoTo, Types, Places, LockHeld, MutualExclusion, obj, lockOf, Copying,
                      Holding, Waiting
  <2>7. CASE Spin(t)
    BY <2>7, <2>2 DEF Spin, GoTo, Types, Places, LockHeld, MutualExclusion, obj, lockOf, Copying,
                      Holding, Waiting
  <2>8. CASE ReadsLast(t) \/ ReadsFirst(t)
    BY <2>8, <2>2 DEF ReadsLast, ReadsFirst, ReadByte, Step, GoTo, Types, Places, LockHeld,
                      MutualExclusion, obj, lockOf, Copying, Holding, Waiting
  <2>9. CASE Compares(t)
    BY <2>9, <2>2 DEF Compares, CompareByte, Step, GoTo, Types, Places, LockHeld, MutualExclusion,
                      obj, lockOf, Copying, Holding, Waiting
  <2>10. CASE Writes(t)
    <3>1. Types'
      <4>1. mem' = [o \in Objects |-> mem'[o]]
        BY <2>10 DEF Writes, WriteByte, Types
      <4>2. pc' \in [Threads -> Holding \cup Waiting \cup {"idle", "free", "return"}]
        BY <2>10 DEF Writes, WriteByte, Step, GoTo, Types, Holding
      <4>3. k' \in [Threads -> Nat]
        BY <2>10, <2>2 DEF Writes, WriteByte, Step, Types
      <4>4. QED
        BY <2>10, <4>1, <4>2, <4>3 DEF Writes, WriteByte, Types
    <3>2. Places' /\ LockHeld' /\ MutualExclusion'
      BY <2>10, <2>2 DEF Writes, WriteByte, Step, GoTo, Types, Places, LockHeld, MutualExclusion, obj,
                         lockOf, Copying, Holding
    <3>3. QED
      BY <3>1, <3>2
  <2>11. CASE unlock(t)
    BY <2>11, <2>2 DEF unlock, GoTo, Types, Places, LockHeld, MutualExclusion, obj, lockOf, Copying,
                       Holding, Waiting
  <2>12. CASE Return(t)
    <3>1. Types'
      BY <2>12, NoCallFact DEF Return, GoTo, Types, Holding, Waiting
    <3>2. Places'
      BY <2>12, <2>2, NoCallFact, CallFacts DEF Return, GoTo, Types, Places, obj, Copying
    <3>3. LockHeld' /\ MutualExclusion'
      BY <2>12, <2>2 DEF Return, GoTo, Types, LockHeld, MutualExclusion, obj, lockOf, Holding
    <3>4. QED
      BY <3>1, <3>2, <3>3
  <2>13. QED
    BY <2>1, <2>3, <2>4, <2>5, <2>6, <2>7, <2>8, <2>9, <2>10, <2>11, <2>12 DEF StepOf
<1>3. QED
  BY <1>1, <1>2

(* No two threads are past lock() for the same lock, however many threads, *)
(* objects and locks there are.                                            *)
THEOREM MutualExclusionTheorem == Spec => []MutualExclusion
<1>1. Init => LockInv
  BY LockInit
<1>2. LockInv /\ [Next]_vars => LockInv'
  BY LockStep
<1>3. LockInv => MutualExclusion
  BY DEF LockInv
<1>4. QED
  BY <1>1, <1>2, <1>3, PTL DEF Spec

-----------------------------------------------------------------------------
(* The copies *)

(* What the calls and the operations make is of the shape of the object.   *)
LEMMA CallShapes ==
  ASSUME NEW c \in Calls
  PROVE  Shape(c.obj, c.val) /\ Shape(c.obj, c.expected) /\ Shape(c.obj, Blank(c.obj))
           /\ Shape(c.obj, One(c.obj)) /\ Shape(c.obj, FirstBuf(c))
<1>1. c.val \in [1 .. Size[c.obj] -> Byte] /\ c.expected \in [1 .. Size[c.obj] -> Byte]
  BY CallsAssumption DEF Value
<1>2. Shape(c.obj, c.val) /\ Shape(c.obj, c.expected)
  BY <1>1 DEF Shape
<1>3. Shape(c.obj, Blank(c.obj)) /\ Shape(c.obj, One(c.obj))
  BY DEF Shape, Blank, One
<1>4. QED
  BY <1>2, <1>3 DEF FirstBuf
LEMMA RmwShape ==
  ASSUME NEW o, NEW op \in FetchOps, NEW tmp, NEW val, Shape(o, tmp)
  PROVE  Shape(o, Rmw(op, tmp, val))
<1>1. DOMAIN tmp = 1 .. Size[o]
  BY DEF Shape
<1>2. CASE op = "add"
  BY <1>1, <1>2 DEF Rmw, Shape
<1>3. CASE op = "sub"
  BY <1>1, <1>3 DEF Rmw, Shape
<1>4. CASE op = "and"
  BY <1>1, <1>4 DEF Rmw, Shape
<1>5. CASE op = "or"
  BY <1>1, <1>5 DEF Rmw, Shape
<1>6. CASE op = "xor"
  BY <1>1, <1>6 DEF Rmw, Shape
<1>7. QED
  BY <1>2, <1>3, <1>4, <1>5, <1>6 DEF FetchOps
LEMMA EffectShape ==
  ASSUME NEW c \in Calls, NEW v, Shape(c.obj, v)
  PROVE  Shape(c.obj, Effect(c, v).new) /\ Shape(c.obj, Effect(c, v).val)
<1>1. CASE c.fn \in {"load_c", "load_n"}
  BY <1>1 DEF Effect, FetchOps
<1>2. CASE c.fn \in {"store_c", "store_n"}
  BY <1>2, CallShapes DEF Effect, FetchOps
<1>3. CASE c.fn \in {"exchange_c", "exchange_n"}
  BY <1>3, CallShapes DEF Effect, FetchOps
<1>4. CASE c.fn \in {"compare_exchange_c", "compare_exchange_n"}
  BY <1>4, CallShapes DEF Effect, FetchOps
<1>5. CASE c.fn \in FetchOps
  BY <1>5, RmwShape DEF Effect, FetchOps
<1>6. CASE c.fn = "flag_test_and_set"
  BY <1>6, CallShapes DEF Effect, FetchOps
<1>7. CASE c.fn = "flag_clear"
  BY <1>7, CallShapes DEF Effect, FetchOps
<1>8. QED
  BY <1>1, <1>2, <1>3, <1>4, <1>5, <1>6, <1>7, CallFacts DEF Fns, FlagOps
LEMMA WrittenShape ==
  ASSUME Types, Shapes, NEW t \in Threads
  PROVE  Shape(obj(t), Written(t))
<1>1. call[t] \in Calls
  BY DEF Types
<1>2. CASE isCall(t, FetchOps)
  BY <1>1, <1>2, RmwShape DEF Shapes, Written, isCall
<1>3. CASE ~isCall(t, FetchOps)
  BY <1>1, <1>3, CallShapes DEF Written, obj
<1>4. QED
  BY <1>2, <1>3

(* A step of one thread leaves another thread's copy alone: the objects    *)
(* that are accessed by instructions are not copied, and the lock excludes *)
(* the rest.                                                               *)
LEMMA Others ==
  ASSUME Inv, NEW t \in Threads, StepOf(t), NEW u \in Threads, u # t
  PROVE  /\ pc'[u] = pc[u] /\ call'[u] = call[u] /\ k'[u] = k[u] /\ buf'[u] = buf[u]
         /\ ok'[u] = ok[u]
         /\ pc[u] \in Holding => mem'[obj(u)] = mem[obj(u)]
<1> USE DEF Inv, LockInv
<1>1. CASE Call(t) \/ Return(t)
  BY <1>1 DEF Call, Return, GoTo, Types
<1>2. CASE LockFreeAction(t)
  <2>1. pc[u] \in Holding => obj(u) # obj(t)
    BY <1>2 DEF LockFreeAction, OneWay, OneWayOf
  <2>2. pc'[u] = pc[u] /\ call'[u] = call[u] /\ k'[u] = k[u] /\ buf'[u] = buf[u] /\ ok'[u] = ok[u]
    BY <1>2 DEF LockFreeAction, GoTo, Types
  <2>3. \A o : o # obj(t) => mem'[o] = mem[o]
    BY <1>2 DEF LockFreeAction, Types
  <2>4. QED
    BY <2>1, <2>2, <2>3
<1>3. CASE LockTaken(t) \/ LockFails(t) \/ Spin(t) \/ unlock(t)
  BY <1>3 DEF LockTaken, LockFails, Spin, unlock, GoTo, Types
<1>4. CASE ReadsLast(t) \/ ReadsFirst(t)
  BY <1>4 DEF ReadsLast, ReadsFirst, ReadByte, Step, GoTo, Types
<1>5. CASE Compares(t)
  BY <1>5 DEF Compares, CompareByte, Step, GoTo, Types
<1>6. CASE Writes(t)
  <2>1. pc[u] \in Holding => obj(u) # obj(t)
    BY <1>6 DEF Writes, WriteByte, MutualExclusion, Holding, lockOf
  <2>2. QED
    BY <1>6, <2>1 DEF Writes, WriteByte, Step, GoTo, Types
<1>7. QED
  BY <1>1, <1>2, <1>3, <1>4, <1>5, <1>6 DEF StepOf

(* What the facts about a thread are made of is what Others preserves.     *)
LEMMA OthersKeep ==
  ASSUME Inv, NEW t \in Threads, StepOf(t), NEW u \in Threads, u # t
  PROVE  Shape(obj(u), buf[u])' /\ OneWayOf(u)' /\ CopyOf(u)'
<1>1. /\ pc'[u] = pc[u] /\ call'[u] = call[u] /\ k'[u] = k[u] /\ buf'[u] = buf[u] /\ ok'[u] = ok[u]
      /\ pc[u] \in Holding => mem'[obj(u)] = mem[obj(u)]
  BY Others
<1>2. Shape(obj(u), buf[u]) /\ OneWayOf(u) /\ CopyOf(u)
  BY DEF Inv, Shapes, OneWay, CopyInv
<1>3. obj(u)' = obj(u) /\ Written(u)' = Written(u)
  BY <1>1 DEF obj, Written, isCall
<1>4. Shape(obj(u), buf[u])' /\ OneWayOf(u)'
  BY <1>1, <1>2, <1>3 DEF Shape, OneWayOf, isCall
<1>5. pc[u] \in Copying => \A v : Matches(u, v)' <=> Matches(u, v)
  BY <1>1, <1>3 DEF Matches, Copying, Holding
<1>6. CopyOf(u)'
  BY <1>1, <1>2, <1>3, <1>5 DEF CopyOf, isCall, Holding, Copying
<1>7. QED
  BY <1>4, <1>6

(* Memory changes only by an instruction, or by the copy of a byte.        *)
LEMMA MemStep ==
  ASSUME Inv, NEW t \in Threads, StepOf(t)
  PROVE  /\ \A o \in Objects : o # obj(t) => mem'[o] = mem[o]
         /\ ~LockFreeAction(t) /\ ~Writes(t) => mem' = mem
<1>1. CASE LockFreeAction(t)
  BY <1>1 DEF LockFreeAction, Inv, LockInv, Types
<1>2. CASE Writes(t)
  BY <1>2 DEF Writes, WriteByte, Inv, LockInv, Types
<1>3. CASE ~LockFreeAction(t) /\ ~Writes(t)
  BY <1>3 DEF StepOf, Call, LockTaken, LockFails, Spin, ReadsLast, ReadsFirst, ReadByte, Compares,
              CompareByte, unlock, Return
<1>4. QED
  BY <1>1, <1>2, <1>3
LEMMA MemShape ==
  ASSUME Inv, NEW t \in Threads, StepOf(t)
  PROVE  \A o \in Objects : Shape(o, mem[o])'
<1> USE DEF Inv, LockInv
<1>1. call[t] \in Calls /\ obj(t) \in Objects
  BY CallFacts DEF Types, obj
<1>2. CASE LockFreeAction(t)
  <2>1. mem'[obj(t)] = Effect(call[t], mem[obj(t)]).new
    BY <1>1, <1>2 DEF LockFreeAction, Types
  <2>2. Shape(obj(t), Effect(call[t], mem[obj(t)]).new)
    BY <1>1, EffectShape DEF Shapes, obj
  <2>3. QED
    BY <2>1, <2>2, MemStep DEF Shapes, Shape
<1>3. CASE Writes(t)
  <2>1. mem'[obj(t)] = [mem[obj(t)] EXCEPT ![k[t]] = Written(t)[k[t]]]
    BY <1>1, <1>3 DEF Writes, WriteByte, Types
  <2>2. Shape(obj(t), [mem[obj(t)] EXCEPT ![k[t]] = Written(t)[k[t]]])
    BY <1>1 DEF Shapes, Shape
  <2>3. QED
    BY <2>1, <2>2, MemStep DEF Shapes, Shape
<1>4. CASE ~LockFreeAction(t) /\ ~Writes(t)
  BY <1>4, MemStep DEF Shapes, Shape
<1>5. QED
  BY <1>2, <1>3, <1>4

(* A step keeps what is true of the thread that makes it.                  *)
LEMMA OwnCopy ==
  ASSUME Inv, NEW t \in Threads, StepOf(t)
  PROVE  Shape(obj(t), buf[t])' /\ OneWayOf(t)' /\ CopyOf(t)'
<1> USE DEF Inv, LockInv
<1>1. call[t] \in Calls /\ obj(t) \in Objects /\ Size[obj(t)] \in Nat \ {0} /\ k[t] \in 1 .. Size[obj(t)]
  BY CallFacts DEF Types, Places, obj
<1>2. Shape(obj(t), buf[t]) /\ OneWayOf(t) /\ CopyOf(t) /\ Shape(obj(t), mem[obj(t)])
  BY <1>1 DEF Shapes, OneWay, CopyInv
<1>3. CASE Call(t)
  <2>1. PICK c \in Calls :
          /\ call' = [call EXCEPT ![t] = c]
          /\ buf' = [buf EXCEPT ![t] = FirstBuf(c)]
          /\ GoTo(t, IF c.fn \in FlagOps \/ is_lock_free_c(c.obj) THEN "free" ELSE "cas")
    BY <1>3 DEF Call, FirstBuf
  <2>2. /\ call'[t] = c /\ buf'[t] = FirstBuf(c) /\ ok'[t] = TRUE
        /\ pc'[t] = IF c.fn \in FlagOps \/ is_lock_free_c(c.obj) THEN "free" ELSE "cas"
    BY <1>3, <2>1 DEF Call, GoTo, Types
  <2>3. Shape(obj(t), buf[t])'
    BY <2>2, CallShapes DEF Shape, obj
  <2>4. OneWayOf(t)'
    BY <2>2, FlagsAssumption DEF OneWayOf, obj, isCall, Holding, Waiting
  <2>5. CopyOf(t)'
    BY <2>2 DEF CopyOf
  <2>6. QED
    BY <2>3, <2>4, <2>5
<1>4. CASE LockFreeAction(t)
  <2>1. buf'[t] = Effect(call[t], mem[obj(t)]).val /\ pc'[t] = "return" /\ call' = call
    BY <1>4 DEF LockFreeAction, GoTo, Types
  <2>2. Shape(obj(t), buf'[t])
    BY <1>1, <1>2, <2>1, EffectShape DEF obj
  <2>3. QED
    BY <2>1, <2>2 DEF Shape, OneWayOf, CopyOf, Holding, Waiting, obj
<1>5. CASE LockTaken(t)
  <2>1. pc'[t] = FirstStep(call[t].fn) /\ UNCHANGED <<mem, call, k, buf, ok>> /\ pc[t] = "cas"
    BY <1>5 DEF LockTaken, GoTo, Types
  <2>2. k[t] = 1
    BY <2>1 DEF Places, Copying
  <2>3. Shape(obj(t), buf[t])' /\ OneWayOf(t)'
    BY <1>2, <2>1 DEF Shape, OneWayOf, obj, isCall, FirstStep, Holding, Waiting
  <2>4. \A v : Matches(t, v)'
    BY <2>1, <2>2 DEF Matches
  <2>5. CopyOf(t)'
    BY <1>2, <2>1, <2>4 DEF CopyOf, FirstStep, isCall, Stores, Loads, CompareFns, Waiting
  <2>6. QED
    BY <2>3, <2>5
<1>6. CASE LockFails(t) \/ Spin(t)
  <2>1. pc'[t] \in Waiting /\ pc[t] \in Waiting /\ UNCHANGED <<mem, call, k, buf, ok>>
    BY <1>6 DEF LockFails, Spin, GoTo, Types, Waiting
  <2>2. Shape(obj(t), buf[t])' /\ OneWayOf(t)'
    BY <1>2, <2>1 DEF Shape, OneWayOf, obj, isCall, Waiting
  <2>3. CopyOf(t)'
    BY <1>2, <2>1 DEF CopyOf, Waiting
  <2>4. QED
    BY <2>2, <2>3
<1>7. CASE ReadsLast(t) \/ ReadsFirst(t)
  <2>1. /\ pc[t] = "read" /\ UNCHANGED <<mem, call, ok>>
        /\ buf'[t] = [buf[t] EXCEPT ![k[t]] = mem[obj(t)][k[t]]]
        /\ k'[t] = IF k[t] < Size[obj(t)] THEN k[t] + 1 ELSE 1
    BY <1>7 DEF ReadsLast, ReadsFirst, ReadByte, Step, Types
  <2>2. \/ ReadsLast(t) /\ pc'[t] = IF k[t] < Size[obj(t)] THEN "read" ELSE "unlock"
        \/ ReadsFirst(t) /\ pc'[t] = IF k[t] < Size[obj(t)] THEN "read" ELSE "write"
    BY <1>7, <2>1 DEF ReadsLast, ReadsFirst, ReadByte, Step, GoTo, Types
  <2>3. Shape(obj(t), buf[t])'
    BY <1>2, <2>1 DEF Shape, obj
  <2>4. OneWayOf(t)'
    BY <1>2, <2>1, <2>2 DEF OneWayOf, obj, isCall, Holding
  <2>5. Matches(t, buf[t])'
    <3>1. Matches(t, buf[t]) /\ obj(t)' = obj(t) /\ mem' = mem
      BY <1>2, <2>1 DEF CopyOf, obj
    <3>2. DOMAIN buf[t] = 1 .. Size[obj(t)]
      BY <1>2 DEF Shape
    <3>3. \A i \in 1 .. k[t] - 1 : i \in 1 .. Size[obj(t)] /\ i # k[t]
      BY <1>1
    <3>4. \A i \in 1 .. k[t] - 1 : buf'[t][i] = mem[obj(t)][i]
      BY <2>1, <3>1, <3>2, <3>3 DEF Matches
    <3>5. buf'[t][k[t]] = mem[obj(t)][k[t]]
      BY <1>1, <2>1, <3>2
    <3>6. \A i \in 1 .. k'[t] - 1 : i = k[t] \/ i \in 1 .. k[t] - 1
      BY <1>1, <2>1
    <3>7. QED
      BY <3>1, <3>4, <3>5, <3>6 DEF Matches
  <2>6. k[t] >= Size[obj(t)] => \A v : Matches(t, v)'
    BY <1>1, <2>1 DEF Matches
  <2>7. CASE ReadsLast(t) /\ pc'[t] = IF k[t] < Size[obj(t)] THEN "read" ELSE "unlock"
    <3>1. pc'[t] \in {"read", "unlock"}
      BY <2>7
    <3>2. /\ ~isCall(t, Stores)'
          /\ isCall(t, CompareFns)' => ok'[t] = FALSE /\ mem'[obj(t)'] # call'[t].expected
          /\ ~isCall(t, CompareFns)' => ok'[t] = TRUE
      BY <1>2, <2>1 DEF CopyOf, isCall, obj
    <3>3. QED
      BY <2>3, <2>4, <2>5, <3>1, <3>2 DEF CopyOf, Waiting
  <2>8. CASE ReadsFirst(t) /\ pc'[t] = IF k[t] < Size[obj(t)] THEN "read" ELSE "write"
    <3>1. ~isCall(t, Loads)' /\ ~isCall(t, CompareFns)'
      BY <2>1, <2>8 DEF ReadsFirst, isCall, Loads, CompareFns, Exchanges, FetchOps
    <3>2. pc'[t] = "write" => Matches(t, Written(t))'
      BY <1>1, <2>6, <2>8
    <3>3. pc'[t] \in {"read", "write"}
      BY <2>8
    <3>4. ~isCall(t, Stores)' /\ ok'[t] = TRUE
      BY <1>2, <2>1, <3>1 DEF CopyOf, isCall
    <3>5. QED
      BY <2>3, <2>4, <2>5, <3>1, <3>2, <3>3, <3>4 DEF CopyOf, Waiting
  <2>9. QED
    BY <2>2, <2>3, <2>4, <2>7, <2>8
<1>8. CASE Compares(t)
  <2>1. /\ pc[t] = "compare" /\ UNCHANGED <<mem, call, buf>> /\ isCall(t, CompareFns)
        /\ \/ /\ mem[obj(t)][k[t]] = buf[t][k[t]] /\ ok'[t] = ok[t]
              /\ k'[t] = IF k[t] < Size[obj(t)] THEN k[t] + 1 ELSE 1
              /\ pc'[t] = IF k[t] < Size[obj(t)] THEN "compare" ELSE "write"
           \/ /\ mem[obj(t)][k[t]] # buf[t][k[t]] /\ ok'[t] = FALSE
              /\ k'[t] = 1 /\ pc'[t] = "read"
    BY <1>8 DEF Compares, CompareByte, Step, GoTo, Types
  <2>2. Shape(obj(t), buf[t])' /\ OneWayOf(t)'
    BY <1>2, <2>1 DEF Shape, OneWayOf, obj, isCall, Holding
  <2>3. ~isCall(t, Stores) /\ ~isCall(t, Loads)
    BY <2>1 DEF isCall, Stores, Loads, CompareFns
  <2>4. pc'[t] = "compare" => Matches(t, buf[t])'
    BY <1>1, <1>2, <2>1 DEF Matches, CopyOf, obj
  <2>5. pc'[t] # "compare" => \A v : Matches(t, v)'
    BY <1>1, <2>1 DEF Matches
  <2>6. pc'[t] = "read" => ok'[t] = FALSE /\ mem[obj(t)] # call[t].expected
    BY <1>2, <2>1 DEF CopyOf, FirstBuf, isCall
  <2>7. CopyOf(t)'
    BY <1>1, <1>2, <2>1, <2>3, <2>4, <2>5, <2>6 DEF CopyOf, isCall, obj, Waiting
  <2>8. QED
    BY <2>2, <2>7
<1>9. CASE Writes(t)
  <2>1. /\ pc[t] = "write" /\ ~isCall(t, Loads) /\ UNCHANGED <<call, buf, ok>>
        /\ mem'[obj(t)] = [mem[obj(t)] EXCEPT ![k[t]] = Written(t)[k[t]]]
        /\ k'[t] = IF k[t] < Size[obj(t)] THEN k[t] + 1 ELSE 1
        /\ pc'[t] = IF k[t] < Size[obj(t)] THEN "write" ELSE "unlock"
    BY <1>1, <1>9 DEF Writes, WriteByte, Step, GoTo, Types
  <2>2. Shape(obj(t), buf[t])' /\ OneWayOf(t)'
    BY <1>2, <2>1 DEF Shape, OneWayOf, obj, isCall, Holding
  <2>3. obj(t)' = obj(t) /\ Written(t)' = Written(t)
    BY <2>1 DEF obj, Written, isCall
  <2>4. pc'[t] = "write" => Matches(t, Written(t))'
    <3>1. Matches(t, Written(t))
      BY <1>2, <2>1 DEF CopyOf
    <3>2. DOMAIN mem[obj(t)] = 1 .. Size[obj(t)]
      BY <1>2 DEF Shape
    <3>3. \A i \in 1 .. k[t] - 1 : i \in 1 .. Size[obj(t)] /\ i # k[t]
      BY <1>1
    <3>4. \A i \in 1 .. k[t] - 1 : mem'[obj(t)][i] = Written(t)[i]
      BY <2>1, <3>1, <3>2, <3>3 DEF Matches
    <3>5. mem'[obj(t)][k[t]] = Written(t)[k[t]]
      BY <1>1, <2>1, <3>2
    <3>6. \A i \in 1 .. k'[t] - 1 : i = k[t] \/ i \in 1 .. k[t] - 1
      BY <1>1, <2>1
    <3>7. QED
      BY <2>3, <3>4, <3>5, <3>6 DEF Matches
  <2>5. QED
    BY <2>1, <2>2, <2>4 DEF CopyOf, isCall, Waiting
<1>10. CASE unlock(t)
  <2>1. pc'[t] = "return" /\ UNCHANGED <<call, buf>>
    BY <1>10 DEF unlock, GoTo, Types
  <2>2. QED
    BY <1>2, <2>1 DEF Shape, OneWayOf, CopyOf, Holding, Waiting, obj
<1>11. CASE Return(t)
  <2>1. pc'[t] = "idle" /\ call'[t] = NoCall /\ buf'[t] = Blank(NoCall.obj)
    BY <1>11 DEF Return, GoTo, Types
  <2>2. QED
    BY <2>1, NoCallFact, CallShapes DEF Shape, OneWayOf, CopyOf, Holding, Waiting, obj
<1>12. QED
  BY <1>3, <1>4, <1>5, <1>6, <1>7, <1>8, <1>9, <1>10, <1>11 DEF StepOf

(* The invariant holds initially and every step keeps it.                  *)
LEMMA InvInit == Init => Inv
<1>1. SUFFICES ASSUME Init PROVE Inv
  OBVIOUS
<1>2. LockInv
  BY <1>1, LockInit
<1>3. \A t \in Threads : pc[t] = "idle" /\ call[t] = NoCall /\ buf[t] = Blank(NoCall.obj)
  BY <1>1 DEF Init
<1>4. Shapes
  BY <1>1, <1>3, NoCallFact, CallShapes DEF Init, Shapes, Shape, Blank, obj
<1>5. OneWay /\ CopyInv
  BY <1>3 DEF OneWay, OneWayOf, CopyInv, CopyOf, Holding, Waiting
<1>6. QED
  BY <1>2, <1>4, <1>5 DEF Inv
LEMMA InvStep ==
  ASSUME Inv, [Next]_vars
  PROVE  Inv'
<1>1. LockInv'
  BY LockStep DEF Inv
<1>2. CASE UNCHANGED vars
  BY <1>1, <1>2 DEF vars, Inv, Shapes, Shape, OneWay, OneWayOf, CopyInv, CopyOf, Matches, Written,
                    isCall, obj
<1>3. CASE Next
  <2>1. PICK t \in Threads : StepOf(t)
    BY <1>3, StepKinds
  <2>2. \A u \in Threads : Shape(obj(u), buf[u])' /\ OneWayOf(u)' /\ CopyOf(u)'
    BY <2>1, OthersKeep, OwnCopy
  <2>3. \A o \in Objects : Shape(o, mem[o])'
    BY <2>1, MemShape
  <2>4. QED
    BY <1>1, <2>2, <2>3 DEF Inv, Shapes, OneWay, CopyInv
<1>4. QED
  BY <1>2, <1>3

-----------------------------------------------------------------------------
(* The refinement *)

(* What the refinement mapping makes of the memory: the value that a       *)
(* thread is writing to an object, and what is in memory otherwise.        *)
AbstractMemFacts ==
  /\ AbstractMem = [o \in Objects |-> AbstractMem[o]]
  /\ \A o \in Objects :
       (\A t \in Threads : pc[t] = "write" => obj(t) # o) => AbstractMem[o] = mem[o]
  /\ \A t \in Threads : pc[t] = "write" => AbstractMem[obj(t)] = Written(t)
LEMMA AbstractMemIs == LockInv => AbstractMemFacts
<1>1. SUFFICES ASSUME LockInv PROVE AbstractMemFacts
  OBVIOUS
<1>2. AbstractMem = [o \in Objects |-> AbstractMem[o]]
  BY DEF AbstractMem
<1>3. ASSUME NEW o \in Objects, \A t \in Threads : pc[t] = "write" => obj(t) # o
      PROVE  AbstractMem[o] = mem[o]
  BY <1>3 DEF AbstractMem
<1>4. ASSUME NEW t \in Threads, pc[t] = "write"
      PROVE  AbstractMem[obj(t)] = Written(t)
  <2>1. \A u \in Threads : pc[u] = "write" /\ obj(u) = obj(t) => u = t
    BY <1>1, <1>4 DEF LockInv, MutualExclusion, Holding, lockOf
  <2>2. obj(t) \in Objects
    BY <1>1, CallFacts DEF LockInv, Types, obj
  <2>3. (CHOOSE u \in Threads : pc[u] = "write" /\ obj(u) = obj(t)) = t
    BY <1>4, <2>1
  <2>4. QED
    BY <1>4, <2>2, <2>3 DEF AbstractMem
<1>5. QED
  BY <1>2, <1>3, <1>4 DEF AbstractMemFacts

(* A step changes what the other threads see of an object only where its   *)
(* thread writes.                                                          *)
LEMMA Elsewhere ==
  ASSUME Inv, Inv', AbstractMemFacts, AbstractMemFacts', NEW t \in Threads, StepOf(t)
  PROVE  /\ \A u \in Threads : u # t => StatusOf(u)' = StatusOf(u)
         /\ \A o \in Objects :
              \/ o # obj(t)
              \/ pc[t] # "write" /\ pc'[t] # "write" /\ mem'[o] = mem[o]
              => AbstractMem'[o] = AbstractMem[o]
<1>1. ASSUME NEW u \in Threads, u # t
      PROVE  /\ StatusOf(u)' = StatusOf(u) /\ pc'[u] = pc[u] /\ obj(u)' = obj(u)
             /\ Written(u)' = Written(u)
  BY <1>1, Others DEF StatusOf, obj, Written, isCall
<1>2. ASSUME NEW o \in Objects,
             o # obj(t) \/ (pc[t] # "write" /\ pc'[t] # "write" /\ mem'[o] = mem[o])
      PROVE  AbstractMem'[o] = AbstractMem[o]
  <2>1. pc'[t] = "write" => obj(t)' = obj(t)
    BY DEF StepOf, Call, LockFreeAction, LockTaken, LockFails, Spin, ReadsLast, ReadsFirst, ReadByte,
           Compares, CompareByte, Writes, WriteByte, unlock, Return, obj, GoTo, Inv, LockInv, Types
  <2>2. ~(pc[t] = "write" /\ obj(t) = o) /\ ~(pc'[t] = "write" /\ obj(t)' = o)
    BY <1>2, <2>1
  <2>3. mem'[o] = mem[o]
    BY <1>2, MemStep
  <2>4. CASE \E u \in Threads : pc[u] = "write" /\ obj(u) = o
    <3>1. PICK u \in Threads : pc[u] = "write" /\ obj(u) = o
      BY <2>4
    <3>2. u # t /\ pc'[u] = "write" /\ obj(u)' = o /\ Written(u)' = Written(u)
      BY <1>1, <2>2, <3>1
    <3>3. AbstractMem[o] = Written(u)
      BY <3>1 DEF AbstractMemFacts
    <3>4. AbstractMem'[o] = Written(u)'
      BY <3>2 DEF AbstractMemFacts
    <3>5. QED
      BY <3>2, <3>3, <3>4
  <2>5. CASE \A u \in Threads : pc[u] = "write" => obj(u) # o
    <3>1. \A u \in Threads : pc'[u] = "write" => obj(u)' # o
      BY <1>1, <2>2, <2>5
    <3>2. AbstractMem[o] = mem[o]
      BY <2>5 DEF AbstractMemFacts
    <3>3. AbstractMem'[o] = mem'[o]
      BY <3>1 DEF AbstractMemFacts
    <3>4. QED
      BY <2>3, <3>2, <3>3
  <2>6. QED
    BY <2>4, <2>5
<1>3. QED
  BY <1>1, <1>2

(* While a thread accesses an object by an instruction or under its lock,  *)
(* and is not writing, the object is as it is in memory.                   *)
LEMMA NotWritten ==
  ASSUME Inv, AbstractMemFacts, NEW t \in Threads,
         pc[t] \in {"free", "compare", "read", "unlock"}
  PROVE  AbstractMem[obj(t)] = mem[obj(t)]
<1>1. obj(t) \in Objects
  BY CallFacts DEF Inv, LockInv, Types, obj
<1>2. \A u \in Threads : pc[u] = "write" => obj(u) # obj(t)
  BY DEF Inv, LockInv, MutualExclusion, OneWay, OneWayOf, Holding, lockOf
<1>3. QED
  BY <1>1, <1>2 DEF AbstractMemFacts

(* A step that leaves memory, and what is to be seen of its thread, alone  *)
(* is no step of the atomic memory.                                        *)
LEMMA Quiet ==
  ASSUME Inv, Inv', AbstractMemFacts, AbstractMemFacts', NEW t \in Threads, StepOf(t),
         StatusOf(t)' = StatusOf(t), AbstractMem'[obj(t)] = AbstractMem[obj(t)]
  PROVE  UNCHANGED <<AbstractMem, AbstractStatus>>
<1>1. \A o \in Objects : AbstractMem'[o] = AbstractMem[o]
  BY Elsewhere
<1>2. AbstractMem' = AbstractMem
  BY <1>1 DEF AbstractMemFacts
<1>3. AbstractStatus' = AbstractStatus
  BY Elsewhere DEF AbstractStatus
<1>4. QED
  BY <1>2, <1>3

(* The moment at which an operation happens.                               *)
LEMMA Performs ==
  ASSUME Inv, Inv', AbstractMemFacts, AbstractMemFacts', NEW t \in Threads, StepOf(t),
         NEW v, NEW e, v = AbstractMem[obj(t)], e = Effect(call[t], v),
         StatusOf(t) = [phase |-> "called", call |-> call[t]],
         StatusOf(t)' = [phase |-> "done", call |-> call[t], ok |-> e.ok, val |-> e.val],
         AbstractMem'[obj(t)] = e.new
  PROVE  AM!Next
<1>1. call[t] \in Calls /\ obj(t) \in Objects
  BY CallFacts DEF Inv, LockInv, Types, obj
<1>2. AbstractMem' = [AbstractMem EXCEPT ![obj(t)] = e.new]
  BY <1>1, Elsewhere DEF AbstractMemFacts
<1>3. AbstractStatus' =
        [AbstractStatus EXCEPT ![t] =
           [phase |-> "done", call |-> call[t], ok |-> e.ok, val |-> e.val]]
  BY Elsewhere DEF AbstractStatus
<1>4. AM!Perform(t)
  BY <1>1, <1>2, <1>3 DEF AM!Perform, AM!Called, AM!Done, AbstractStatus, obj
<1>5. QED
  BY <1>4 DEF AM!Next

(* What an operation does, by the kind of its call.                        *)
LEMMA EffectIs ==
  ASSUME NEW c, NEW v, NEW e, e = Effect(c, v)
  PROVE  /\ c.fn \in Loads => e.new = v /\ e.val = v /\ e.ok = TRUE
         /\ c.fn \in Stores => e.new = c.val /\ e.val = Blank(c.obj) /\ e.ok = TRUE
         /\ c.fn \in CompareFns /\ v = c.expected =>
              e.new = c.val /\ e.val = c.expected /\ e.ok = TRUE
<1>1. CASE c.fn \in Loads
  BY <1>1 DEF Effect, Loads, Stores, CompareFns, FetchOps
<1>2. CASE c.fn \in Stores
  BY <1>2 DEF Effect, Loads, Stores, CompareFns, FetchOps
<1>3. CASE c.fn \in CompareFns
  BY <1>3 DEF Effect, Loads, Stores, CompareFns, FetchOps
<1>4. QED
  BY <1>1, <1>2, <1>3

(* Every step is a step of the atomic memory or none: an operation happens *)
(* at its instruction, when a store has the lock, or with the last byte of *)
(* its first copy or comparison.                                           *)
LEMMA Refines ==
  ASSUME Inv, Inv', AbstractMemFacts, AbstractMemFacts', NEW t \in Threads, StepOf(t)
  PROVE  AM!Next \/ UNCHANGED <<AbstractMem, AbstractStatus>>
<1> USE DEF Inv, LockInv
<1> DEFINE c == call[t]
           v == AbstractMem[obj(t)]
           e == Effect(c, v)
           called == [phase |-> "called", call |-> c]
           done == [phase |-> "done", call |-> c, ok |-> e.ok, val |-> e.val]
<1>1. c \in Calls /\ obj(t) \in Objects /\ Size[obj(t)] \in Nat \ {0} /\ k[t] \in 1 .. Size[obj(t)]
  BY CallFacts DEF Types, Places, obj
<1>2. CopyOf(t) /\ Shape(obj(t), mem[obj(t)]) /\ Shape(obj(t), buf[t])
  BY <1>1 DEF CopyInv, Shapes
<1>3. pc[t] # "write" /\ pc'[t] # "write" /\ mem' = mem => AbstractMem'[obj(t)] = v
  BY <1>1, Elsewhere
<1>4. pc'[t] = "write" /\ call' = call => AbstractMem'[obj(t)] = Written(t)'
  BY DEF AbstractMemFacts, obj
<1>5. CASE Call(t)
  <2>1. PICK d \in Calls :
          /\ call' = [call EXCEPT ![t] = d]
          /\ GoTo(t, IF d.fn \in FlagOps \/ is_lock_free_c(d.obj) THEN "free" ELSE "cas")
    BY <1>5 DEF Call
  <2>2. call'[t] = d /\ pc'[t] \in {"free", "cas"} /\ pc[t] = "idle" /\ mem' = mem
    BY <1>5, <2>1 DEF Call, GoTo, Types
  <2>3. StatusOf(t) = [phase |-> "idle"] /\ StatusOf(t)' = [phase |-> "called", call |-> d]
    BY <2>2 DEF StatusOf
  <2>4. AbstractMem' = AbstractMem
    BY <1>1, <1>3, <2>2, Elsewhere DEF AbstractMemFacts
  <2>5. AbstractStatus' = [AbstractStatus EXCEPT ![t] = [phase |-> "called", call |-> d]]
    BY <2>3, Elsewhere DEF AbstractStatus
  <2>6. AM!Call(t)
    BY <2>3, <2>4, <2>5 DEF AM!Call, AM!Idle, AM!Called, AbstractStatus
  <2>7. QED
    BY <2>6 DEF AM!Next
<1>6. CASE LockFreeAction(t)
  <2>1. v = mem[obj(t)]
    BY <1>6, NotWritten DEF LockFreeAction
  <2>2. /\ pc[t] = "free" /\ pc'[t] = "return" /\ call' = call
        /\ mem'[obj(t)] = e.new /\ buf'[t] = e.val /\ ok'[t] = e.ok
    BY <1>1, <1>6, <2>1 DEF LockFreeAction, GoTo, Types
  <2>3. StatusOf(t) = called /\ StatusOf(t)' = done
    BY <2>2 DEF StatusOf
  <2>4. \A u \in Threads : pc'[u] = "write" => obj(u)' # obj(t)
    <3>1. \A u \in Threads : pc[u] = "write" => obj(u) # obj(t)
      BY <2>2 DEF OneWay, OneWayOf, Holding
    <3>2. QED
      BY <2>2, <3>1, Others DEF obj
  <2>5. AbstractMem'[obj(t)] = e.new
    BY <1>1, <2>2, <2>4 DEF AbstractMemFacts
  <2>6. QED
    BY <2>3, <2>5, Performs
<1>7. CASE LockTaken(t)
  <2>1. /\ pc[t] = "cas" /\ pc'[t] = FirstStep(c.fn) /\ mem' = mem
        /\ call' = call /\ buf' = buf /\ ok' = ok
    BY <1>7 DEF LockTaken, GoTo, Types
  <2>2. CASE c.fn \in Stores
    <3>1. pc'[t] = "write" /\ StatusOf(t) = called
      BY <2>1, <2>2 DEF FirstStep, Stores, StatusOf
    <3>2. e.new = c.val /\ e.val = Blank(c.obj) /\ e.ok = TRUE
      BY <2>2, EffectIs
    <3>3. ok[t] = TRUE /\ buf[t] = Blank(c.obj)
      BY <1>2, <2>1, <2>2 DEF CopyOf, FirstBuf, Stores, CompareFns, Waiting
    <3>4. StatusOf(t)' = done
      <4>1. e.ok = ok'[t] /\ e.val = buf'[t]
        BY <2>1, <3>2, <3>3
      <4>2. QED
        BY <2>1, <3>1, <4>1 DEF StatusOf
    <3>5. Written(t)' = c.val
      BY <2>1, <2>2 DEF Written, isCall, Stores, FetchOps
    <3>6. AbstractMem'[obj(t)] = e.new
      BY <1>4, <2>1, <3>1, <3>2, <3>5
    <3>7. QED
      BY <3>1, <3>4, <3>6, Performs
  <2>3. CASE c.fn \notin Stores
    <3>1. pc'[t] \in {"compare", "read"}
      BY <2>1, <2>3 DEF FirstStep, Stores
    <3>2. StatusOf(t)' = StatusOf(t)
      BY <2>1, <3>1 DEF StatusOf
    <3>3. QED
      BY <1>3, <2>1, <3>1, <3>2, Quiet
  <2>4. QED
    BY <2>2, <2>3
<1>8. CASE LockFails(t) \/ Spin(t) \/ unlock(t)
  <2>1. /\ mem' = mem /\ call' = call /\ buf' = buf /\ ok' = ok
        /\ \/ pc[t] \in Waiting /\ pc'[t] \in Waiting
           \/ pc[t] = "unlock" /\ pc'[t] = "return"
    BY <1>8 DEF LockFails, Spin, unlock, GoTo, Types, Waiting
  <2>2. StatusOf(t)' = StatusOf(t) /\ pc[t] # "write" /\ pc'[t] # "write"
    BY <2>1 DEF StatusOf, Waiting
  <2>3. QED
    BY <1>3, <2>1, <2>2, Quiet
<1>9. CASE ReadsLast(t) \/ ReadsFirst(t)
  <2>1. /\ pc[t] = "read" /\ mem' = mem /\ call' = call /\ ok' = ok
        /\ buf'[t] = [buf[t] EXCEPT ![k[t]] = mem[obj(t)][k[t]]]
        /\ k[t] < Size[obj(t)] => pc'[t] = "read"
    BY <1>9 DEF ReadsLast, ReadsFirst, ReadByte, Step, GoTo, Types
  <2>2. v = mem[obj(t)]
    BY <2>1, NotWritten
  <2>3. CASE k[t] < Size[obj(t)]
    <3>1. StatusOf(t)' = StatusOf(t)
      BY <2>1, <2>3 DEF StatusOf
    <3>2. QED
      BY <1>3, <2>1, <2>3, <3>1, Quiet
  <2>4. CASE k[t] = Size[obj(t)]
    <3>1. Matches(t, buf[t]) /\ StatusOf(t) = called
      BY <1>2, <2>1 DEF CopyOf, StatusOf
    <3>2. \A i \in 1 .. Size[obj(t)] : buf'[t][i] = v[i]
      <4>1. DOMAIN buf[t] = 1 .. Size[obj(t)]
        BY <1>2 DEF Shape
      <4>2. \A i \in 1 .. Size[obj(t)] : i = k[t] \/ (i # k[t] /\ i \in 1 .. k[t] - 1)
        BY <1>1, <2>4
      <4>3. \A i \in 1 .. k[t] - 1 : v[i] = buf[t][i]
        BY <2>2, <3>1 DEF Matches
      <4>4. QED
        BY <2>1, <2>2, <4>1, <4>2, <4>3
    <3>3. Shape(obj(t), buf'[t])
      BY <1>2, <2>1 DEF Shape
    <3>4. buf'[t] = v
      BY <1>2, <2>2, <3>2, <3>3 DEF Shape
    <3>5. CASE ReadsLast(t)
      <4>1. pc'[t] = "unlock"
        BY <1>1, <2>4, <3>5 DEF ReadsLast, ReadByte, Step, GoTo, Types
      <4>2. e.new = v /\ e.val = v /\ e.ok = ok[t]
        <5>1. \/ c.fn \in Loads /\ ok[t] = TRUE
              \/ c.fn \in CompareFns /\ ok[t] = FALSE /\ v # c.expected
          BY <1>2, <2>1, <2>2, <3>5 DEF ReadsLast, CopyOf, isCall, Loads, CompareFns
        <5>2. CASE c.fn \in Loads /\ ok[t] = TRUE
          <6>1. e.new = v /\ e.val = v /\ e.ok = TRUE
            BY <5>2, EffectIs
          <6>2. QED
            BY <5>2, <6>1
        <5>3. CASE c.fn \in CompareFns /\ ok[t] = FALSE /\ v # c.expected
          <6>1. e.new = v /\ e.val = v /\ e.ok = FALSE
            BY <5>3 DEF Effect, CompareFns, FetchOps
          <6>2. QED
            BY <5>3, <6>1
        <5>4. QED
          BY <5>1, <5>2, <5>3
      <4>3. StatusOf(t)' = done
        BY <2>1, <3>4, <4>1, <4>2 DEF StatusOf
      <4>4. AbstractMem'[obj(t)] = e.new
        BY <1>3, <2>1, <4>1, <4>2
      <4>5. QED
        BY <3>1, <4>3, <4>4, Performs
    <3>6. CASE ReadsFirst(t)
      <4>1. pc'[t] = "write"
        BY <1>1, <2>4, <3>6 DEF ReadsFirst, ReadByte, Step, GoTo, Types
      <4>2. c.fn \in Exchanges \/ c.fn \in FetchOps
        BY <3>6 DEF ReadsFirst, isCall
      <4>3. e.val = v /\ e.ok = TRUE
        BY <4>2 DEF Effect, Exchanges, FetchOps
      <4>4. e.new = Written(t)'
        BY <2>1, <3>4, <4>2 DEF Effect, Written, isCall, Exchanges, FetchOps
      <4>5. ok[t] = TRUE
        BY <1>2, <2>1, <4>2 DEF CopyOf, isCall, Exchanges, FetchOps, CompareFns
      <4>6. StatusOf(t)' = done
        BY <2>1, <3>4, <4>1, <4>3, <4>5 DEF StatusOf
      <4>7. AbstractMem'[obj(t)] = e.new
        BY <1>4, <2>1, <4>1, <4>4
      <4>8. QED
        BY <3>1, <4>6, <4>7, Performs
    <3>7. QED
      BY <1>9, <3>5, <3>6
  <2>5. QED
    BY <1>1, <2>3, <2>4
<1>10. CASE Compares(t)
  <2>1. /\ pc[t] = "compare" /\ mem' = mem /\ call' = call /\ buf' = buf /\ c.fn \in CompareFns
        /\ \/ /\ mem[obj(t)][k[t]] = buf[t][k[t]] /\ ok' = ok
              /\ pc'[t] = IF k[t] < Size[obj(t)] THEN "compare" ELSE "write"
           \/ pc'[t] = "read"
    BY <1>10 DEF Compares, CompareByte, Step, GoTo, Types, isCall
  <2>2. CASE pc'[t] \in {"compare", "read"}
    <3>1. StatusOf(t)' = StatusOf(t)
      BY <2>1, <2>2 DEF StatusOf
    <3>2. QED
      BY <1>3, <2>1, <2>2, <3>1, Quiet
  <2>3. CASE pc'[t] = "write"
    <3>1. k[t] = Size[obj(t)] /\ mem[obj(t)][k[t]] = buf[t][k[t]] /\ ok' = ok
      BY <1>1, <2>1, <2>3
    <3>2. StatusOf(t) = called
      BY <2>1 DEF StatusOf
    <3>3. ok[t] = TRUE /\ buf[t] = c.expected /\ Matches(t, buf[t])
      BY <1>2, <2>1 DEF CopyOf, FirstBuf
    <3>4. \A i \in 1 .. Size[obj(t)] : mem[obj(t)][i] = buf[t][i]
      BY <1>1, <3>1, <3>3 DEF Matches
    <3>5. v = c.expected
      BY <1>2, <2>1, <3>3, <3>4, NotWritten DEF Shape
    <3>6. e.new = c.val /\ e.val = c.expected /\ e.ok = TRUE
      BY <2>1, <3>5, EffectIs
    <3>7. StatusOf(t)' = done
      <4>1. e.ok = ok'[t] /\ e.val = buf'[t]
        BY <2>1, <3>1, <3>3, <3>6
      <4>2. QED
        BY <2>1, <2>3, <4>1 DEF StatusOf
    <3>8. Written(t)' = c.val
      BY <2>1 DEF Written, isCall, CompareFns, FetchOps
    <3>9. AbstractMem'[obj(t)] = e.new
      BY <1>4, <2>1, <2>3, <3>6, <3>8
    <3>10. QED
      BY <3>2, <3>7, <3>9, Performs
  <2>4. QED
    BY <2>1, <2>2, <2>3
<1>11. CASE Writes(t)
  <2>1. /\ pc[t] = "write" /\ call' = call /\ buf' = buf /\ ok' = ok
        /\ mem'[obj(t)] = [mem[obj(t)] EXCEPT ![k[t]] = Written(t)[k[t]]]
        /\ pc'[t] = IF k[t] < Size[obj(t)] THEN "write" ELSE "unlock"
    BY <1>1, <1>11 DEF Writes, WriteByte, Step, GoTo, Types
  <2>2. StatusOf(t)' = StatusOf(t) /\ Written(t)' = Written(t) /\ obj(t)' = obj(t)
    BY <2>1 DEF StatusOf, Written, isCall, obj
  <2>3. v = Written(t)
    BY <2>1 DEF AbstractMemFacts
  <2>4. CASE k[t] < Size[obj(t)]
    BY <1>4, <2>1, <2>2, <2>3, <2>4, Quiet
  <2>5. CASE k[t] = Size[obj(t)]
    <3>1. Matches(t, Written(t)) /\ Shape(obj(t), Written(t))
      BY <1>2, <2>1, WrittenShape DEF CopyOf
    <3>2. \A i \in 1 .. Size[obj(t)] : mem'[obj(t)][i] = Written(t)[i]
      <4>1. DOMAIN mem[obj(t)] = 1 .. Size[obj(t)]
        BY <1>2 DEF Shape
      <4>2. \A i \in 1 .. Size[obj(t)] : i = k[t] \/ (i # k[t] /\ i \in 1 .. k[t] - 1)
        BY <1>1, <2>5
      <4>3. \A i \in 1 .. k[t] - 1 : mem[obj(t)][i] = Written(t)[i]
        BY <3>1 DEF Matches
      <4>4. QED
        BY <2>1, <4>1, <4>2, <4>3
    <3>3. Shape(obj(t), mem'[obj(t)])
      BY <1>2, <2>1 DEF Shape
    <3>4. mem'[obj(t)] = Written(t)
      BY <3>1, <3>2, <3>3 DEF Shape
    <3>5. AbstractMem'[obj(t)] = mem'[obj(t)]
      <4>1. \A u \in Threads : pc[u] = "write" /\ obj(u) = obj(t) => u = t
        BY <2>1 DEF MutualExclusion, Holding, lockOf
      <4>2. \A u \in Threads : pc'[u] = "write" => obj(u)' # obj(t)
        BY <1>1, <2>1, <2>5, <4>1, Others DEF obj
      <4>3. QED
        BY <1>1, <4>2 DEF AbstractMemFacts
    <3>6. QED
      BY <2>2, <2>3, <3>4, <3>5, Quiet
  <2>6. QED
    BY <1>1, <2>4, <2>5
<1>12. CASE Return(t)
  <2>1. pc[t] = "return" /\ pc'[t] = "idle" /\ mem' = mem
    BY <1>12 DEF Return, GoTo, Types
  <2>2. StatusOf(t).phase = "done" /\ StatusOf(t)' = [phase |-> "idle"]
    BY <2>1 DEF StatusOf
  <2>3. AbstractMem' = AbstractMem
    BY <1>1, <1>3, <2>1, Elsewhere DEF AbstractMemFacts
  <2>4. AbstractStatus' = [AbstractStatus EXCEPT ![t] = [phase |-> "idle"]]
    BY <2>2, Elsewhere DEF AbstractStatus
  <2>5. AM!Return(t)
    BY <2>2, <2>3, <2>4 DEF AM!Return, AM!Idle, AbstractStatus
  <2>6. QED
    BY <2>5 DEF AM!Next
<1>13. QED
  BY <1>5, <1>6, <1>7, <1>8, <1>9, <1>10, <1>11, <1>12 DEF StepOf

(* The library implements an atomic memory for any threads, objects and    *)
(* calls: a load, a store, an exchange, a compare and exchange or a fetch  *)
(* operation takes effect at once, whether by an instruction or by copies  *)
(* under a lock that other objects share.                                  *)
THEOREM IsAtomicTheorem == Spec => IsAtomic
<1>1. Init => Inv
  BY InvInit
<1>2. Inv /\ [Next]_vars => Inv'
  BY InvStep
<1>3. Inv => AbstractMemFacts
  BY AbstractMemIs DEF Inv
<1>4. Inv /\ Inv' /\ AbstractMemFacts /\ AbstractMemFacts' /\ [Next]_vars
        => [AM!Next]_<<AbstractMem, AbstractStatus>>
  <2>1. ASSUME Inv, Inv', AbstractMemFacts, AbstractMemFacts', Next
        PROVE  AM!Next \/ UNCHANGED <<AbstractMem, AbstractStatus>>
    BY <2>1, StepKinds, Refines
  <2>2. ASSUME UNCHANGED vars
        PROVE  UNCHANGED <<AbstractMem, AbstractStatus>>
    BY <2>2 DEF vars, AbstractMem, AbstractStatus, StatusOf, Written, obj, isCall
  <2>3. QED
    BY <2>1, <2>2
<1>5. QED
  BY <1>1, <1>2, <1>3, <1>4, PTL DEF Spec, IsAtomic
=============================================================================
