------------------------------- MODULE EmuTls -------------------------------
(***************************************************************************)
(* emutls.c on pthreads: thread-local variables without the help of the    *)
(* linker.  A variable has a control, which gets an index when a thread    *)
(* first needs it; a thread has an array, found through a pthread key,     *)
(* that holds the addresses of its objects at those indexes.  malloc, the  *)
(* pthread functions and the thread's end are external.                    *)
(***************************************************************************)
EXTENDS Integers, Sequences

CONSTANTS
  Threads, Controls,
  SizeOf, AlignOf,          \* of every control
  Blocks,                   \* the addresses that malloc may return
  PtrSize,                  \* sizeof(void *)
  HeaderWords, RoundWords,  \* of an array: 2 and 16 in the code
  SkipRounds,               \* EMUTLS_SKIP_DESTRUCTOR_ROUNDS
  DestructorRounds,         \* PTHREAD_DESTRUCTOR_ITERATIONS
  OtherRounds,              \* the rounds in which other destructors use variables
  None

ASSUME ControlsAssumption ==
  /\ SizeOf \in [Controls -> Nat \ {0}] /\ AlignOf \in [Controls -> Nat \ {0}]
  /\ PtrSize \in Nat \ {0} /\ HeaderWords \in Nat /\ RoundWords \in Nat \ {0}
ASSUME BlocksAssumption == Blocks \subseteq Nat \ {0}
ASSUME NoneAssumption ==
  /\ None \notin Threads /\ None \notin Controls /\ None \notin Seq(Nat)
  /\ None \notin [base : Nat, thread : Threads, control : Controls]
\* the last objects made while the thread ends are freed in a round of their own
ASSUME RoundsAssumption ==
  /\ SkipRounds \in Nat /\ OtherRounds \in Nat /\ DestructorRounds \in Nat
  /\ OtherRounds + SkipRounds < DestructorRounds

VARIABLES
  index,            \* control->object.index of every control, 0 before it has one
  num_object,       \* emutls_num_object
  once,             \* the state of pthread_once
  mutex,            \* the owner of emutls_mutex, or None
  specific,         \* of every thread: the sequence of its array's data, or None
  skip,             \* skip_destructor_rounds of the array
  heap,             \* of every block: what is in it, or None
  pc, control, idx, \* of every thread: where it is, its argument, its local index
  round,            \* where a thread that ends is: 2r - 1 before, 2r after the key's
                    \* destructor ran in round r, 0 while the thread lives
  got,              \* the addresses a thread was given since its array was made
  aborted           \* the process has called abort

shared == <<index, num_object, once, mutex>>
vars == <<shared, specific, skip, heap, pc, control, idx, round, got, aborted>>

-----------------------------------------------------------------------------
(* Allocation *)

\* Mutant: there is no room for the address of the block.
EXTRA_ALIGN_BYTES(align) == align - 1
EXTRA_ALIGN_PTR_BYTES(align) == align - 1 + PtrSize
\* base of emutls_memalign_alloc for the block that malloc returned
AlignedBase(align, object) ==
  ((object + EXTRA_ALIGN_PTR_BYTES(align)) \div align) * align
Alignment(c) == IF AlignOf[c] < PtrSize THEN PtrSize ELSE AlignOf[c]
PowerOf2(n) == \E i \in 0 .. n : n = 2^i
\* alignments are powers of 2, so one that is less than a pointer's divides it
ASSUME AlignAssumption == \A c \in Controls : AlignOf[c] < PtrSize => PtrSize % AlignOf[c] = 0
\* malloc's blocks do not overlap, whatever was asked for
ASSUME DisjointAssumption ==
  \A b, d \in Blocks, c \in Controls :
    b < d => b + EXTRA_ALIGN_PTR_BYTES(Alignment(c)) + SizeOf[c] <= d
\* Mutant: the array has no room for its header.
NewSizeNoHeader(i) == ((i + RoundWords - 1) \div RoundWords) * RoundWords - HeaderWords
emutls_new_data_array_size(i) ==
  ((i + HeaderWords + RoundWords - 1) \div RoundWords) * RoundWords - HeaderWords

Goto(t, where) == pc' = [pc EXCEPT ![t] = where]
FreeBlocks == {b \in Blocks : heap[b] = None}
abort == aborted' = TRUE /\ UNCHANGED <<shared, specific, skip, heap, pc, control, idx, round, got>>

(* __emutls_get_address *)

\* a thread uses a variable: in its life, or in the destructors of other keys
Call(t, c) ==
  /\ pc[t] = "run" \/ (pc[t] = "exit" /\ round[t] <= 2 * OtherRounds)
  /\ control' = [control EXCEPT ![t] = c]
  /\ Goto(t, "load")
  /\ UNCHANGED <<shared, specific, skip, heap, idx, round, got, aborted>>

\* emutls_get_index: the first look, with no lock
LoadIndex(t) ==
  /\ pc[t] = "load"
  /\ idx' = [idx EXCEPT ![t] = index[control[t]]]
  /\ Goto(t, IF index[control[t]] = 0 THEN "once" ELSE "array")
  /\ UNCHANGED <<shared, specific, skip, heap, control, round, got, aborted>>
\* pthread_once runs emutls_init in one thread and holds up the others
emutls_init_once(t) ==
  /\ pc[t] = "once" /\ once = "new"
  /\ once' = "running" /\ Goto(t, "init")
  /\ UNCHANGED <<index, num_object, mutex, specific, skip, heap, control, idx, round, got, aborted>>
emutls_init(t) ==
  /\ pc[t] = "init"
  /\ \/ abort                                            \* pthread_key_create fails
     \/ /\ once' = "done" /\ Goto(t, "lock")
        /\ UNCHANGED <<index, num_object, mutex, specific, skip, heap, control, idx, round, got,
                       aborted>>
\* Mutant: a thread does not wait for the one that makes the key.
InitBegun(t) ==
  /\ pc[t] = "once" /\ once # "new" /\ Goto(t, "lock")
  /\ UNCHANGED <<shared, specific, skip, heap, control, idx, round, got, aborted>>
InitDone(t) ==
  /\ pc[t] = "once" /\ once = "done" /\ Goto(t, "lock")
  /\ UNCHANGED <<shared, specific, skip, heap, control, idx, round, got, aborted>>
emutls_lock(t) ==
  /\ pc[t] = "lock" /\ mutex = None
  /\ mutex' = t /\ Goto(t, "recheck")
  /\ UNCHANGED <<index, num_object, once, specific, skip, heap, control, idx, round, got, aborted>>
\* Mutant: the number of objects is not incremented.
RecheckSameIndex(t) ==
  /\ pc[t] = "recheck"
  /\ IF index[control[t]] # 0
     THEN idx' = [idx EXCEPT ![t] = index[control[t]]] /\ Goto(t, "unlock")
     ELSE idx' = [idx EXCEPT ![t] = num_object + 1] /\ Goto(t, "store")
  /\ UNCHANGED <<shared, specific, skip, heap, control, round, got, aborted>>
\* Mutant: the index is not looked at again under the lock.
RecheckNothing(t) ==
  /\ pc[t] = "recheck"
  /\ num_object' = num_object + 1
  /\ idx' = [idx EXCEPT ![t] = num_object + 1] /\ Goto(t, "store")
  /\ UNCHANGED <<index, once, mutex, specific, skip, heap, control, round, got, aborted>>
Recheck(t) ==
  /\ pc[t] = "recheck"
  /\ IF index[control[t]] # 0
     THEN /\ idx' = [idx EXCEPT ![t] = index[control[t]]] /\ Goto(t, "unlock")
          /\ UNCHANGED num_object
     ELSE /\ num_object' = num_object + 1
          /\ idx' = [idx EXCEPT ![t] = num_object + 1] /\ Goto(t, "store")
  /\ UNCHANGED <<index, once, mutex, specific, skip, heap, control, round, got, aborted>>
StoreIndex(t) ==
  /\ pc[t] = "store"
  /\ index' = [index EXCEPT ![control[t]] = idx[t]] /\ Goto(t, "unlock")
  /\ UNCHANGED <<num_object, once, mutex, specific, skip, heap, control, idx, round, got, aborted>>
\* Mutant: the mutex stays locked.
UnlockNothing(t) ==
  /\ pc[t] = "unlock" /\ Goto(t, "array")
  /\ UNCHANGED <<shared, specific, skip, heap, control, idx, round, got, aborted>>
emutls_unlock(t) ==
  /\ pc[t] = "unlock"
  /\ mutex' = None /\ Goto(t, "array")
  /\ UNCHANGED <<index, num_object, once, specific, skip, heap, control, idx, round, got, aborted>>

\* emutls_get_address_array: the thread's array is made, or made longer; the memory for
\* it may be missing
Zeros(n) == [i \in 1 .. n |-> 0]
SetArray(t, data, rounds) ==
  \/ abort
  \/ /\ specific' = [specific EXCEPT ![t] = data] /\ skip' = [skip EXCEPT ![t] = rounds]
     /\ Goto(t, "slot")
     /\ UNCHANGED <<shared, heap, control, idx, round, got, aborted>>
emutls_get_address_array(t) ==
  LET size == emutls_new_data_array_size(idx[t])
  IN  /\ pc[t] = "array"
      /\ CASE specific[t] = None -> SetArray(t, Zeros(size), SkipRounds)
           [] specific[t] # None /\ idx[t] > Len(specific[t]) ->
                SetArray(t, specific[t] \o Zeros(size - Len(specific[t])), skip[t])
           [] OTHER -> /\ Goto(t, "slot")
                       /\ UNCHANGED <<shared, specific, skip, heap, control, idx, round, got, aborted>>

Contents(t, c, b) == [base |-> AlignedBase(Alignment(c), b), thread |-> t, control |-> c]
\* emutls_allocate_object, if the slot is empty
emutls_allocate_object(t) ==
  /\ pc[t] = "slot" /\ specific[t][idx[t]] = 0
  /\ \/ /\ FreeBlocks = {} \/ ~PowerOf2(Alignment(control[t]))
        /\ abort
     \/ /\ PowerOf2(Alignment(control[t]))
        /\ \E b \in FreeBlocks :
             /\ heap' = [heap EXCEPT ![b] = Contents(t, control[t], b)]
             /\ specific' = [specific EXCEPT ![t][idx[t]] = AlignedBase(Alignment(control[t]), b)]
        /\ Goto(t, "return")
        /\ UNCHANGED <<shared, skip, control, idx, round, got, aborted>>
SlotTaken(t) ==
  /\ pc[t] = "slot" /\ specific[t][idx[t]] # 0 /\ Goto(t, "return")
  /\ UNCHANGED <<shared, specific, skip, heap, control, idx, round, got, aborted>>
Return(t) ==
  /\ pc[t] = "return"
  /\ got' = [got EXCEPT ![t][control[t]] = specific[t][idx[t]]]
  /\ Goto(t, IF round[t] = 0 THEN "run" ELSE "exit")
  /\ control' = [control EXCEPT ![t] = None] /\ idx' = [idx EXCEPT ![t] = 0]
  /\ UNCHANGED <<shared, specific, skip, heap, round, aborted>>

-----------------------------------------------------------------------------
(* The end of a thread.  In every round the key's destructor runs once; before *)
(* it, when round is odd, and after it the destructors of other keys may run.  *)

\* the blocks whose addresses are in the array
Mine(data) == {b \in Blocks : heap[b] # None /\ \E i \in 1 .. Len(data) : data[i] = heap[b].base}
\* Mutant: the last element of the array is forgotten.
ShutdownButLast(t) ==
  heap' = [b \in Blocks |-> IF b \in Mine(SubSeq(specific[t], 1, Len(specific[t]) - 1)) THEN None
                            ELSE heap[b]]
emutls_shutdown(t) ==
  heap' = [b \in Blocks |-> IF b \in Mine(specific[t]) THEN None ELSE heap[b]]
Exit(t) ==
  /\ pc[t] = "run"
  /\ Goto(t, "exit") /\ round' = [round EXCEPT ![t] = 1]
  /\ UNCHANGED <<shared, specific, skip, heap, control, idx, got, aborted>>
emutls_key_destructor(t) ==
  /\ pc[t] = "exit" /\ round[t] % 2 = 1
  /\ round' = [round EXCEPT ![t] = @ + 1]
  /\ IF specific[t] = None THEN UNCHANGED <<specific, skip, heap, got>>
     ELSE IF skip[t] > 0
     THEN skip' = [skip EXCEPT ![t] = @ - 1] /\ UNCHANGED <<specific, heap, got>>
     ELSE /\ emutls_shutdown(t)
          /\ specific' = [specific EXCEPT ![t] = None]
          /\ got' = [got EXCEPT ![t] = [c \in Controls |-> 0]]
          /\ UNCHANGED skip
  /\ UNCHANGED <<shared, pc, control, idx, aborted>>
NextRound(t) ==
  /\ pc[t] = "exit" /\ round[t] % 2 = 0 /\ round[t] < 2 * DestructorRounds
  /\ specific[t] # None \/ round[t] < 2 * OtherRounds
  /\ round' = [round EXCEPT ![t] = @ + 1]
  /\ UNCHANGED <<shared, specific, skip, heap, pc, control, idx, got, aborted>>
Gone(t) ==
  /\ pc[t] = "exit" /\ round[t] % 2 = 0
  /\ specific[t] = None \/ round[t] = 2 * DestructorRounds
  /\ Goto(t, "gone") /\ round' = [round EXCEPT ![t] = 0] /\ skip' = [skip EXCEPT ![t] = 0]
  /\ UNCHANGED <<shared, specific, heap, control, idx, got, aborted>>
\* a new thread
Start(t) ==
  /\ pc[t] = "gone" /\ specific[t] = None /\ Goto(t, "run")
  /\ UNCHANGED <<shared, specific, skip, heap, control, idx, round, got, aborted>>

Init ==
  /\ index = [c \in Controls |-> 0] /\ num_object = 0 /\ once = "new" /\ mutex = None
  /\ specific = [t \in Threads |-> None] /\ skip = [t \in Threads |-> 0]
  /\ heap = [b \in Blocks |-> None]
  /\ pc = [t \in Threads |-> "run"]
  /\ control = [t \in Threads |-> None] /\ idx = [t \in Threads |-> 0]
  /\ round = [t \in Threads |-> 0]
  /\ got = [t \in Threads |-> [c \in Controls |-> 0]]
  /\ aborted = FALSE

emutls_get_index(t) ==
  \/ LoadIndex(t) \/ emutls_init_once(t) \/ emutls_init(t) \/ InitDone(t)
  \/ emutls_lock(t) \/ Recheck(t) \/ StoreIndex(t) \/ emutls_unlock(t)
emutls_get_address(t) ==
  \/ emutls_get_index(t) \/ emutls_get_address_array(t)
  \/ emutls_allocate_object(t) \/ SlotTaken(t) \/ Return(t)
Next ==
  /\ ~aborted
  /\ \E t \in Threads :
       \/ \E c \in Controls : Call(t, c)
       \/ emutls_get_address(t)
       \/ Exit(t) \/ emutls_key_destructor(t) \/ NextRound(t) \/ Gone(t) \/ Start(t)
\* the scheduler runs every thread that can run; a mutex that is free is taken
Fairness == \A t \in Threads : WF_vars(~aborted /\ emutls_get_address(t))
Spec == Init /\ [][Next]_vars /\ Fairness

-----------------------------------------------------------------------------
InCall == {"load", "once", "init", "lock", "recheck", "store", "unlock", "array", "slot", "return"}

(***************************************************************************)
(* No two variables share an index: the number of objects is counted under *)
(* the lock, one for every index that is given (emutls_get_index).         *)
(***************************************************************************)
IndexesUnique ==
  \A c, d \in Controls : index[c] # 0 /\ index[c] = index[d] => c = d

(***************************************************************************)
(* An index, once given, stays: no thread that found no index in its look  *)
(* without the lock replaces the one that another thread has stored since  *)
(* (emutls_get_index).                                                     *)
(***************************************************************************)
IndexStays == [][\A c \in Controls : index[c] # 0 => index'[c] = index[c]]_vars

(***************************************************************************)
(* A thread is given the same address for a variable until its array is    *)
(* destroyed, and the object is still there, whatever other threads and    *)
(* the growth of the array do (__emutls_get_address).                      *)
(***************************************************************************)
AddressStable ==
  \A t \in Threads, c \in Controls :
    got[t][c] # 0 =>
      /\ specific[t] # None /\ index[c] \in 1 .. Len(specific[t])
      /\ specific[t][index[c]] = got[t][c]
      /\ \E b \in Blocks : heap[b] # None /\ heap[b].base = got[t][c]

(***************************************************************************)
(* An object is in the array of the thread it was made for and of no other *)
(* one, and none outlives that array or the thread: nothing leaks and      *)
(* nothing is shared when threads end in any order, also when the          *)
(* destructors of other keys bring variables back to life                  *)
(* (emutls_key_destructor, emutls_shutdown).                               *)
(***************************************************************************)
Holds(t, address) ==
  specific[t] # None /\ \E i \in 1 .. Len(specific[t]) : specific[t][i] = address
ObjectsOwned ==
  \A b \in Blocks : heap[b] # None =>
    /\ pc[heap[b].thread] # "gone"
    /\ \A t \in Threads : Holds(t, heap[b].base) <=> t = heap[b].thread

(***************************************************************************)
(* The index of the variable is inside the array when the array is used    *)
(* (emutls_get_address_array, emutls_new_data_array_size).                 *)
(***************************************************************************)
SlotInArray ==
  \A t \in Threads : pc[t] \in {"slot", "return"} =>
    specific[t] # None /\ idx[t] \in 1 .. Len(specific[t])

(***************************************************************************)
(* An object is aligned as asked and lies, with the word before it that    *)
(* remembers the block, inside the block (emutls_memalign_alloc).          *)
(***************************************************************************)
AlignedInside ==
  \A b \in Blocks : heap[b] # None =>
    LET c == heap[b].control
        end == b + EXTRA_ALIGN_PTR_BYTES(Alignment(c)) + SizeOf[c]
    IN  /\ heap[b].base % AlignOf[c] = 0
        /\ b <= heap[b].base - PtrSize /\ heap[b].base + SizeOf[c] <= end

(***************************************************************************)
(* The key exists before any thread uses it: a thread that finds an index, *)
(* or finds pthread_once busy in another thread, does not run ahead of     *)
(* emutls_init.                                                            *)
(***************************************************************************)
KeyReady ==
  \A t \in Threads :
    pc[t] \in {"lock", "recheck", "store", "unlock", "array", "slot", "return"} => once = "done"

(***************************************************************************)
(* A call of __emutls_get_address returns, unless the process is aborted:  *)
(* no thread waits forever for the key or for the mutex.                   *)
(***************************************************************************)
CallsReturn == \A t \in Threads : pc[t] \in InCall ~> (pc[t] \notin InCall \/ aborted)
=============================================================================
