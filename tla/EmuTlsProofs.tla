---------------------------- MODULE EmuTlsProofs ----------------------------
(***************************************************************************)
(* Proofs about EmuTls, for any threads, variables and memory: the double  *)
(* check of emutls_get_index gives every variable one index of its own, no *)
(* thread uses the key before it is made, the index of a variable is       *)
(* inside the thread's array whenever that array is used, an object is     *)
(* aligned inside its block, belongs to one thread and does not outlive    *)
(* it, and a thread is given one address for a variable.                   *)
(***************************************************************************)
EXTENDS EmuTls, TLAPS

Places == InCall \cup {"run", "exit", "gone"}
Locked == {"recheck", "store", "unlock"}
Types ==
  /\ index \in [Controls -> Nat] /\ num_object \in Nat
  /\ once \in {"new", "running", "done"}
  /\ pc \in [Threads -> Places]
  /\ control = [t \in Threads |-> control[t]]
  /\ idx \in [Threads -> Nat]
  /\ \A t \in Threads : pc[t] \in InCall => control[t] \in Controls
\* who is between emutls_lock and emutls_unlock owns the mutex
Owner == \A t \in Threads : pc[t] \in Locked => mutex = t
\* an index is at most the number of objects, and the one that is about to be stored is new
Counted == \A c \in Controls : index[c] <= num_object
Fresh ==
  \A t \in Threads : pc[t] = "store" =>
    idx[t] = num_object /\ \A c \in Controls : index[c] < idx[t]
IndexInv == Types /\ Owner /\ Counted /\ Fresh /\ IndexesUnique

-----------------------------------------------------------------------------
(* A step that leaves the indexes and their number alone, and takes no     *)
(* thread into the locked part.                                            *)
Outside(t) ==
  \/ \E c \in Controls : Call(t, c)
  \/ LoadIndex(t) \/ emutls_init_once(t) \/ emutls_init(t) \/ InitDone(t)
  \/ emutls_get_address_array(t) \/ emutls_allocate_object(t) \/ SlotTaken(t) \/ Return(t)
  \/ Exit(t) \/ emutls_key_destructor(t) \/ NextRound(t) \/ Gone(t) \/ Start(t)
StepOf(t) ==
  Outside(t) \/ emutls_lock(t) \/ Recheck(t) \/ StoreIndex(t) \/ emutls_unlock(t)
LEMMA StepKinds ==
  ASSUME Next
  PROVE  \E t \in Threads : StepOf(t)
BY DEF Next, emutls_get_address, emutls_get_index, StepOf, Outside

(* What the steps outside the locked part leave alone.                     *)
LEMMA OutsideFacts ==
  ASSUME Types, NEW t \in Threads, Outside(t)
  PROVE  /\ UNCHANGED <<index, num_object, mutex>>
         /\ Types'
         /\ \A u \in Threads : pc'[u] \in Locked => pc[u] \in Locked /\ pc'[u] = pc[u] /\ idx'[u] = idx[u]
<1> USE DEF Types, Goto, shared, abort, Locked, Places, InCall
<1>1. CASE \E c \in Controls : Call(t, c)
  BY <1>1 DEF Call
<1>2. CASE LoadIndex(t)
  BY <1>2 DEF LoadIndex
<1>3. CASE emutls_init_once(t) \/ InitDone(t)
  BY <1>3 DEF emutls_init_once, InitDone
<1>4. CASE emutls_init(t)
  BY <1>4 DEF emutls_init
<1>5. CASE emutls_get_address_array(t)
  BY <1>5 DEF emutls_get_address_array, SetArray
<1>6. CASE emutls_allocate_object(t)
  BY <1>6 DEF emutls_allocate_object
<1>7. CASE SlotTaken(t)
  BY <1>7 DEF SlotTaken
<1>8. CASE Return(t)
  BY <1>8 DEF Return
<1>9. CASE Exit(t) \/ NextRound(t) \/ Start(t) \/ Gone(t)
  BY <1>9 DEF Exit, NextRound, Start, Gone
<1>10. CASE emutls_key_destructor(t)
  BY <1>10 DEF emutls_key_destructor
<1>11. QED
  BY <1>1, <1>2, <1>3, <1>4, <1>5, <1>6, <1>7, <1>8, <1>9, <1>10 DEF Outside

(* Initially no variable has an index; a step gives one only under the     *)
(* mutex, to a variable that has none, and a number that none has.         *)
LEMMA IndexInit == Init => IndexInv
  BY DEF Init, IndexInv, Types, Owner, Counted, Fresh, IndexesUnique, Places, InCall, Locked
LEMMA IndexStep ==
  ASSUME IndexInv, [Next]_vars
  PROVE  IndexInv'
<1> USE DEF IndexInv
<1>1. CASE UNCHANGED vars
  BY <1>1 DEF vars, shared, Types, Owner, Counted, Fresh, IndexesUnique
<1>2. CASE Next
  <2>1. PICK t \in Threads : StepOf(t)
    BY <1>2, StepKinds
  <2>2. CASE Outside(t)
    <3>1. /\ index' = index /\ num_object' = num_object /\ mutex' = mutex /\ Types'
          /\ \A u \in Threads :
               pc'[u] \in Locked => pc[u] \in Locked /\ pc'[u] = pc[u] /\ idx'[u] = idx[u]
      BY <2>2, OutsideFacts
    <3>2. QED
      BY <3>1 DEF Owner, Counted, Fresh, IndexesUnique, Locked
  <2>3. CASE emutls_lock(t)
    <3>1. Types'
      BY <2>3 DEF emutls_lock, Goto, Types, Places, InCall
    <3>2. \A u \in Threads : pc[u] \notin Locked
      BY <2>3, NoneAssumption DEF emutls_lock, Owner
    <3>3. Owner' /\ Counted' /\ Fresh' /\ IndexesUnique'
      BY <2>3, <3>2 DEF emutls_lock, Goto, Types, Owner, Counted, Fresh, IndexesUnique, Locked
    <3>4. QED
      BY <3>1, <3>3
  <2>4. CASE Recheck(t)
    <3>1. mutex = t /\ control[t] \in Controls
      BY <2>4 DEF Recheck, Owner, Locked, Types, InCall
    <3>2. \A u \in Threads : u # t => pc[u] \notin Locked
      BY <3>1 DEF Owner
    <3>3. Types'
      BY <2>4, <3>1 DEF Recheck, Goto, Types, Places, InCall
    <3>4. Owner'
      BY <2>4, <3>1, <3>2 DEF Recheck, Goto, Types, Owner, Locked
    <3>5. Counted' /\ IndexesUnique'
      BY <2>4 DEF Recheck, Types, Counted, IndexesUnique
    <3>6. Fresh'
      BY <2>4, <3>2 DEF Recheck, Goto, Types, Counted, Fresh, Locked
    <3>7. QED
      BY <3>3, <3>4, <3>5, <3>6
  <2>5. CASE StoreIndex(t)
    <3>1. /\ mutex = t /\ control[t] \in Controls
          /\ idx[t] = num_object /\ \A c \in Controls : index[c] < idx[t]
      BY <2>5 DEF StoreIndex, Owner, Fresh, Locked, Types, InCall
    <3>2. \A u \in Threads : u # t => pc[u] \notin Locked
      BY <3>1 DEF Owner
    <3>3. Types'
      BY <2>5, <3>1 DEF StoreIndex, Goto, Types, Places, InCall
    <3>4. Owner' /\ Fresh'
      BY <2>5, <3>1, <3>2 DEF StoreIndex, Goto, Types, Owner, Fresh, Locked
    <3>5. Counted' /\ IndexesUnique'
      BY <2>5, <3>1 DEF StoreIndex, Types, Counted, IndexesUnique
    <3>6. QED
      BY <3>3, <3>4, <3>5
  <2>6. CASE emutls_unlock(t)
    <3>1. mutex = t
      BY <2>6 DEF emutls_unlock, Owner, Locked
    <3>2. \A u \in Threads : u # t => pc[u] \notin Locked
      BY <3>1 DEF Owner
    <3>3. Types'
      BY <2>6 DEF emutls_unlock, Goto, Types, Places, InCall
    <3>4. Owner' /\ Counted' /\ Fresh' /\ IndexesUnique'
      BY <2>6, <3>2 DEF emutls_unlock, Goto, Types, Owner, Counted, Fresh, IndexesUnique, Locked
    <3>5. QED
      BY <3>3, <3>4
  <2>7. QED
    BY <2>1, <2>2, <2>3, <2>4, <2>5, <2>6 DEF StepOf
<1>3. QED
  BY <1>1, <1>2

(* No two variables ever share an index.                                   *)
THEOREM IndexesUniqueTheorem == Spec => []IndexesUnique
<1>1. Init => IndexInv
  BY IndexInit
<1>2. IndexInv /\ [Next]_vars => IndexInv'
  BY IndexStep
<1>3. IndexInv => IndexesUnique
  BY DEF IndexInv
<1>4. QED
  BY <1>1, <1>2, <1>3, PTL DEF Spec

-----------------------------------------------------------------------------
(* The key *)

\* a variable that has an index got it after emutls_init
KeyMade == \A c \in Controls : index[c] # 0 => once = "done"
KeyInv == KeyMade /\ KeyReady

(* A step of any thread keeps the key made before its use.                 *)
LEMMA KeyStep ==
  ASSUME IndexInv, KeyInv, [Next]_vars
  PROVE  KeyInv'
<1> USE DEF IndexInv, KeyInv
<1>1. CASE UNCHANGED vars
  BY <1>1 DEF vars, shared, KeyMade, KeyReady
<1>2. CASE Next
  <2>1. PICK t \in Threads : StepOf(t)
    BY <1>2, StepKinds
  <2>2. CASE emutls_init_once(t)
    BY <2>2 DEF emutls_init_once, Goto, Types, KeyMade, KeyReady
  <2>3. CASE emutls_init(t)
    BY <2>3 DEF emutls_init, abort, shared, Goto, Types, KeyMade, KeyReady
  <2>4. CASE LoadIndex(t)
    <3>1. control[t] \in Controls
      BY <2>4 DEF LoadIndex, Types, InCall
    <3>2. QED
      BY <2>4, <3>1 DEF LoadIndex, shared, Goto, Types, KeyMade, KeyReady
  <2>5. CASE InitDone(t)
    BY <2>5 DEF InitDone, shared, Goto, Types, KeyMade, KeyReady
  <2>6. CASE \E c \in Controls : Call(t, c)
    BY <2>6 DEF Call, shared, Goto, Types, KeyMade, KeyReady
  <2>7. CASE emutls_get_address_array(t)
    BY <2>7 DEF emutls_get_address_array, SetArray, abort, shared, Goto, Types, KeyMade, KeyReady
  <2>8. CASE emutls_allocate_object(t)
    BY <2>8 DEF emutls_allocate_object, abort, shared, Goto, Types, KeyMade, KeyReady
  <2>9. CASE SlotTaken(t) \/ Return(t)
    BY <2>9 DEF SlotTaken, Return, shared, Goto, Types, KeyMade, KeyReady
  <2>10. CASE Exit(t) \/ NextRound(t) \/ Start(t) \/ Gone(t)
    BY <2>10 DEF Exit, NextRound, Start, Gone, shared, Goto, Types, KeyMade, KeyReady
  <2>11. CASE emutls_key_destructor(t)
    BY <2>11 DEF emutls_key_destructor, shared, KeyMade, KeyReady
  <2>12. CASE emutls_lock(t)
    BY <2>12 DEF emutls_lock, Goto, Types, KeyMade, KeyReady
  <2>13. CASE Recheck(t)
    BY <2>13 DEF Recheck, Goto, Types, KeyMade, KeyReady
  <2>14. CASE StoreIndex(t)
    BY <2>14 DEF StoreIndex, Goto, Types, KeyMade, KeyReady
  <2>15. CASE emutls_unlock(t)
    BY <2>15 DEF emutls_unlock, Goto, Types, KeyMade, KeyReady
  <2>16. QED
    BY <2>1, <2>2, <2>3, <2>4, <2>5, <2>6, <2>7, <2>8, <2>9, <2>10, <2>11, <2>12, <2>13, <2>14, <2>15
       DEF StepOf, Outside
<1>3. QED
  BY <1>1, <1>2

(* No thread is past pthread_once, or past an index found without the      *)
(* lock, before emutls_init has made the key.                              *)
THEOREM KeyReadyTheorem == Spec => []KeyReady
<1>1. Init => IndexInv /\ KeyInv
  BY IndexInit DEF Init, KeyInv, KeyMade, KeyReady
<1>2. IndexInv /\ KeyInv /\ [Next]_vars => (IndexInv /\ KeyInv)'
  BY IndexStep, KeyStep
<1>3. KeyInv => KeyReady
  BY DEF KeyInv
<1>4. QED
  BY <1>1, <1>2, <1>3, PTL DEF Spec

-----------------------------------------------------------------------------
(* The arrays *)

(* The array that is made or grown for an index has a place for it.        *)
LEMMA RoundUp ==
  ASSUME NEW n \in Nat, NEW r \in Nat \ {0}
  PROVE  ((n + r - 1) \div r) * r \in Nat /\ ((n + r - 1) \div r) * r >= n
<1> DEFINE m == n + r - 1
           q == m \div r
<1>1. m \in Nat
  OBVIOUS
<1>2. q \in Nat /\ q * r + (m % r) = m /\ m % r < r
  BY <1>1
<1>3. q * r \in Nat
  BY <1>2
<1>4. QED
  BY <1>2, <1>3
LEMMA ArraySize ==
  ASSUME NEW i \in Nat \ {0}
  PROVE  emutls_new_data_array_size(i) \in Nat /\ emutls_new_data_array_size(i) >= i
<1> DEFINE n == i + HeaderWords
           s == ((n + RoundWords - 1) \div RoundWords) * RoundWords
<1>1. n \in Nat /\ RoundWords \in Nat \ {0} /\ HeaderWords \in Nat
  BY ControlsAssumption
<1>2. s \in Nat /\ s >= n
  BY <1>1, RoundUp
<1>3. emutls_new_data_array_size(i) = s - HeaderWords
  BY DEF emutls_new_data_array_size
<1>4. HIDE DEF s
<1>5. QED
  BY <1>1, <1>2, <1>3

\* a thread's array is an array, a thread that has an index has one that is not 0, and the
\* index is inside the array
Given == {"store", "unlock", "array", "slot", "return"}
SlotOf(t) ==
  /\ specific[t] = None \/ specific[t] \in Seq(Nat)
  /\ pc[t] \in Given => idx[t] # 0
  /\ pc[t] \in {"slot", "return"} => specific[t] # None /\ idx[t] \in 1 .. Len(specific[t])
Arrays == specific = [t \in Threads |-> specific[t]]
SlotInv == Arrays /\ \A t \in Threads : SlotOf(t)

(* The address of an object is a number.                                   *)
LEMMA BaseType ==
  ASSUME NEW c \in Controls, NEW b \in Blocks
  PROVE  AlignedBase(Alignment(c), b) \in Nat
<1>1. Alignment(c) \in Nat \ {0} /\ PtrSize \in Nat \ {0} /\ b \in Nat
  BY ControlsAssumption, BlocksAssumption DEF Alignment
<1>2. \A a \in Nat \ {0}, n \in Nat : (n \div a) \in Nat /\ (n \div a) * a \in Nat
  OBVIOUS
<1>3. b + EXTRA_ALIGN_PTR_BYTES(Alignment(c)) \in Nat
  BY <1>1 DEF EXTRA_ALIGN_PTR_BYTES
<1>4. QED
  BY <1>1, <1>2, <1>3 DEF AlignedBase

(* What a step leaves of the array and of the place of another thread.     *)
LEMMA OtherArrays ==
  ASSUME Types, Arrays, NEW t \in Threads, StepOf(t), NEW u \in Threads, u # t
  PROVE  pc'[u] = pc[u] /\ idx'[u] = idx[u] /\ specific'[u] = specific[u]
<1> USE DEF Types, Arrays, Goto, abort
<1>1. CASE emutls_lock(t) \/ Recheck(t) \/ StoreIndex(t) \/ emutls_unlock(t)
  BY <1>1 DEF emutls_lock, Recheck, StoreIndex, emutls_unlock
<1>2. CASE emutls_get_address_array(t)
  BY <1>2 DEF emutls_get_address_array, SetArray
<1>3. CASE emutls_allocate_object(t)
  BY <1>3 DEF emutls_allocate_object
<1>4. CASE emutls_key_destructor(t)
  BY <1>4 DEF emutls_key_destructor
<1>5. CASE Exit(t) \/ NextRound(t) \/ Start(t) \/ Gone(t)
  BY <1>5 DEF Exit, NextRound, Start, Gone
<1>6. CASE emutls_init(t)
  BY <1>6 DEF emutls_init
<1>7. CASE \/ (\E c \in Controls : Call(t, c)) \/ LoadIndex(t) \/ emutls_init_once(t) \/ InitDone(t)
           \/ SlotTaken(t) \/ Return(t)
  BY <1>7 DEF Call, LoadIndex, emutls_init_once, InitDone, SlotTaken, Return
<1>8. QED
  BY <1>1, <1>2, <1>3, <1>4, <1>5, <1>6, <1>7 DEF StepOf, Outside

(* A step keeps the array of its own thread large enough.                  *)
LEMMA OwnArray ==
  ASSUME IndexInv, SlotInv, NEW t \in Threads, StepOf(t)
  PROVE  Arrays' /\ SlotOf(t)'
<1> USE DEF IndexInv, SlotInv
<1>1. SlotOf(t) /\ idx[t] \in Nat /\ (pc[t] \in InCall => control[t] \in Controls)
  BY DEF Types
<1>2. CASE emutls_get_address_array(t)
  <2> DEFINE size == emutls_new_data_array_size(idx[t])
  <2>1. pc[t] = "array" /\ idx[t] \in Nat \ {0}
    BY <1>1, <1>2 DEF emutls_get_address_array, SlotOf, Given
  <2>2. size \in Nat /\ size >= idx[t]
    BY <2>1, ArraySize
  <2>3. ASSUME NEW n \in Nat
        PROVE  Zeros(n) \in Seq(Nat) /\ Len(Zeros(n)) = n
    BY DEF Zeros
  <2>4. ASSUME NEW data \in Seq(Nat), Len(data) >= idx[t], NEW rounds, SetArray(t, data, rounds)
        PROVE  Arrays' /\ SlotOf(t)'
    <3>1. CASE abort
      BY <1>1, <3>1 DEF abort, Arrays, SlotOf
    <3>2. CASE /\ specific' = [specific EXCEPT ![t] = data]
               /\ Goto(t, "slot") /\ UNCHANGED idx
      <4>1. Arrays' /\ specific'[t] = data /\ pc'[t] = "slot" /\ idx'[t] = idx[t]
        BY <3>2 DEF Arrays, Goto, Types
      <4>2. data # None
        BY NoneAssumption
      <4>3. QED
        BY <2>1, <2>4, <4>1, <4>2 DEF SlotOf
    <3>3. QED
      BY <2>4, <3>1, <3>2 DEF SetArray
  <2>5. CASE specific[t] = None
    BY <1>2, <2>2, <2>3, <2>4, <2>5 DEF emutls_get_address_array
  <2>6. CASE specific[t] # None /\ idx[t] > Len(specific[t])
    <3> DEFINE s == specific[t]
               z == Zeros(size - Len(s))
    <3>1. s \in Seq(Nat) /\ Len(s) \in Nat
      BY <1>1, <2>6 DEF SlotOf
    <3>2. size - Len(s) \in Nat
      BY <2>1, <2>2, <2>6, <3>1
    <3>3. z \in Seq(Nat) /\ Len(z) = size - Len(s)
      BY <2>3, <3>2
    <3>4. s \o z \in Seq(Nat) /\ Len(s \o z) = Len(s) + Len(z)
      BY <3>1, <3>3
    <3>5. Len(s \o z) >= idx[t]
      <4> HIDE DEF s, z, size
      <4>1. Len(s \o z) = size
        BY <2>2, <3>1, <3>3, <3>4
      <4>2. QED
        BY <2>2, <4>1
    <3>6. SetArray(t, s \o z, skip[t])
      BY <1>2, <2>6 DEF emutls_get_address_array
    <3>7. QED
      BY <2>4, <3>4, <3>5, <3>6
  <2>7. CASE specific[t] # None /\ ~(idx[t] > Len(specific[t]))
    <3>1. specific' = specific /\ idx' = idx /\ pc'[t] = "slot"
      BY <1>2, <2>7 DEF emutls_get_address_array, Goto, Types
    <3>2. specific[t] \in Seq(Nat) /\ Len(specific[t]) \in Nat
      BY <1>1, <2>7 DEF SlotOf
    <3>3. idx[t] \in 1 .. Len(specific[t])
      BY <2>1, <2>7, <3>2
    <3>4. QED
      BY <1>1, <2>7, <3>1, <3>2, <3>3, <2>1 DEF Arrays, SlotOf
  <2>8. QED
    BY <2>5, <2>6, <2>7
<1>3. CASE emutls_allocate_object(t)
  <2>1. CASE abort
    BY <1>1, <2>1 DEF abort, Arrays, SlotOf
  <2>2. CASE ~abort
    <3>1. PICK b \in Blocks :
            specific' = [specific EXCEPT ![t][idx[t]] = AlignedBase(Alignment(control[t]), b)]
      BY <1>3, <2>2 DEF emutls_allocate_object, FreeBlocks
    <3>2. pc[t] = "slot" /\ pc'[t] = "return" /\ idx' = idx
      BY <1>3, <2>2 DEF emutls_allocate_object, Goto, Types
    <3>3. AlignedBase(Alignment(control[t]), b) \in Nat
      BY <1>1, <3>2, BaseType DEF InCall
    <3>4. specific[t] \in Seq(Nat) /\ idx[t] \in 1 .. Len(specific[t]) /\ idx[t] # 0
      BY <1>1, <3>2 DEF SlotOf, Given
    <3>5. specific'[t] = [specific[t] EXCEPT ![idx[t]] = AlignedBase(Alignment(control[t]), b)]
      BY <3>1 DEF Arrays
    <3>6. specific'[t] \in Seq(Nat) /\ Len(specific'[t]) = Len(specific[t])
      BY <3>3, <3>4, <3>5
    <3>7. specific'[t] # None
      BY <3>6, NoneAssumption
    <3>8. Arrays'
      BY <3>1 DEF Arrays
    <3>9. QED
      BY <3>2, <3>4, <3>6, <3>7, <3>8 DEF SlotOf
  <2>3. QED
    BY <2>1, <2>2
<1>4. CASE emutls_key_destructor(t)
  <2>1. Arrays' /\ pc[t] = "exit" /\ pc' = pc /\ (specific'[t] = specific[t] \/ specific'[t] = None)
    BY <1>4 DEF emutls_key_destructor, Arrays
  <2>2. QED
    BY <1>1, <2>1 DEF SlotOf, Given
<1>5. CASE emutls_init(t) /\ abort
  BY <1>1, <1>5 DEF abort, Arrays, SlotOf
<1>6. CASE emutls_init(t) /\ ~abort
  BY <1>1, <1>6 DEF emutls_init, Goto, Types, Arrays, SlotOf, Given
<1>7. CASE \/ (\E c \in Controls : Call(t, c)) \/ emutls_init_once(t) \/ InitDone(t) \/ emutls_lock(t)
           \/ Exit(t) \/ NextRound(t) \/ Gone(t) \/ Start(t) \/ Return(t)
  <2>1. specific' = specific /\ pc'[t] \notin Given
    BY <1>7 DEF Call, emutls_init_once, InitDone, emutls_lock, Exit, NextRound, Gone, Start, Return, Goto,
                Types, Given
  <2>2. QED
    BY <1>1, <2>1 DEF Arrays, SlotOf, Given
<1>8. CASE LoadIndex(t) \/ Recheck(t) \/ StoreIndex(t) \/ emutls_unlock(t)
  <2>1. specific' = specific /\ pc'[t] \notin {"slot", "return"} /\ (pc'[t] \in Given => idx'[t] # 0)
    BY <1>1, <1>8 DEF LoadIndex, Recheck, StoreIndex, emutls_unlock, Goto, Types, SlotOf, Given, InCall
  <2>2. QED
    BY <1>1, <2>1 DEF Arrays, SlotOf
<1>9. CASE SlotTaken(t)
  BY <1>1, <1>9 DEF SlotTaken, Goto, Types, Arrays, SlotOf, Given
<1>10. QED
  BY <1>2, <1>3, <1>4, <1>5, <1>6, <1>7, <1>8, <1>9 DEF StepOf, Outside

(* A step of any thread keeps the indexes inside the arrays.               *)
LEMMA SlotStep ==
  ASSUME IndexInv, SlotInv, [Next]_vars
  PROVE  SlotInv'
<1>1. CASE UNCHANGED vars
  BY <1>1 DEF vars, SlotInv, Arrays, SlotOf
<1>2. CASE Next
  <2>1. PICK t \in Threads : StepOf(t)
    BY <1>2, StepKinds
  <2>2. Arrays' /\ SlotOf(t)'
    BY <2>1, OwnArray
  <2>3. ASSUME NEW u \in Threads, u # t PROVE SlotOf(u)'
    <3>1. pc'[u] = pc[u] /\ idx'[u] = idx[u] /\ specific'[u] = specific[u]
      BY <2>1, <2>3, OtherArrays DEF IndexInv, SlotInv
    <3>2. QED
      BY <3>1 DEF SlotInv, SlotOf
  <2>4. QED
    BY <2>2, <2>3 DEF SlotInv
<1>3. QED
  BY <1>1, <1>2

(* Whatever the sizes of the header and of the rounding, the array that a  *)
(* thread uses has a place for the index it uses.                          *)
THEOREM SlotInArrayTheorem == Spec => []SlotInArray
<1>1. Init => IndexInv /\ SlotInv
  <2>1. Init => SlotInv
    BY DEF Init, SlotInv, Arrays, SlotOf, Given
  <2>2. QED
    BY <2>1, IndexInit
<1>2. IndexInv /\ SlotInv /\ [Next]_vars => (IndexInv /\ SlotInv)'
  BY IndexStep, SlotStep
<1>3. SlotInv => SlotInArray
  BY DEF SlotInv, SlotOf, SlotInArray
<1>4. QED
  BY <1>1, <1>2, <1>3, PTL DEF Spec

-----------------------------------------------------------------------------
(* The objects *)

\* what emutls_memalign_alloc made of a block
Objects ==
  /\ heap = [b \in Blocks |-> heap[b]]
  /\ \A b \in Blocks : heap[b] # None =>
       /\ heap[b].thread \in Threads /\ heap[b].control \in Controls
       /\ heap[b].base = AlignedBase(Alignment(heap[b].control), b)
\* the index a thread took with it is the variable's, and a variable that is about to get one
\* has none
Kept == {"unlock", "array", "slot", "return"}
Indexed ==
  \A t \in Threads :
    /\ pc[t] \in Kept => idx[t] = index[control[t]]
    /\ pc[t] = "store" => index[control[t]] = 0
\* an object is in the array of its thread, at the index of its variable
At(t, c, address) ==
  /\ specific[t] # None /\ index[c] \in 1 .. Len(specific[t])
  /\ specific[t][index[c]] = address
Owned ==
  \A b \in Blocks : heap[b] # None => At(heap[b].thread, heap[b].control, heap[b].base)
\* an address in an array is that of an object of its thread
Backs(b, t, address) == heap[b] # None /\ heap[b].thread = t /\ heap[b].base = address
Backed ==
  \A t \in Threads : specific[t] # None =>
    \A i \in 1 .. Len(specific[t]) :
      specific[t][i] # 0 => \E b \in Blocks : Backs(b, t, specific[t][i])
\* an address that a thread was given is still in its array
Handed ==
  /\ got \in [Threads -> [Controls -> Nat]]
  /\ \A t \in Threads, c \in Controls : got[t][c] # 0 => At(t, c, got[t][c])
\* the rounds that are left are enough for the ones that are skipped
RoundOf(t) ==
  /\ round[t] \in Nat /\ skip[t] \in Nat /\ skip[t] <= SkipRounds
  /\ pc[t] \in {"run", "gone"} => round[t] = 0
  /\ pc[t] = "exit" => round[t] # 0
  /\ pc[t] \in InCall => round[t] <= 2 * OtherRounds
  /\ specific[t] # None /\ round[t] # 0 => skip[t] + (round[t] \div 2) < DestructorRounds
  /\ pc[t] = "gone" => specific[t] = None
Rounds ==
  /\ round = [t \in Threads |-> round[t]] /\ skip = [t \in Threads |-> skip[t]]
  /\ \A t \in Threads : RoundOf(t)
ObjectInv == Objects /\ Indexed /\ Owned /\ Backed /\ Handed /\ Rounds

(* An object lies in its block, after the word that remembers the block,   *)
(* and at a multiple of the variable's alignment.                          *)
LEMMA BaseBounds ==
  ASSUME NEW c \in Controls, NEW b \in Blocks
  PROVE  LET base == AlignedBase(Alignment(c), b)
         IN  /\ base \in Nat /\ b + PtrSize <= base
             /\ base <= b + EXTRA_ALIGN_PTR_BYTES(Alignment(c))
             /\ base % AlignOf[c] = 0
<1> DEFINE A == Alignment(c)
           m == b + EXTRA_ALIGN_PTR_BYTES(A)
           q == m \div A
<1>1. A \in Nat \ {0} /\ PtrSize \in Nat \ {0} /\ b \in Nat /\ AlignOf[c] \in Nat \ {0}
  BY ControlsAssumption, BlocksAssumption DEF Alignment
<1>2. EXTRA_ALIGN_PTR_BYTES(A) = A - 1 + PtrSize
  BY DEF EXTRA_ALIGN_PTR_BYTES
<1>3. m \in Nat /\ m = b + (A - 1) + PtrSize
  BY <1>1, <1>2
<1>4. AlignedBase(A, b) = q * A
  BY DEF AlignedBase
<1>5. \A M \in Nat \ {0}, n \in Nat :
        (n \div M) \in Nat /\ (n \div M) * M \in Nat /\ (n \div M) * M + (n % M) = n /\ n % M \in 0 .. M - 1
  OBVIOUS
<1>6. q \in Nat /\ q * A \in Nat /\ q * A + (m % A) = m /\ m % A \in 0 .. A - 1
  <2> HIDE DEF A, m
  <2> QED  BY <1>1, <1>3, <1>5
<1>7. b + PtrSize <= q * A /\ q * A <= m
  <2> HIDE DEF A, m, q
  <2>1. \A x \in Nat : x + (m % A) = m => b + PtrSize <= x /\ x <= m
    BY <1>1, <1>3, <1>6
  <2> QED  BY <1>6, <2>1
<1>8. (q * A) % AlignOf[c] = 0
  <2>0. \A M \in Nat \ {0}, n \in Nat : (n * M) % M = 0
    OBVIOUS
  <2>1. CASE AlignOf[c] >= PtrSize
    <3>1. A = AlignOf[c]
      BY <1>1, <2>1 DEF Alignment
    <3> HIDE DEF q
    <3> QED  BY <1>1, <1>6, <2>0, <3>1
  <2>2. CASE AlignOf[c] < PtrSize
    <3>1. A = PtrSize /\ PtrSize % AlignOf[c] = 0
      BY <2>2, AlignAssumption DEF Alignment
    <3> DEFINE k == PtrSize \div AlignOf[c]
               d == AlignOf[c]
    <3>2. k \in Nat /\ k * d + (PtrSize % d) = PtrSize /\ k * d \in Nat
      BY <1>1, <1>5
    <3>3. A = k * d
      BY <3>1, <3>2
    <3> HIDE DEF k, q, A, d
    <3>4. q * (k * d) = (q * k) * d /\ q * k \in Nat
      BY <1>6, <1>1, <3>2 DEF d
    <3>5. ((q * k) * d) % d = 0
      BY <1>1, <2>0, <3>4 DEF d
    <3>6. (q * A) % d = 0
      BY <3>3, <3>4, <3>5
    <3> QED  BY <3>6 DEF d
  <2> QED  BY <1>1, <2>1, <2>2
<1> QED
  BY <1>4, <1>6, <1>7, <1>8

(* No two blocks give the same address, and none gives 0.                  *)
LEMMA BasesApart ==
  ASSUME NEW b \in Blocks, NEW d \in Blocks, NEW c \in Controls, NEW e \in Controls,
         AlignedBase(Alignment(c), b) = AlignedBase(Alignment(e), d)
  PROVE  b = d
<1>1. b \in Nat /\ d \in Nat /\ PtrSize \in Nat /\ SizeOf[c] \in Nat /\ SizeOf[e] \in Nat
      /\ EXTRA_ALIGN_PTR_BYTES(Alignment(c)) \in Nat /\ EXTRA_ALIGN_PTR_BYTES(Alignment(e)) \in Nat
  BY ControlsAssumption, BlocksAssumption DEF EXTRA_ALIGN_PTR_BYTES, Alignment
<1>2. PtrSize > 0
  BY ControlsAssumption
<1> DEFINE x == AlignedBase(Alignment(c), b)
<1>3. /\ x \in Nat /\ b + PtrSize <= x /\ x <= b + EXTRA_ALIGN_PTR_BYTES(Alignment(c))
      /\ d + PtrSize <= x /\ x <= d + EXTRA_ALIGN_PTR_BYTES(Alignment(e))
  BY BaseBounds
<1>4. b < d => b + EXTRA_ALIGN_PTR_BYTES(Alignment(c)) + SizeOf[c] <= d
  BY DisjointAssumption
<1>5. d < b => d + EXTRA_ALIGN_PTR_BYTES(Alignment(e)) + SizeOf[e] <= b
  BY DisjointAssumption
<1> HIDE DEF x
<1> QED
  BY <1>1, <1>2, <1>3, <1>4, <1>5
LEMMA BaseNotZero ==
  ASSUME NEW c \in Controls, NEW b \in Blocks
  PROVE  AlignedBase(Alignment(c), b) # 0
<1>1. b \in Nat /\ PtrSize \in Nat \ {0}
  BY ControlsAssumption, BlocksAssumption
<1> QED  BY <1>1, BaseBounds

(* What a step leaves of the locals of another thread.                     *)
LEMMA OtherLocals ==
  ASSUME Types, Rounds, Handed, NEW t \in Threads, StepOf(t), NEW u \in Threads, u # t
  PROVE  /\ control'[u] = control[u] /\ round'[u] = round[u] /\ skip'[u] = skip[u]
         /\ got'[u] = got[u]
<1> USE DEF Types, Rounds, Handed, Goto, abort
<1>1. CASE emutls_lock(t) \/ Recheck(t) \/ StoreIndex(t) \/ emutls_unlock(t)
  BY <1>1 DEF emutls_lock, Recheck, StoreIndex, emutls_unlock
<1>2. CASE emutls_get_address_array(t)
  BY <1>2 DEF emutls_get_address_array, SetArray
<1>3. CASE emutls_allocate_object(t)
  BY <1>3 DEF emutls_allocate_object
<1>4. CASE emutls_key_destructor(t)
  BY <1>4 DEF emutls_key_destructor
<1>5. CASE Exit(t) \/ NextRound(t) \/ Start(t) \/ Gone(t)
  BY <1>5 DEF Exit, NextRound, Start, Gone
<1>6. CASE emutls_init(t)
  BY <1>6 DEF emutls_init
<1>7. CASE \/ (\E c \in Controls : Call(t, c)) \/ LoadIndex(t) \/ emutls_init_once(t) \/ InitDone(t)
           \/ SlotTaken(t) \/ Return(t)
  BY <1>7 DEF Call, LoadIndex, emutls_init_once, InitDone, SlotTaken, Return
<1>8. QED
  BY <1>1, <1>2, <1>3, <1>4, <1>5, <1>6, <1>7 DEF StepOf, Outside

(* An index that a variable has stays, and the thread that stores one is   *)
(* alone.                                                                  *)
LEMMA IndexKept ==
  ASSUME IndexInv, Indexed, NEW t \in Threads, StepOf(t), NEW c \in Controls, index[c] # 0
  PROVE  index'[c] = index[c]
<1>1. CASE Outside(t)
  BY <1>1, OutsideFacts DEF IndexInv
<1>2. CASE emutls_lock(t) \/ Recheck(t) \/ emutls_unlock(t)
  BY <1>2 DEF emutls_lock, Recheck, emutls_unlock
<1>3. CASE StoreIndex(t)
  BY <1>3 DEF StoreIndex, Indexed, IndexInv, Types
<1> QED  BY <1>1, <1>2, <1>3 DEF StepOf

(* Initially and after every step: the indexes that threads took along.    *)
LEMMA IndexedStep ==
  ASSUME IndexInv, SlotInv, Indexed, Rounds, Handed, NEW t \in Threads, StepOf(t)
  PROVE  Indexed'
<1> USE DEF IndexInv
<1>1. ASSUME NEW u \in Threads, u # t
      PROVE  /\ pc'[u] \in Kept => idx'[u] = index'[control'[u]]
             /\ pc'[u] = "store" => index'[control'[u]] = 0
  <2>1. pc'[u] = pc[u] /\ idx'[u] = idx[u] /\ control'[u] = control[u]
    BY <1>1, OtherArrays, OtherLocals DEF SlotInv
  <2>2. CASE pc[u] \in Kept
    <3>1. idx[u] # 0 /\ idx[u] = index[control[u]] /\ control[u] \in Controls
      BY <2>2 DEF SlotInv, SlotOf, Given, Kept, Indexed, Types, InCall
    <3>2. index'[control[u]] = index[control[u]]
      BY <3>1, IndexKept
    <3> QED  BY <2>1, <2>2, <3>1, <3>2 DEF Kept
  <2>3. CASE pc[u] = "store"
    <3>1. mutex = u /\ index[control[u]] = 0
      BY <2>3 DEF Owner, Locked, Indexed
    <3>2. ~StoreIndex(t)
      BY <1>1, <3>1 DEF StoreIndex, Owner, Locked
    <3>3. index' = index
      BY <3>2, OutsideFacts DEF StepOf, emutls_lock, Recheck, emutls_unlock
    <3> QED  BY <2>1, <2>3, <3>1, <3>3 DEF Kept
  <2> QED  BY <2>1, <2>2, <2>3
<1>2. /\ pc'[t] \in Kept => idx'[t] = index'[control'[t]]
      /\ pc'[t] = "store" => index'[control'[t]] = 0
  <2> USE DEF Types, Goto, Kept, InCall, Indexed
  <2>1. CASE emutls_lock(t) \/ Recheck(t) \/ emutls_unlock(t)
    BY <2>1 DEF emutls_lock, Recheck, emutls_unlock
  <2>2. CASE StoreIndex(t)
    BY <2>2 DEF StoreIndex
  <2>3. CASE LoadIndex(t)
    BY <2>3 DEF LoadIndex, shared
  <2>4. CASE \/ (\E c \in Controls : Call(t, c)) \/ emutls_init_once(t) \/ InitDone(t) \/ Return(t)
             \/ Exit(t) \/ NextRound(t) \/ Start(t) \/ Gone(t) \/ emutls_key_destructor(t)
    <3>1. pc'[t] \notin Kept /\ pc'[t] # "store"
      BY <2>4 DEF Call, emutls_init_once, InitDone, Exit, NextRound, Start, Gone, emutls_key_destructor, Return
    <3> QED  BY <3>1
  <2>5. CASE emutls_init(t)
    BY <2>5 DEF emutls_init, abort, shared
  <2>6. CASE emutls_get_address_array(t)
    BY <2>6 DEF emutls_get_address_array, SetArray, abort, shared
  <2>7. CASE emutls_allocate_object(t)
    BY <2>7 DEF emutls_allocate_object, abort, shared
  <2>8. CASE SlotTaken(t)
    BY <2>8 DEF SlotTaken, shared
  <2> QED
    BY <2>1, <2>2, <2>3, <2>4, <2>5, <2>6, <2>7, <2>8 DEF StepOf, Outside
<1> QED
  BY <1>1, <1>2 DEF Indexed

(* The rounds: a skipped round is paid for by the round that passes.       *)
LEMMA HalfRounds ==
  ASSUME NEW r \in Nat
  PROVE  /\ (r \div 2) \in Nat /\ (r \div 2) <= r
         /\ r % 2 = 1 => ((r + 1) \div 2) = (r \div 2) + 1
         /\ r % 2 # 1 => ((r + 1) \div 2) = r \div 2
         /\ r % 2 = 0 \/ r % 2 = 1
OBVIOUS
LEMMA RoundsStep ==
  ASSUME IndexInv, SlotInv, Rounds, Handed, NEW t \in Threads, StepOf(t)
  PROVE  Rounds'
<1> USE DEF IndexInv
<1>0. RoundOf(t) /\ SkipRounds \in Nat /\ OtherRounds \in Nat /\ DestructorRounds \in Nat
      /\ OtherRounds + SkipRounds < DestructorRounds
  BY RoundsAssumption DEF Rounds
<1>1. ASSUME NEW u \in Threads, u # t PROVE RoundOf(u)'
  <2>1. pc'[u] = pc[u] /\ specific'[u] = specific[u] /\ round'[u] = round[u] /\ skip'[u] = skip[u]
    BY <1>1, OtherArrays, OtherLocals DEF SlotInv
  <2> QED  BY <2>1 DEF Rounds, RoundOf
<1>2. RoundOf(t)' /\ (round = [u \in Threads |-> round[u]])' /\ (skip = [u \in Threads |-> skip[u]])'
  <2> USE DEF Types, Goto, InCall, Rounds
  <2>1. CASE \/ LoadIndex(t) \/ emutls_init_once(t) \/ InitDone(t) \/ SlotTaken(t)
             \/ emutls_lock(t) \/ Recheck(t) \/ StoreIndex(t) \/ emutls_unlock(t)
    <3>1. /\ pc[t] \in InCall /\ pc'[t] \in InCall
          /\ specific' = specific /\ round' = round /\ skip' = skip
      BY <2>1 DEF LoadIndex, emutls_init_once, InitDone, SlotTaken, emutls_lock, Recheck, StoreIndex,
                  emutls_unlock
    <3> QED  BY <1>0, <3>1 DEF RoundOf
  <2>2. CASE \E c \in Controls : Call(t, c)
    <3>1. /\ pc[t] \in {"run", "exit"} /\ (pc[t] = "exit" => round[t] <= 2 * OtherRounds)
          /\ pc'[t] = "load" /\ specific' = specific /\ round' = round /\ skip' = skip
      BY <2>2 DEF Call
    <3> QED  BY <1>0, <3>1 DEF RoundOf
  <2>3. CASE emutls_init(t)
    <3>1. /\ pc[t] \in InCall /\ pc'[t] \in InCall
          /\ specific' = specific /\ round' = round /\ skip' = skip
      BY <2>3 DEF emutls_init, abort
    <3> QED  BY <1>0, <3>1 DEF RoundOf
  <2>4. CASE emutls_get_address_array(t)
    <3>1. /\ pc[t] \in InCall /\ pc'[t] \in InCall /\ round' = round
          /\ skip' = [u \in Threads |-> skip'[u]]
          /\ skip'[t] = skip[t] \/ (skip'[t] = SkipRounds)
          /\ specific[t] # None => skip'[t] = skip[t]
          /\ specific'[t] # None => specific[t] # None \/ skip'[t] = SkipRounds
      BY <2>4 DEF emutls_get_address_array, SetArray, abort
    <3>2. specific[t] = None /\ specific'[t] # None => skip'[t] + (round[t] \div 2) < DestructorRounds
      BY <1>0, <3>1, HalfRounds DEF RoundOf
    <3> QED  BY <1>0, <3>1, <3>2 DEF RoundOf
  <2>5. CASE emutls_allocate_object(t)
    <3>0. specific[t] # None
      BY <2>5 DEF emutls_allocate_object, SlotInv, SlotOf
    <3>1. pc[t] \in InCall /\ pc'[t] \in InCall /\ round' = round /\ skip' = skip
      BY <2>5 DEF emutls_allocate_object, abort
    <3> QED  BY <1>0, <3>0, <3>1 DEF RoundOf
  <2>6. CASE Return(t)
    <3>1. /\ pc[t] \in InCall /\ pc'[t] = (IF round[t] = 0 THEN "run" ELSE "exit")
          /\ specific' = specific /\ round' = round /\ skip' = skip
      BY <2>6 DEF Return
    <3> QED  BY <1>0, <3>1 DEF RoundOf
  <2>7. CASE Exit(t)
    <3>1. /\ pc'[t] = "exit" /\ specific' = specific /\ skip' = skip
          /\ round'[t] = 1 /\ round' = [u \in Threads |-> round'[u]]
      BY <2>7 DEF Exit
    <3>2. skip[t] + (1 \div 2) < DestructorRounds
      BY <1>0 DEF RoundOf
    <3> QED  BY <1>0, <3>1, <3>2 DEF RoundOf
  <2>8. CASE emutls_key_destructor(t)
    <3>1. /\ pc[t] = "exit" /\ pc' = pc /\ round[t] % 2 = 1
          /\ round'[t] = round[t] + 1 /\ round' = [u \in Threads |-> round'[u]]
          /\ skip' = [u \in Threads |-> skip'[u]]
          /\ \/ specific'[t] = None /\ skip'[t] = skip[t]
             \/ specific'[t] = specific[t] /\ skip[t] > 0 /\ skip'[t] = skip[t] - 1
      BY <2>8 DEF emutls_key_destructor, SlotInv, Arrays
    <3>2. round[t] \in Nat /\ ((round[t] + 1) \div 2) = (round[t] \div 2) + 1 /\ (round[t] \div 2) \in Nat
      BY <1>0, <3>1, HalfRounds DEF RoundOf
    <3> QED  BY <1>0, <3>1, <3>2 DEF RoundOf
  <2>9. CASE NextRound(t)
    <3>1. /\ pc[t] = "exit" /\ pc' = pc /\ round[t] % 2 = 0 /\ skip' = skip /\ specific' = specific
          /\ round'[t] = round[t] + 1 /\ round' = [u \in Threads |-> round'[u]]
      BY <2>9 DEF NextRound
    <3>2. round[t] \in Nat /\ ((round[t] + 1) \div 2) = round[t] \div 2
      BY <1>0, <3>1, HalfRounds DEF RoundOf
    <3> QED  BY <1>0, <3>1, <3>2 DEF RoundOf
  <2>10. CASE Gone(t)
    <3>1. /\ pc[t] = "exit" /\ pc'[t] = "gone" /\ specific' = specific
          /\ specific[t] = None \/ round[t] = 2 * DestructorRounds
          /\ round'[t] = 0 /\ round' = [u \in Threads |-> round'[u]]
          /\ skip'[t] = 0 /\ skip' = [u \in Threads |-> skip'[u]]
      BY <2>10 DEF Gone
    <3>2. (2 * DestructorRounds) \div 2 = DestructorRounds
      BY <1>0
    <3>3. specific[t] = None
      BY <1>0, <3>1, <3>2 DEF RoundOf
    <3> QED  BY <1>0, <3>1, <3>3 DEF RoundOf
  <2>11. CASE Start(t)
    BY <1>0, <2>11 DEF Start, RoundOf
  <2> QED
    BY <2>1, <2>2, <2>3, <2>4, <2>5, <2>6, <2>7, <2>8, <2>9, <2>10, <2>11 DEF StepOf, Outside
<1> QED
  BY <1>1, <1>2 DEF Rounds

\* the state of the arrays, the blocks and the addresses given
MemoryInv == Objects /\ Owned /\ Backed /\ Handed

(* An address that is in the array of a thread belongs to that thread.     *)
LEMMA OneHolder ==
  ASSUME Objects, Backed, NEW b \in Blocks, heap[b] # None, NEW t \in Threads, Holds(t, heap[b].base)
  PROVE  heap[b].thread = t
<1>1. PICK i \in 1 .. Len(specific[t]) : specific[t] # None /\ specific[t][i] = heap[b].base
  BY DEF Holds
<1>2. heap[b].base # 0
  BY BaseNotZero DEF Objects
<1>3. PICK d \in Blocks : Backs(d, t, heap[b].base)
  BY <1>1, <1>2 DEF Backed
<1>4. d = b
  <2>1. /\ heap[b].control \in Controls /\ heap[d].control \in Controls
        /\ AlignedBase(Alignment(heap[b].control), b) = AlignedBase(Alignment(heap[d].control), d)
    BY <1>3 DEF Objects, Backs
  <2> QED  BY <2>1, BasesApart
<1> QED  BY <1>3, <1>4 DEF Backs

(* A step that leaves the arrays, the blocks and the addresses alone.      *)
LEMMA QuietStep ==
  ASSUME IndexInv, Indexed, MemoryInv, NEW t \in Threads, StepOf(t),
         specific' = specific, heap' = heap, got' = got
  PROVE  MemoryInv'
<1>1. ASSUME NEW u \in Threads, NEW c \in Controls, NEW address, At(u, c, address)
      PROVE  At(u, c, address)'
  <2>1. index[c] # 0
    BY <1>1 DEF At
  <2>2. index'[c] = index[c]
    BY <2>1, IndexKept
  <2> QED  BY <1>1, <2>2 DEF At
<1>2. Objects' /\ Backed'
  BY DEF MemoryInv, Objects, Backed, Backs
<1>3. Owned' /\ Handed'
  BY <1>1 DEF MemoryInv, Objects, Owned, Handed
<1> QED  BY <1>2, <1>3 DEF MemoryInv

(* The array of a thread is made or grows: what it holds stays where it is.*)
LEMMA ArrayStep ==
  ASSUME IndexInv, SlotInv, MemoryInv, NEW t \in Threads, NEW data \in Seq(Nat),
         index' = index, heap' = heap, got' = got, specific' = [specific EXCEPT ![t] = data],
         specific[t] # None => Len(data) >= Len(specific[t]),
         \A i \in 1 .. Len(data) :
           data[i] = IF specific[t] # None /\ i <= Len(specific[t]) THEN specific[t][i] ELSE 0
  PROVE  MemoryInv'
<1>0. /\ \A u \in Threads : specific'[u] = IF u = t THEN data ELSE specific[u]
      /\ data # None /\ Len(data) \in Nat
      /\ specific[t] # None => Len(specific[t]) \in Nat
  BY NoneAssumption DEF SlotInv, Arrays, SlotOf
<1>1. ASSUME NEW u \in Threads, NEW c \in Controls, NEW address, At(u, c, address)
      PROVE  At(u, c, address)'
  <2>1. CASE u = t
    <3>1. specific[t] # None /\ index[c] \in 1 .. Len(specific[t]) /\ specific[t][index[c]] = address
      BY <1>1, <2>1 DEF At
    <3>2. index[c] \in 1 .. Len(data) /\ index[c] <= Len(specific[t])
      BY <1>0, <3>1
    <3>3. data[index[c]] = address
      BY <3>1, <3>2
    <3> QED  BY <1>0, <2>1, <3>2, <3>3 DEF At
  <2>2. CASE u # t
    BY <1>0, <1>1, <2>2 DEF At
  <2> QED  BY <2>1, <2>2
<1>2. Objects'
  BY DEF MemoryInv, Objects
<1>3. Owned' /\ Handed'
  BY <1>1 DEF MemoryInv, Objects, Owned, Handed
<1>4. Backed'
  <2>1. ASSUME NEW u \in Threads, specific'[u] # None, NEW i \in 1 .. Len(specific'[u]), specific'[u][i] # 0
        PROVE  \E b \in Blocks : heap'[b] # None /\ heap'[b].thread = u /\ heap'[b].base = specific'[u][i]
    <3>1. specific[u] # None /\ i \in 1 .. Len(specific[u]) /\ specific'[u][i] = specific[u][i]
      BY <1>0, <2>1
    <3>2. PICK b \in Blocks : Backs(b, u, specific[u][i])
      BY <2>1, <3>1 DEF MemoryInv, Backed
    <3> QED  BY <3>1, <3>2 DEF Backs
  <2> QED  BY <2>1 DEF Backed, Backs
<1> QED  BY <1>2, <1>3, <1>4 DEF MemoryInv

(* A new object goes into an empty place of its thread's array.            *)
LEMMA AllocateStep ==
  ASSUME IndexInv, SlotInv, Indexed, MemoryInv, NEW t \in Threads, NEW b \in FreeBlocks,
         pc[t] = "slot", specific[t][idx[t]] = 0, index' = index, got' = got,
         heap' = [heap EXCEPT ![b] = Contents(t, control[t], b)],
         specific' = [specific EXCEPT ![t][idx[t]] = AlignedBase(Alignment(control[t]), b)]
  PROVE  MemoryInv'
<1> DEFINE c == control[t]
           i == idx[t]
           base == AlignedBase(Alignment(c), b)
<1>0. /\ c \in Controls /\ i = index[c] /\ b \in Blocks /\ heap[b] = None
      /\ specific[t] # None /\ specific[t] \in Seq(Nat) /\ i \in 1 .. Len(specific[t])
  BY DEF IndexInv, Types, InCall, Indexed, Kept, FreeBlocks, SlotInv, SlotOf
<1>1. base \in Nat /\ base # 0
  BY <1>0, BaseBounds, BaseNotZero
<1> HIDE DEF base
<1>2. /\ \A u \in Threads : u # t => specific'[u] = specific[u]
      /\ specific'[t] = [specific[t] EXCEPT ![i] = base]
  BY DEF SlotInv, Arrays, base
<1>3. /\ specific'[t] \in Seq(Nat) /\ Len(specific'[t]) = Len(specific[t])
      /\ specific'[t][i] = base
      /\ \A j \in 1 .. Len(specific[t]) : j # i => specific'[t][j] = specific[t][j]
  BY <1>0, <1>1, <1>2
<1>4. specific'[t] # None
  BY <1>3, NoneAssumption
<1>5. /\ heap' = [d \in Blocks |-> heap'[d]]
      /\ \A d \in Blocks : d # b => heap'[d] = heap[d]
      /\ heap'[b] = Contents(t, c, b)
  BY <1>0 DEF MemoryInv, Objects
<1>6. /\ Contents(t, c, b).base = base /\ Contents(t, c, b).thread = t /\ Contents(t, c, b).control = c
      /\ Contents(t, c, b) # None
  <2>1. Contents(t, c, b) \in [base : Nat, thread : Threads, control : Controls]
    BY <1>0, <1>1 DEF Contents, base
  <2> QED  BY <2>1, NoneAssumption DEF Contents, base
<1>7. ASSUME NEW u \in Threads, NEW e \in Controls, NEW address, At(u, e, address), address # 0
      PROVE  At(u, e, address)'
  BY <1>0, <1>2, <1>3, <1>4, <1>7 DEF At
<1>8. Objects'
  BY <1>0, <1>5, <1>6 DEF MemoryInv, Objects, base
<1>9. Owned'
  <2>1. specific'[t] # None /\ index'[c] \in 1 .. Len(specific'[t]) /\ specific'[t][index'[c]] = base
    BY <1>0, <1>3, <1>4
  <2>2. ASSUME NEW d \in Blocks, d # b, heap[d] # None, NEW u \in Threads, NEW e \in Controls, NEW a,
               u = heap[d].thread, e = heap[d].control, a = heap[d].base
        PROVE  specific'[u] # None /\ index'[e] \in 1 .. Len(specific'[u]) /\ specific'[u][index'[e]] = a
    <3>1. a # 0
      BY <2>2, BaseNotZero DEF MemoryInv, Objects
    <3>2. At(u, e, a)
      BY <2>2 DEF MemoryInv, Owned
    <3> QED  BY <3>1, <3>2, <1>7 DEF At
  <2>3. \A d \in Blocks : heap[d] # None => heap[d].thread \in Threads /\ heap[d].control \in Controls
    BY DEF MemoryInv, Objects
  <2> QED  BY <1>5, <1>6, <2>1, <2>2, <2>3 DEF Owned, At
<1>10. Handed'
  BY <1>7 DEF MemoryInv, Handed
<1>11. Backed'
  <2>1. ASSUME NEW u \in Threads, specific'[u] # None, NEW j \in 1 .. Len(specific'[u]), specific'[u][j] # 0
        PROVE  \E d \in Blocks : heap'[d] # None /\ heap'[d].thread = u /\ heap'[d].base = specific'[u][j]
    <3>1. CASE u = t /\ j = i
      BY <1>0, <1>3, <1>5, <1>6, <3>1 DEF Backs
    <3>2. CASE ~(u = t /\ j = i)
      <4>1. specific[u] # None /\ j \in 1 .. Len(specific[u]) /\ specific'[u][j] = specific[u][j]
        BY <1>0, <1>2, <1>3, <2>1, <3>2
      <4>2. PICK d \in Blocks : Backs(d, u, specific[u][j])
        BY <2>1, <4>1 DEF MemoryInv, Backed
      <4>3. d # b
        BY <1>0, <4>2 DEF Backs
      <4> QED  BY <1>5, <4>1, <4>2, <4>3 DEF Backs
    <3> QED  BY <3>1, <3>2
  <2> QED  BY <2>1 DEF Backed, Backs
<1> QED  BY <1>8, <1>9, <1>10, <1>11 DEF MemoryInv

(* The address that a call returns is the one in the thread's array.       *)
LEMMA ReturnStep ==
  ASSUME IndexInv, SlotInv, Indexed, MemoryInv, NEW t \in Threads, pc[t] = "return",
         index' = index, heap' = heap, specific' = specific,
         got' = [got EXCEPT ![t][control[t]] = specific[t][idx[t]]]
  PROVE  MemoryInv'
<1>0. /\ control[t] \in Controls /\ idx[t] = index[control[t]]
      /\ specific[t] # None /\ specific[t] \in Seq(Nat) /\ idx[t] \in 1 .. Len(specific[t])
  BY DEF IndexInv, Types, InCall, Indexed, Kept, SlotInv, SlotOf
<1>1. Objects' /\ Owned' /\ Backed'
  BY DEF MemoryInv, Objects, Owned, At, Backed, Backs
<1>2. specific[t][idx[t]] \in Nat
  BY <1>0
<1>3. got' \in [Threads -> [Controls -> Nat]]
  BY <1>0, <1>2 DEF MemoryInv, Handed
<1>4. ASSUME NEW u \in Threads, NEW c \in Controls
      PROVE  got'[u][c] = IF u = t /\ c = control[t] THEN specific[t][idx[t]] ELSE got[u][c]
  BY <1>0 DEF MemoryInv, Handed
<1>5. ASSUME NEW u \in Threads, NEW c \in Controls, got'[u][c] # 0
      PROVE  specific[u] # None /\ index[c] \in 1 .. Len(specific[u]) /\ specific[u][index[c]] = got'[u][c]
  BY <1>0, <1>4, <1>5 DEF MemoryInv, Handed, At
<1>6. Handed'
  BY <1>3, <1>5 DEF Handed, At
<1> QED  BY <1>1, <1>6 DEF MemoryInv

(* The destructor frees the objects of its thread, and those only.         *)
LEMMA ShutdownStep ==
  ASSUME SlotInv, MemoryInv, NEW t \in Threads, specific[t] # None,
         index' = index, emutls_shutdown(t), specific' = [specific EXCEPT ![t] = None],
         got' = [got EXCEPT ![t] = [c \in Controls |-> 0]]
  PROVE  MemoryInv'
<1>0. \A u \in Threads : specific'[u] = IF u = t THEN None ELSE specific[u]
  BY DEF SlotInv, Arrays
<1>1. ASSUME NEW b \in Blocks, heap[b] # None
      PROVE  b \in Mine(specific[t]) <=> heap[b].thread = t
  <2>1. b \in Mine(specific[t]) <=> Holds(t, heap[b].base)
    BY <1>1 DEF Mine, Holds
  <2>2. heap[b].thread = t => Holds(t, heap[b].base)
    BY <1>1 DEF MemoryInv, Owned, At, Holds
  <2> QED  BY <1>1, <2>1, <2>2, OneHolder DEF MemoryInv
<1>2. /\ heap' = [b \in Blocks |-> heap'[b]]
      /\ \A b \in Blocks : heap'[b] # None => heap'[b] = heap[b] /\ heap[b].thread # t
      /\ \A b \in Blocks : heap[b] # None /\ heap[b].thread # t => heap'[b] = heap[b]
  BY <1>1 DEF emutls_shutdown
<1>3. Objects'
  BY <1>2 DEF MemoryInv, Objects
<1>4. Owned'
  BY <1>0, <1>2 DEF MemoryInv, Objects, Owned, At
<1>5. Backed'
  BY <1>0, <1>2 DEF MemoryInv, Backed, Backs
<1>6. Handed'
  <2>1. got' \in [Threads -> [Controls -> Nat]]
    BY DEF MemoryInv, Handed
  <2>2. ASSUME NEW u \in Threads, NEW c \in Controls, got'[u][c] # 0
        PROVE  u # t /\ got'[u][c] = got[u][c]
    BY <2>2 DEF MemoryInv, Handed
  <2> QED  BY <1>0, <2>1, <2>2 DEF MemoryInv, Handed, At
<1> QED  BY <1>3, <1>4, <1>5, <1>6 DEF MemoryInv

(* An array that grows keeps what is in it and gets empty places.          *)
LEMMA GrownArray ==
  ASSUME NEW s \in Seq(Nat), NEW z \in Seq(Nat), \A i \in 1 .. Len(z) : z[i] = 0
  PROVE  /\ s \o z \in Seq(Nat) /\ Len(s \o z) >= Len(s)
         /\ \A i \in 1 .. Len(s \o z) : (s \o z)[i] = IF i <= Len(s) THEN s[i] ELSE 0
<1>1. s \o z \in Seq(Nat) /\ Len(s \o z) = Len(s) + Len(z) /\ Len(z) \in Nat /\ Len(s) \in Nat
  OBVIOUS
<1>2. ASSUME NEW i \in 1 .. Len(s \o z)
      PROVE  (s \o z)[i] = IF i <= Len(s) THEN s[i] ELSE 0
  <2>1. (s \o z)[i] = IF i <= Len(s) THEN s[i] ELSE z[i - Len(s)]
    BY <1>1
  <2>2. i > Len(s) => i - Len(s) \in 1 .. Len(z)
    BY <1>1
  <2> QED  BY <1>1, <2>1, <2>2
<1> QED  BY <1>1, <1>2

(* Every step keeps the objects where their threads look for them.         *)
LEMMA MemoryStep ==
  ASSUME IndexInv, SlotInv, Indexed, MemoryInv, NEW t \in Threads, StepOf(t)
  PROVE  MemoryInv'
<1>1. CASE abort
  BY <1>1, QuietStep DEF abort
<1>2. CASE \/ (\E c \in Controls : Call(t, c)) \/ LoadIndex(t) \/ emutls_init_once(t) \/ emutls_init(t)
           \/ InitDone(t) \/ SlotTaken(t) \/ Exit(t) \/ NextRound(t) \/ Start(t) \/ Gone(t)
           \/ emutls_lock(t) \/ Recheck(t) \/ StoreIndex(t) \/ emutls_unlock(t)
  <2>1. specific' = specific /\ heap' = heap /\ got' = got
    BY <1>2 DEF Call, LoadIndex, emutls_init_once, emutls_init, abort, InitDone, SlotTaken, Exit, NextRound,
                Start, Gone, emutls_lock, Recheck, StoreIndex, emutls_unlock
  <2> QED  BY <2>1, QuietStep
<1>3. CASE emutls_get_address_array(t) /\ ~abort
  <2> DEFINE size == emutls_new_data_array_size(idx[t])
             s == specific[t]
  <2>1. idx[t] \in Nat \ {0} /\ (s # None => s \in Seq(Nat) /\ Len(s) \in Nat)
    BY <1>3 DEF emutls_get_address_array, SlotInv, SlotOf, Given, IndexInv, Types
  <2>2. size \in Nat /\ size >= idx[t]
    BY <2>1, ArraySize
  <2> HIDE DEF size
  <2>3. ASSUME NEW n \in Nat
        PROVE  Zeros(n) \in Seq(Nat) /\ Len(Zeros(n)) = n /\ \A i \in 1 .. n : Zeros(n)[i] = 0
    BY DEF Zeros
  <2>4. CASE s = None
    <3>1. SetArray(t, Zeros(size), SkipRounds)
      BY <1>3, <2>4 DEF emutls_get_address_array, size
    <3>2. /\ index' = index /\ heap' = heap /\ got' = got
          /\ specific' = [specific EXCEPT ![t] = Zeros(size)]
      BY <1>3, <3>1 DEF SetArray, shared
    <3> QED  BY <2>2, <2>3, <2>4, <3>2, ArrayStep
  <2>5. CASE s # None /\ idx[t] > Len(s)
    <3> DEFINE z == Zeros(size - Len(s))
    <3>1. size - Len(s) \in Nat
      BY <2>1, <2>2, <2>5
    <3>2. z \in Seq(Nat) /\ Len(z) = size - Len(s) /\ \A i \in 1 .. Len(z) : z[i] = 0
      BY <2>3, <3>1
    <3>3. SetArray(t, s \o z, skip[t])
      BY <1>3, <2>5 DEF emutls_get_address_array, size
    <3>4. /\ index' = index /\ heap' = heap /\ got' = got
          /\ specific' = [specific EXCEPT ![t] = s \o z]
      BY <1>3, <3>3 DEF SetArray, shared
    <3> HIDE DEF z
    <3>5. /\ s \o z \in Seq(Nat) /\ Len(s \o z) >= Len(s)
          /\ \A i \in 1 .. Len(s \o z) : (s \o z)[i] = IF i <= Len(s) THEN s[i] ELSE 0
      BY <2>1, <2>5, <3>2, GrownArray
    <3> QED  BY <2>5, <3>4, <3>5, ArrayStep
  <2>6. CASE s # None /\ ~(idx[t] > Len(s))
    <3>1. specific' = specific /\ heap' = heap /\ got' = got
      BY <1>3, <2>6 DEF emutls_get_address_array
    <3> QED  BY <3>1, QuietStep
  <2> QED  BY <2>4, <2>5, <2>6
<1>4. CASE emutls_allocate_object(t) /\ ~abort
  <2>1. PICK b \in FreeBlocks :
          /\ pc[t] = "slot" /\ specific[t][idx[t]] = 0 /\ index' = index /\ got' = got
          /\ heap' = [heap EXCEPT ![b] = Contents(t, control[t], b)]
          /\ specific' = [specific EXCEPT ![t][idx[t]] = AlignedBase(Alignment(control[t]), b)]
    BY <1>4 DEF emutls_allocate_object, shared
  <2> QED  BY <2>1, AllocateStep
<1>5. CASE Return(t)
  BY <1>5, ReturnStep DEF Return, shared
<1>6. CASE emutls_key_destructor(t)
  <2>1. CASE specific[t] # None /\ ~(skip[t] > 0)
    BY <1>6, <2>1, ShutdownStep DEF emutls_key_destructor, shared
  <2>2. CASE ~(specific[t] # None /\ ~(skip[t] > 0))
    <3>1. specific' = specific /\ heap' = heap /\ got' = got
      BY <1>6, <2>2 DEF emutls_key_destructor
    <3> QED  BY <3>1, QuietStep
  <2> QED  BY <2>1, <2>2
<1> QED
  BY <1>1, <1>2, <1>3, <1>4, <1>5, <1>6 DEF StepOf, Outside

\* everything that the proofs about objects need
TlsInv == IndexInv /\ SlotInv /\ ObjectInv
LEMMA TlsInit == Init => TlsInv
<1>1. ASSUME Init PROVE SlotInv
  BY <1>1 DEF Init, SlotInv, Arrays, SlotOf, Given
<1>2. ASSUME Init PROVE ObjectInv
  <2>1. Objects /\ Indexed /\ Owned /\ Backed
    BY <1>2 DEF Init, Objects, Indexed, Kept, Owned, Backed
  <2>2. Handed
    BY <1>2 DEF Init, Handed
  <2>3. Rounds
    BY <1>2, RoundsAssumption DEF Init, Rounds, RoundOf, InCall
  <2> QED  BY <2>1, <2>2, <2>3 DEF ObjectInv
<1> QED  BY <1>1, <1>2, IndexInit DEF TlsInv
LEMMA TlsStep ==
  ASSUME TlsInv, [Next]_vars
  PROVE  TlsInv'
<1>1. IndexInv' /\ SlotInv'
  BY IndexStep, SlotStep DEF TlsInv
<1>2. CASE UNCHANGED vars
  <2>1. ObjectInv'
    BY <1>2 DEF TlsInv, vars, shared, ObjectInv, Objects, Indexed, Owned, At, Backed, Backs, Handed, Rounds, RoundOf
  <2> QED  BY <1>1, <2>1 DEF TlsInv
<1>3. CASE Next
  <2>1. PICK t \in Threads : StepOf(t)
    BY <1>3, StepKinds
  <2>2. Indexed' /\ Rounds'
    BY <2>1, IndexedStep, RoundsStep DEF TlsInv, ObjectInv
  <2>3. MemoryInv'
    BY <2>1, MemoryStep DEF TlsInv, ObjectInv, MemoryInv
  <2> QED  BY <1>1, <2>2, <2>3 DEF TlsInv, ObjectInv, MemoryInv
<1> QED  BY <1>2, <1>3

(* What the invariant says of the objects: aligned and inside their        *)
(* blocks, each in the array of its own thread and of no other, and where  *)
(* the thread was told.                                                    *)
LEMMA TlsImplies ==
  ASSUME TlsInv
  PROVE  AlignedInside /\ ObjectsOwned /\ AddressStable
<1> USE DEF TlsInv, ObjectInv
<1>1. AlignedInside
  <2>1. ASSUME NEW b \in Blocks, heap[b] # None, NEW c \in Controls, c = heap[b].control
        PROVE  /\ heap[b].base % AlignOf[c] = 0
               /\ b <= heap[b].base - PtrSize
               /\ heap[b].base + SizeOf[c] <= b + EXTRA_ALIGN_PTR_BYTES(Alignment(c)) + SizeOf[c]
    <3>1. heap[b].base = AlignedBase(Alignment(c), b)
      BY <2>1 DEF Objects
    <3>2. /\ heap[b].base \in Nat /\ b + PtrSize <= heap[b].base
          /\ heap[b].base <= b + EXTRA_ALIGN_PTR_BYTES(Alignment(c)) /\ heap[b].base % AlignOf[c] = 0
      BY <3>1, BaseBounds
    <3>3. b \in Nat /\ PtrSize \in Nat /\ SizeOf[c] \in Nat /\ EXTRA_ALIGN_PTR_BYTES(Alignment(c)) \in Nat
      BY ControlsAssumption, BlocksAssumption DEF EXTRA_ALIGN_PTR_BYTES, Alignment
    <3> QED  BY <3>2, <3>3
  <2> QED  BY <2>1 DEF AlignedInside, Objects
<1>2. ObjectsOwned
  <2>1. ASSUME NEW b \in Blocks, heap[b] # None
        PROVE  /\ pc[heap[b].thread] # "gone"
               /\ \A t \in Threads : Holds(t, heap[b].base) <=> t = heap[b].thread
    <3>1. heap[b].thread \in Threads /\ At(heap[b].thread, heap[b].control, heap[b].base)
      BY <2>1 DEF Objects, Owned
    <3>2. pc[heap[b].thread] # "gone" /\ Holds(heap[b].thread, heap[b].base)
      BY <3>1 DEF At, Holds, Rounds, RoundOf
    <3> QED  BY <2>1, <3>2, OneHolder
  <2> QED  BY <2>1 DEF ObjectsOwned
<1>3. AddressStable
  <2>1. ASSUME NEW t \in Threads, NEW c \in Controls, got[t][c] # 0
        PROVE  /\ At(t, c, got[t][c])
               /\ \E b \in Blocks : heap[b] # None /\ heap[b].base = got[t][c]
    <3>1. At(t, c, got[t][c])
      BY <2>1 DEF Handed
    <3> QED  BY <2>1, <3>1 DEF At, Backed, Backs
  <2> QED  BY <2>1 DEF AddressStable, At
<1> QED  BY <1>1, <1>2, <1>3

(* Every object that emutls_memalign_alloc made is aligned as its variable *)
(* asks and lies, with the word before it, inside its block.               *)
THEOREM AlignedInsideTheorem == Spec => []AlignedInside
  BY TlsInit, TlsStep, TlsImplies, PTL DEF Spec
(* No object is shared, none outlives its thread's array, and none         *)
(* outlives its thread, in whatever order threads end and destructors      *)
(* bring variables back to life.                                           *)
THEOREM ObjectsOwnedTheorem == Spec => []ObjectsOwned
  BY TlsInit, TlsStep, TlsImplies, PTL DEF Spec
(* An address that __emutls_get_address returned to a thread stays the     *)
(* address of that variable until the thread's array is destroyed.         *)
THEOREM AddressStableTheorem == Spec => []AddressStable
  BY TlsInit, TlsStep, TlsImplies, PTL DEF Spec

(* An index that a variable has is never replaced: the thread that stores  *)
(* one has looked again under the lock and found none.                     *)
THEOREM IndexStaysTheorem == Spec => IndexStays
<1>1. TlsInv /\ [Next]_vars => [\A c \in Controls : index[c] # 0 => index'[c] = index[c]]_vars
  <2>1. CASE UNCHANGED vars
    BY <2>1
  <2>2. ASSUME TlsInv, Next
        PROVE  \A c \in Controls : index[c] # 0 => index'[c] = index[c]
    <3>1. PICK t \in Threads : StepOf(t)
      BY <2>2, StepKinds
    <3> QED  BY <2>2, <3>1, IndexKept DEF TlsInv, ObjectInv
  <2> QED  BY <2>1, <2>2
<1> QED  BY <1>1, TlsInit, TlsStep, PTL DEF Spec, IndexStays
=============================================================================
