------------------------- MODULE ParseltongueProofs -------------------------
(***************************************************************************)
(* Proofs about Parseltongue, for every listing, every set of cartridges   *)
(* and every choice of functions: what the parser collects are the         *)
(* instructions of the selected functions, and the loop of main cuts them  *)
(* into whole cartridges, each of which writes back its own registers.     *)
(***************************************************************************)
EXTENDS Parseltongue, WellFoundedInduction, FiniteSetTheorems, TLAPS

-----------------------------------------------------------------------------
(* Sequences and numbers *)

(* What is in a sequence after an element was appended.                    *)
LEMMA AppendSet ==
  ASSUME NEW S, NEW s \in Seq(S), NEW x \in S
  PROVE  /\ ToSet(Append(s, x)) = ToSet(s) \cup {x}
         /\ Append(s, x) \in Seq(S) /\ Len(Append(s, x)) = Len(s) + 1
         /\ Append(s, x)[Len(s) + 1] = x
         /\ \A i \in 1 .. Len(s) : Append(s, x)[i] = s[i]
<1> DEFINE r == Append(s, x)
<1>1. /\ r \in Seq(S) /\ Len(r) = Len(s) + 1 /\ Len(s) \in Nat /\ r[Len(s) + 1] = x
      /\ \A i \in 1 .. Len(s) : r[i] = s[i]
  OBVIOUS
<1>2. DOMAIN r = 1 .. Len(s) + 1 /\ DOMAIN s = 1 .. Len(s)
  BY <1>1
<1> HIDE DEF r
<1>3. \A y : y \in ToSet(r) <=> \E i \in 1 .. Len(s) + 1 : y = r[i]
  BY <1>2 DEF ToSet
<1>4. \A y : y \in ToSet(s) <=> \E i \in 1 .. Len(s) : y = s[i]
  BY <1>2 DEF ToSet
<1>5. ASSUME NEW y \in ToSet(r) PROVE y \in ToSet(s) \cup {x}
  <2>1. PICK i \in 1 .. Len(s) + 1 : y = r[i]
    BY <1>3
  <2>2. i = Len(s) + 1 \/ i \in 1 .. Len(s)
    BY <1>1
  <2> QED  BY <1>1, <1>4, <2>1, <2>2
<1>6. ASSUME NEW y \in ToSet(s) PROVE y \in ToSet(r)
  <2>1. PICK i \in 1 .. Len(s) : y = s[i]
    BY <1>4
  <2>2. i \in 1 .. Len(s) + 1 /\ y = r[i]
    BY <1>1, <2>1
  <2> QED  BY <1>3, <2>2
<1>7. x \in ToSet(r)
  <2>1. Len(s) + 1 \in 1 .. Len(s) + 1
    BY <1>1
  <2> QED  BY <1>1, <1>3, <2>1
<1>8. ToSet(r) = ToSet(s) \cup {x}
  BY <1>5, <1>6, <1>7
<1> QED  BY <1>1, <1>8 DEF r
(* The elements of a sequence.                                             *)
LEMMA SetOfSeq ==
  ASSUME NEW S, NEW s \in Seq(S)
  PROVE  /\ ToSet(s) \subseteq S
         /\ \A x : x \in ToSet(s) <=> \E i \in 1 .. Len(s) : x = s[i]
         /\ Len(s) \in Nat /\ DOMAIN s = 1 .. Len(s)
         /\ s = <<>> <=> Len(s) = 0
<1>1. DOMAIN s = 1 .. Len(s) /\ Len(s) \in Nat /\ (s = <<>> <=> Len(s) = 0)
  OBVIOUS
<1>2. \A x : x \in ToSet(s) <=> \E i \in 1 .. Len(s) : x = s[i]
  BY <1>1 DEF ToSet
<1>3. \A i \in 1 .. Len(s) : s[i] \in S
  OBVIOUS
<1> QED  BY <1>1, <1>2, <1>3

(* A set of addresses has a least one.                                     *)
LEMMA LeastNat ==
  ASSUME NEW T, T \subseteq Nat, T # {}
  PROVE  \E x \in T : \A y \in T : x <= y
<1>1. IsWellFoundedOn(OpToRel(<, Nat), Nat)
  BY NatLessThanWellFounded
<1>2. PICK x \in T : \A y \in T : ~(<<y, x>> \in OpToRel(<, Nat))
  BY <1>1, WFMin
<1>3. ASSUME NEW y \in T PROVE x <= y
  <2>1. ~(<<y, x>> \in {ss \in Nat \X Nat : ss[1] < ss[2]})
    BY <1>2 DEF OpToRel
  <2> QED  BY <2>1
<1> QED  BY <1>3

-----------------------------------------------------------------------------
(* The listing *)

t == binary.text
InstrLines == {k \in DOMAIN t : t[k].kind = "instr"}
Instrs == {t[k] : k \in InstrLines}
Names == {t[k].name : k \in {k \in DOMAIN t : t[k].kind = "header"}}
\* the header at h opens line k: only instructions come after it
Opens(h, k) ==
  /\ h \in 1 .. k - 1 /\ t[h].kind = "header" /\ Wanted(t[h].name)
  /\ \A j \in h + 1 .. k - 1 : t[j].kind = "instr"
Chosen(k) == t[k].kind = "instr" /\ \E h \in 1 .. k - 1 : Opens(h, k) /\ t[h].name \notin SpringboardFunctions
\* the instructions of the selected functions among the lines before n
Before(n) == {t[k] : k \in {k \in DOMAIN t : k < n /\ Chosen(k)}}

ListingInv == binary \in Binaries
(* What the assumption on the input files says of this binary.             *)
LEMMA ListingFacts ==
  ASSUME ListingInv
  PROVE  /\ Len(t) \in Nat /\ DOMAIN t = 1 .. Len(t)
         /\ \A k \in InstrLines : /\ t[k].vaddr \in Nat /\ t[k].length \in Nat \ {0}
                                  /\ t[k].header \in BOOLEAN
         /\ \A j, k \in InstrLines : j < k => t[j].vaddr + t[j].length <= t[k].vaddr
         /\ \A k \in DOMAIN t : t[k].kind = "header" /\ k > 1 => t[k - 1].kind = "blank"
         /\ \A j, k \in DOMAIN t :
              /\ t[j].kind = "header" /\ t[k].kind = "header"
              /\ t[j].name = t[k].name /\ t[j].name \in SpringboardFunctions
              => j = k
         /\ \A p \in binary.pairs : InOneFunction(t, p)
  BY BinariesAssumption DEF ListingInv, Listing, t, InstrLines

(* At most one header opens a line.                                        *)
LEMMA OneOpens ==
  ASSUME ListingInv, NEW k \in 1 .. Len(t) + 1, NEW g, NEW h, Opens(g, k), Opens(h, k)
  PROVE  g = h
<1>1. k \in Nat /\ g \in 1 .. k - 1 /\ h \in 1 .. k - 1
  BY ListingFacts DEF Opens
<1>2. ~(g < h)
  BY <1>1 DEF Opens
<1>3. ~(h < g)
  BY <1>1 DEF Opens
<1> QED  BY <1>1, <1>2, <1>3

(* The selected instructions are those before the end.                     *)
LEMMA SelectedBefore ==
  ASSUME ListingInv
  PROVE  Selected = Before(Len(t) + 1)
<1>1. \A k \in DOMAIN t : k \in Nat /\ k < Len(t) + 1
  BY ListingFacts
<1>2. Selected = {t[k] : k \in {k \in DOMAIN t : Chosen(k)}}
  <2>1. \A k \in DOMAIN t :
          Chosen(k) <=> /\ t[k].kind = "instr"
                        /\ \E h \in 1..k-1 : /\ t[h].kind = "header"
                                             /\ t[h].name \notin SpringboardFunctions
                                             /\ Wanted(t[h].name)
                                             /\ \A j \in h+1..k-1 : t[j].kind = "instr"
    BY DEF Chosen, Opens
  <2>2. Selected = {t[k] : k \in {k \in DOMAIN t :
            /\ t[k].kind = "instr"
            /\ \E h \in 1..k-1 : /\ t[h].kind = "header"
                                 /\ t[h].name \notin SpringboardFunctions
                                 /\ Wanted(t[h].name)
                                 /\ \A j \in h+1..k-1 : t[j].kind = "instr"}}
    BY DEF Selected, t
  <2> QED  BY <2>1, <2>2
<1> QED  BY <1>1, <1>2 DEF Before
(* One more line: nothing, or that line if it is chosen.                   *)
LEMMA BeforeNext ==
  ASSUME ListingInv, NEW n \in DOMAIN t
  PROVE  Before(n + 1) = IF Chosen(n) THEN Before(n) \cup {t[n]} ELSE Before(n)
<1>1. n \in Nat /\ \A k \in DOMAIN t : k \in Nat /\ (k < n + 1 <=> k < n \/ k = n)
  BY ListingFacts
<1> QED  BY <1>1 DEF Before
(* Steps change neither the listing nor the selection.                     *)
LEMMA SameListing ==
  ASSUME binary' = binary, filters' = filters
  PROVE  /\ t' = t /\ Instrs' = Instrs /\ Names' = Names /\ InstrLines' = InstrLines
         /\ \A name : Wanted(name)' = Wanted(name)
         /\ \A h, k : Opens(h, k)' = Opens(h, k)
         /\ \A k : Chosen(k)' = Chosen(k)
         /\ \A n : Before(n)' = Before(n)
         /\ Selected' = Selected
<1>1. t' = t /\ Instrs' = Instrs /\ Names' = Names /\ InstrLines' = InstrLines
  BY DEF t, Instrs, Names, InstrLines
<1>2. \A name : Wanted(name)' = Wanted(name)
  BY DEF Wanted
<1>3. \A h, k : Opens(h, k)' = Opens(h, k)
  BY <1>1, <1>2 DEF Opens
<1>4. \A k : Chosen(k)' = Chosen(k)
  BY <1>1, <1>3 DEF Chosen
<1>5. \A n : Before(n)' = Before(n)
  BY <1>1, <1>4 DEF Before
<1>6. Selected' = Selected
  BY <1>2 DEF Selected
<1> QED  BY <1>1, <1>2, <1>3, <1>4, <1>5, <1>6

-----------------------------------------------------------------------------
(* The parser *)

Keys == {<<n>> : n \in Names} \cup (Names \X Nat)
Entries == [key : Keys, instrs : Seq(Instrs)]
\* what the entries of function_asm hold, the springboard's left out
Collected(asm) == UNION {ToSet(e.instrs) : e \in {f \in ToSet(asm) : ~IsSpringboard(f)}}
\* the function being read is that of the header that opens the line, and a springboard
\* function is read under its own name
Current_(h) ==
  /\ Opens(h, pos) /\ current_function[1] = t[h].name
  /\ t[h].name \in SpringboardFunctions => Len(current_function) = 1
AsmInv ==
  /\ pos \in 1 .. Len(t) + 1 /\ dupname_ctr \in Nat /\ function_asm \in Seq(Entries)
  /\ Collected(function_asm) = Before(pos)
NamesInv ==
  \A a \in 1 .. Len(function_asm) : Len(function_asm[a].key) = 1 =>
    \E h \in 1 .. pos - 1 : t[h].kind = "header" /\ t[h].name = function_asm[a].key[1]
FunctionInv ==
  IF current_function = <<>> THEN \A h : ~Opens(h, pos)
  ELSE /\ \E h : Current_(h)
       /\ \E a \in 1 .. Len(function_asm) : function_asm[a].key = current_function
ParseInv == AsmInv /\ NamesInv /\ FunctionInv

(* The parts of the invariant after a step.                                *)
LEMMA ParsePrimes ==
  ASSUME binary' = binary, filters' = filters
  PROVE  /\ t' = t /\ Entries' = Entries /\ Keys' = Keys
         /\ Before(pos)' = Before(pos')
         /\ \A h : Opens(h, pos)' = Opens(h, pos')
<1>1. /\ t' = t /\ Instrs' = Instrs /\ Names' = Names
      /\ \A name : Wanted(name)' = Wanted(name)
      /\ \A k : Chosen(k)' = Chosen(k)
  BY SameListing
<1>2. Keys' = Keys /\ Entries' = Entries
  BY <1>1 DEF Entries, Keys
<1>3. Before(pos)' = Before(pos')
  BY <1>1 DEF Before
<1>4. \A h : Opens(h, pos)' = Opens(h, pos')
  BY <1>1 DEF Opens
<1> QED  BY <1>1, <1>2, <1>3, <1>4

(* Keys have a name first, and one that is alone if there is no number.    *)
LEMMA KeyFacts ==
  ASSUME NEW key \in Keys
  PROVE  key # <<>> /\ key[1] \in Names /\ (Len(key) = 1 => key = <<key[1]>>)
<1>1. CASE \E n \in Names : key = <<n>>
  BY <1>1
<1>2. CASE key \in Names \X Nat
  <2>1. PICK n \in Names, i \in Nat : key = <<n, i>>
    BY <1>2
  <2> QED  BY <2>1
<1> QED  BY <1>1, <1>2 DEF Keys

(* What entries hold, element by element.                                  *)
LEMMA CollectedIn ==
  ASSUME NEW S, NEW asm \in Seq(S)
  PROVE  \A x : x \in Collected(asm) <=>
           \E a \in 1 .. Len(asm) : ~IsSpringboard(asm[a]) /\ x \in ToSet(asm[a].instrs)
<1>1. \A e : e \in ToSet(asm) <=> \E a \in 1 .. Len(asm) : e = asm[a]
  BY SetOfSeq
<1> QED  BY <1>1 DEF Collected
(* What is collected stays when an empty entry is added.                   *)
LEMMA AddEntry ==
  ASSUME NEW S, NEW asm \in Seq(S), NEW key, [key |-> key, instrs |-> <<>>] \in S
  PROVE  Collected(Append(asm, [key |-> key, instrs |-> <<>>])) = Collected(asm)
<1> DEFINE e == [key |-> key, instrs |-> <<>>]
           r == Append(asm, e)
<1>1. /\ r \in Seq(S) /\ Len(r) = Len(asm) + 1 /\ r[Len(asm) + 1] = e /\ Len(asm) \in Nat
      /\ \A i \in 1 .. Len(asm) : r[i] = asm[i]
  BY AppendSet
<1>2. ToSet(e.instrs) = {}
  BY DEF ToSet
<1> HIDE DEF e, r
<1>3. ASSUME NEW x, x \in Collected(r) PROVE x \in Collected(asm)
  <2>1. PICK a \in 1 .. Len(r) : ~IsSpringboard(r[a]) /\ x \in ToSet(r[a].instrs)
    BY <1>1, <1>3, CollectedIn
  <2>2. a # Len(asm) + 1
    BY <1>1, <1>2, <2>1
  <2>3. a \in 1 .. Len(asm)
    BY <1>1, <2>2
  <2> QED  BY <1>1, <2>1, <2>3, CollectedIn
<1>4. ASSUME NEW x, x \in Collected(asm) PROVE x \in Collected(r)
  <2>1. PICK a \in 1 .. Len(asm) : ~IsSpringboard(asm[a]) /\ x \in ToSet(asm[a].instrs)
    BY <1>4, CollectedIn
  <2>2. a \in 1 .. Len(r) /\ r[a] = asm[a]
    BY <1>1
  <2> QED  BY <1>1, <2>1, <2>2, CollectedIn
<1>5. Collected(r) = Collected(asm)
  BY <1>3, <1>4
<1> QED  BY <1>5 DEF r, e

(* A header of a selected function opens the lines after it.               *)
LEMMA ReadHeaderStep ==
  ASSUME ListingInv, ParseInv, ReadHeader
  PROVE  ParseInv'
<1> DEFINE key == Key(Line.name)
           e == [key |-> key, instrs |-> <<>>]
<1>0. /\ binary' = binary /\ filters' = filters /\ pos' = pos + 1 /\ current_function = <<>>
      /\ current_function' = key /\ function_asm' = Append(function_asm, e)
      /\ dupname_ctr' \in {dupname_ctr, dupname_ctr + 1}
      /\ pos <= Len(t) /\ t[pos] = Line /\ t[pos].kind = "header" /\ Wanted(t[pos].name)
  BY DEF ReadHeader, Reading, Line, t
<1>1. /\ pos \in Nat /\ dupname_ctr \in Nat /\ function_asm \in Seq(Entries) /\ pos \in DOMAIN t
      /\ Len(t) \in Nat
  BY <1>0, ListingFacts DEF ParseInv, AsmInv
<1> DEFINE name == Line.name
<1>2. name \in Names
  BY <1>0, <1>1 DEF Names
<1>3. /\ key \in Keys /\ key # <<>> /\ key[1] = name
      /\ name \in SpringboardFunctions => Len(key) = 1
      /\ Len(key) = 1 => key = <<name>>
  <2>1. CASE \E f \in ToSet(function_asm) : f.key = <<name>>
    <3>1. key = <<name, dupname_ctr>>
      BY <2>1 DEF Key
    <3>2. key \in Keys /\ key # <<>> /\ key[1] = name /\ Len(key) = 2
      BY <1>1, <1>2, <3>1 DEF Keys
    <3>3. name \notin SpringboardFunctions
      <4>1. PICK a \in 1 .. Len(function_asm) : function_asm[a].key = <<name>>
        BY <1>1, <2>1, SetOfSeq
      <4>0. Len(function_asm[a].key) = 1 /\ function_asm[a].key[1] = name
        BY <4>1
      <4>2. PICK h \in 1 .. pos - 1 : t[h].kind = "header" /\ t[h].name = name
        BY <4>0 DEF ParseInv, NamesInv
      <4>3. h \in DOMAIN t /\ h # pos
        BY <1>0, <1>1, ListingFacts
      <4> QED  BY <1>0, <1>1, <4>2, <4>3, ListingFacts
    <3> QED  BY <3>2, <3>3
  <2>2. CASE ~\E f \in ToSet(function_asm) : f.key = <<name>>
    <3>1. key = <<name>>
      BY <2>2 DEF Key
    <3> QED  BY <1>2, <3>1 DEF Keys
  <2> QED  BY <2>1, <2>2
<1>4. e \in Entries /\ e.key = key
  BY <1>3 DEF Entries
<1> HIDE DEF key
<1>5. /\ function_asm' \in Seq(Entries) /\ Len(function_asm') = Len(function_asm) + 1
      /\ function_asm'[Len(function_asm) + 1] = e /\ Len(function_asm) \in Nat
      /\ \A a \in 1 .. Len(function_asm) : function_asm'[a] = function_asm[a]
  BY <1>0, <1>1, <1>4, AppendSet
<1>6. Collected(function_asm') = Collected(function_asm)
  BY <1>0, <1>1, <1>4, AddEntry
<1>7. Before(pos + 1) = Before(pos)
  BY <1>0, <1>1, BeforeNext DEF Chosen
<1>8. /\ t' = t /\ Entries' = Entries /\ Before(pos)' = Before(pos')
      /\ \A h : Opens(h, pos)' = Opens(h, pos')
  BY <1>0, ParsePrimes
<1>9. AsmInv'
  <2>1. Collected(function_asm') = Before(pos')
    BY <1>0, <1>6, <1>7 DEF ParseInv, AsmInv
  <2>2. dupname_ctr' \in Nat /\ pos' \in 1 .. Len(t) + 1
    BY <1>0, <1>1
  <2> QED  BY <1>5, <1>8, <2>1, <2>2 DEF AsmInv, Collected
<1>10. NamesInv'
  <2>1. ASSUME NEW a \in 1 .. Len(function_asm'), Len(function_asm'[a].key) = 1
        PROVE  \E h \in 1 .. pos' - 1 : t[h].kind = "header" /\ t[h].name = function_asm'[a].key[1]
    <3>1. CASE a = Len(function_asm) + 1
      <4>1. function_asm'[a].key = key
        BY <1>4, <1>5, <3>1
      <4>2. pos \in 1 .. pos' - 1
        BY <1>0, <1>1 DEF ParseInv, AsmInv
      <4> QED  BY <1>0, <1>3, <4>1, <4>2
    <3>2. CASE a # Len(function_asm) + 1
      <4>1. a \in 1 .. Len(function_asm) /\ function_asm'[a] = function_asm[a]
        BY <1>5, <3>2
      <4>2. PICK h \in 1 .. pos - 1 : t[h].kind = "header" /\ t[h].name = function_asm[a].key[1]
        BY <2>1, <4>1 DEF ParseInv, NamesInv
      <4>3. h \in 1 .. pos' - 1
        BY <1>0, <1>1
      <4> QED  BY <4>1, <4>2, <4>3
    <3> QED  BY <3>1, <3>2
  <2> QED  BY <1>8, <2>1 DEF NamesInv
<1>11. FunctionInv'
  <2>1. Opens(pos, pos')
    BY <1>0, <1>1 DEF Opens, ParseInv, AsmInv
  <2>2. \E h : /\ Opens(h, pos') /\ current_function'[1] = t[h].name
               /\ t[h].name \in SpringboardFunctions => Len(current_function') = 1
    BY <1>0, <1>3, <2>1
  <2>3. \E h : Current_(h)'
    BY <1>8, <2>2 DEF Current_
  <2>4. \E a \in 1 .. Len(function_asm') : function_asm'[a].key = current_function'
    <3>1. Len(function_asm) + 1 \in 1 .. Len(function_asm')
      BY <1>5
    <3> QED  BY <1>0, <1>4, <1>5, <3>1
  <2> QED  BY <1>0, <1>3, <2>3, <2>4 DEF FunctionInv
<1> QED  BY <1>9, <1>10, <1>11 DEF ParseInv

(* A line outside the selected functions adds nothing.                     *)
LEMMA SkipLineStep ==
  ASSUME ListingInv, ParseInv, SkipLine
  PROVE  ParseInv'
<1>0. /\ binary' = binary /\ filters' = filters /\ pos' = pos + 1 /\ current_function = <<>>
      /\ current_function' = current_function /\ function_asm' = function_asm
      /\ dupname_ctr' = dupname_ctr
      /\ pos <= Len(t) /\ ~(t[pos].kind = "header" /\ Wanted(t[pos].name))
  BY DEF SkipLine, Reading, Line, t
<1>1. pos \in Nat /\ pos \in DOMAIN t /\ Len(t) \in Nat /\ pos >= 1
  BY <1>0, ListingFacts DEF ParseInv, AsmInv
<1>2. \A h : ~Opens(h, pos)
  BY <1>0 DEF ParseInv, FunctionInv
<1>3. Before(pos + 1) = Before(pos)
  BY <1>1, <1>2, BeforeNext DEF Chosen
<1>4. /\ t' = t /\ Entries' = Entries /\ Before(pos)' = Before(pos')
      /\ \A h : Opens(h, pos)' = Opens(h, pos')
  BY <1>0, ParsePrimes
<1>5. ASSUME NEW h, Opens(h, pos') PROVE FALSE
  <2>1. h \in 1 .. pos /\ h # pos
    BY <1>0, <1>1, <1>5 DEF Opens
  <2>2. Opens(h, pos)
    BY <1>0, <1>1, <1>5, <2>1 DEF Opens
  <2> QED  BY <1>2, <2>2
<1>6. AsmInv'
  BY <1>0, <1>1, <1>3, <1>4 DEF ParseInv, AsmInv, Collected
<1>7. NamesInv'
  <2>1. \A h \in 1 .. pos - 1 : h \in 1 .. pos' - 1
    BY <1>0, <1>1
  <2> QED  BY <1>0, <1>4, <2>1 DEF ParseInv, NamesInv
<1>8. FunctionInv'
  BY <1>0, <1>4, <1>5 DEF FunctionInv
<1> QED  BY <1>6, <1>7, <1>8 DEF ParseInv

(* The line that ends a function is no header, so nothing is missed.       *)
LEMMA EndFunctionStep ==
  ASSUME ListingInv, ParseInv, EndFunction
  PROVE  ParseInv'
<1>0. /\ binary' = binary /\ filters' = filters /\ pos' = pos + 1 /\ current_function # <<>>
      /\ current_function' = <<>> /\ function_asm' = function_asm
      /\ dupname_ctr' = dupname_ctr
      /\ pos <= Len(t) /\ t[pos].kind # "instr"
  BY DEF EndFunction, Reading, Line, t
<1>1. pos \in Nat /\ pos \in DOMAIN t /\ Len(t) \in Nat /\ pos >= 1
  BY <1>0, ListingFacts DEF ParseInv, AsmInv
<1>2. PICK g : Opens(g, pos)
  BY <1>0 DEF ParseInv, FunctionInv, Current_
<1>3. Before(pos + 1) = Before(pos)
  BY <1>0, <1>1, BeforeNext DEF Chosen
<1>4. /\ t' = t /\ Entries' = Entries /\ Before(pos)' = Before(pos')
      /\ \A h : Opens(h, pos)' = Opens(h, pos')
  BY <1>0, ParsePrimes
<1>5. t[pos].kind # "header"
  <2>1. g \in 1 .. pos - 1 /\ pos > 1 /\ pos - 1 \in DOMAIN t
    BY <1>0, <1>1, <1>2, ListingFacts DEF Opens
  <2>2. t[pos - 1].kind \in {"instr", "header"}
    <3>1. CASE g = pos - 1
      BY <1>2, <3>1 DEF Opens
    <3>2. CASE g # pos - 1
      <4>1. pos - 1 \in g + 1 .. pos - 1
        BY <1>1, <2>1, <3>2
      <4> QED  BY <1>2, <4>1 DEF Opens
    <3> QED  BY <3>1, <3>2
  <2> QED  BY <1>1, <2>1, <2>2, ListingFacts
<1>6. ASSUME NEW h, Opens(h, pos') PROVE FALSE
  <2>1. h \in 1 .. pos /\ h # pos
    BY <1>0, <1>1, <1>5, <1>6 DEF Opens
  <2>2. pos \in h + 1 .. pos' - 1
    BY <1>0, <1>1, <2>1
  <2> QED  BY <1>0, <1>6, <2>2 DEF Opens
<1>7. AsmInv'
  BY <1>0, <1>1, <1>3, <1>4 DEF ParseInv, AsmInv, Collected
<1>8. NamesInv'
  <2>1. \A h \in 1 .. pos - 1 : h \in 1 .. pos' - 1
    BY <1>0, <1>1
  <2> QED  BY <1>0, <1>4, <2>1 DEF ParseInv, NamesInv
<1>9. FunctionInv'
  BY <1>0, <1>4, <1>6 DEF FunctionInv
<1> QED  BY <1>7, <1>8, <1>9 DEF ParseInv

(* An instruction joins the function whose header opens its line.          *)
LEMMA ReadInstrStep ==
  ASSUME ListingInv, ParseInv, ReadInstr
  PROVE  ParseInv'
<1> DEFINE x == t[pos]
           n == Len(function_asm)
           Mine(a) == function_asm[a].key = current_function
<1>0. /\ binary' = binary /\ filters' = filters /\ pos' = pos + 1 /\ current_function # <<>>
      /\ current_function' = current_function /\ dupname_ctr' = dupname_ctr
      /\ function_asm' = [a \in DOMAIN function_asm |->
                            IF Mine(a) THEN [function_asm[a] EXCEPT !.instrs = Append(@, x)]
                            ELSE function_asm[a]]
      /\ pos <= Len(t) /\ x.kind = "instr"
  BY DEF ReadInstr, Reading, Line, t
<1>1. pos \in Nat /\ pos \in DOMAIN t /\ Len(t) \in Nat /\ pos >= 1 /\ function_asm \in Seq(Entries)
  BY <1>0, ListingFacts DEF ParseInv, AsmInv
<1>2. x \in Instrs
  BY <1>0, <1>1 DEF Instrs, InstrLines
<1>3. /\ n \in Nat /\ DOMAIN function_asm = 1 .. n
      /\ \A a \in 1 .. n : function_asm[a] \in Entries
  BY <1>1
<1>4. ASSUME NEW a \in 1 .. n
      PROVE  /\ function_asm'[a] \in Entries
             /\ function_asm'[a].key = function_asm[a].key
             /\ ToSet(function_asm'[a].instrs) =
                  IF Mine(a) THEN ToSet(function_asm[a].instrs) \cup {x}
                  ELSE ToSet(function_asm[a].instrs)
  <2>1. function_asm[a] \in Entries /\ function_asm[a].instrs \in Seq(Instrs)
    BY <1>3 DEF Entries
  <2>2. /\ Append(function_asm[a].instrs, x) \in Seq(Instrs)
        /\ ToSet(Append(function_asm[a].instrs, x)) = ToSet(function_asm[a].instrs) \cup {x}
    BY <1>2, <2>1, AppendSet
  <2>3. CASE Mine(a)
    <3>1. function_asm'[a] = [function_asm[a] EXCEPT !.instrs = Append(@, x)]
      BY <1>0, <1>3, <2>3
    <3>2. function_asm'[a].instrs = Append(function_asm[a].instrs, x) /\ function_asm'[a].key = function_asm[a].key
      BY <2>1, <3>1 DEF Entries
    <3>3. function_asm'[a] \in Entries
      BY <2>1, <2>2, <3>1 DEF Entries
    <3> QED  BY <2>2, <2>3, <3>2, <3>3
  <2>4. CASE ~Mine(a)
    BY <1>0, <1>3, <2>1, <2>4
  <2> QED  BY <2>3, <2>4
<1>5. function_asm' \in Seq(Entries) /\ Len(function_asm') = n
  <2>1. DOMAIN function_asm' = 1 .. n /\ \A a \in 1 .. n : function_asm'[a] \in Entries
    BY <1>0, <1>3, <1>4
  <2>2. function_asm' = [a \in 1 .. n |-> function_asm'[a]]
    BY <1>0, <1>3
  <2>3. \A f : f = [a \in 1 .. n |-> f[a]] /\ (\A a \in 1 .. n : f[a] \in Entries) => f \in Seq(Entries) /\ Len(f) = n
    BY <1>3
  <2> QED  BY <2>1, <2>2, <2>3
<1> DEFINE sb == current_function[1] \in SpringboardFunctions /\ Len(current_function) = 1
<1>6. \A a \in 1 .. n : /\ IsSpringboard(function_asm'[a]) <=> IsSpringboard(function_asm[a])
                        /\ Mine(a) => (IsSpringboard(function_asm[a]) <=> sb)
  BY <1>4 DEF IsSpringboard
<1>7. PICK h : Current_(h)
  BY <1>0 DEF ParseInv, FunctionInv
<1>8. sb <=> t[h].name \in SpringboardFunctions
  BY <1>7 DEF Current_
<1>9. Chosen(pos) <=> ~sb
  <2>1. Opens(h, pos) /\ h \in 1 .. pos - 1
    BY <1>7 DEF Current_, Opens
  <2>2. \A g : Opens(g, pos) => g = h
    BY <1>1, <2>1, OneOpens, ListingFacts
  <2> QED  BY <1>0, <1>8, <2>1, <2>2 DEF Chosen
<1>10. PICK b \in 1 .. n : Mine(b)
  BY <1>0 DEF ParseInv, FunctionInv
<1> HIDE DEF Mine, sb
<1>11. Collected(function_asm') = IF sb THEN Collected(function_asm) ELSE Collected(function_asm) \cup {x}
  <2>1. \A y : y \in Collected(function_asm) <=>
          \E a \in 1 .. n : ~IsSpringboard(function_asm[a]) /\ y \in ToSet(function_asm[a].instrs)
    BY <1>1, CollectedIn
  <2>2. \A y : y \in Collected(function_asm') <=>
          \E a \in 1 .. n : ~IsSpringboard(function_asm'[a]) /\ y \in ToSet(function_asm'[a].instrs)
    BY <1>5, CollectedIn
  <2>3. ASSUME NEW y, y \in Collected(function_asm) PROVE y \in Collected(function_asm')
    BY <2>1, <2>2, <2>3, <1>4, <1>6
  <2>4. ASSUME NEW y, y \in Collected(function_asm')
        PROVE  y \in Collected(function_asm) \/ (y = x /\ ~sb)
    BY <2>1, <2>2, <2>4, <1>4, <1>6
  <2>5. ~sb => x \in Collected(function_asm')
    BY <2>2, <1>4, <1>6, <1>10
  <2> QED  BY <2>3, <2>4, <2>5
<1>12. Collected(function_asm') = Before(pos + 1)
  BY <1>1, <1>9, <1>11, BeforeNext DEF ParseInv, AsmInv
<1>13. /\ t' = t /\ Entries' = Entries /\ Before(pos)' = Before(pos')
       /\ \A g : Opens(g, pos)' = Opens(g, pos')
  BY <1>0, ParsePrimes
<1>14. AsmInv'
  <2>1. pos' \in 1 .. Len(t) + 1 /\ dupname_ctr' \in Nat
    BY <1>0, <1>1 DEF ParseInv, AsmInv
  <2>2. Collected(function_asm') = Before(pos')
    BY <1>0, <1>12
  <2> QED  BY <1>5, <1>13, <2>1, <2>2 DEF AsmInv, Collected
<1>15. NamesInv'
  <2>1. \A g \in 1 .. pos - 1 : g \in 1 .. pos' - 1
    BY <1>0, <1>1
  <2>2. \A a \in 1 .. n : function_asm'[a].key = function_asm[a].key
    BY <1>4
  <2> QED  BY <1>5, <1>13, <2>1, <2>2 DEF ParseInv, NamesInv
<1>16. FunctionInv'
  <2>1. Opens(h, pos')
    <3>1. /\ h \in 1 .. pos - 1 /\ t[h].kind = "header" /\ Wanted(t[h].name)
          /\ \A j \in h + 1 .. pos - 1 : t[j].kind = "instr"
      BY <1>7 DEF Current_, Opens
    <3>2. h \in 1 .. pos' - 1 /\ \A j \in h + 1 .. pos' - 1 : j = pos \/ j \in h + 1 .. pos - 1
      BY <1>0, <1>1, <3>1
    <3> QED  BY <1>0, <3>1, <3>2 DEF Opens
  <2>2. Current_(h)'
    BY <1>0, <1>7, <1>13, <2>1 DEF Current_
  <2>3. function_asm'[b].key = current_function' /\ b \in 1 .. Len(function_asm')
    BY <1>0, <1>4, <1>5, <1>10 DEF Mine
  <2> QED  BY <1>0, <2>2, <2>3 DEF FunctionInv
<1> QED  BY <1>14, <1>15, <1>16 DEF ParseInv

-----------------------------------------------------------------------------
(* The loop of main *)

Regs == {"rip"} \cup UNION {x.assigns : x \in Instrs}
FnRec == [entry : Nat, code : Seq(Instrs), saved : SUBSET Regs, closed : BOOLEAN]
Assigned(f) == {"rip"} \cup UNION {i.assigns : i \in ToSet(f.code)}

\* what was emitted comes before what is left
Ordered(ins) == \A i \in Selected \ ins, j \in ins : i.vaddr < j.vaddr
WellFormed(f) ==
  /\ f.code # <<>> => f.entry = f.code[1].vaddr
  /\ \A a, b \in 1 .. Len(f.code) : a < b => f.code[a].vaddr < f.code[b].vaddr
\* the functions fs hold what is no longer in ins, once, the headers perhaps left out
Holds(ins, fs) ==
  /\ \A k \in 1 .. Len(fs) : WellFormed(fs[k]) /\ ToSet(fs[k].code) \subseteq Selected \ ins
  /\ \A i \in Selected \ ins : ~i.header => \E k \in 1 .. Len(fs) : i \in ToSet(fs[k].code)
  /\ \A j, k \in 1 .. Len(fs), i \in Selected :
       i \in ToSet(fs[j].code) /\ i \in ToSet(fs[k].code) => j = k
Core(ins, fs) == ins \subseteq Selected /\ fs \in Seq(FnRec) /\ Ordered(ins) /\ Holds(ins, fs)

\* a closed function: its registers, and the whole of a cartridge or one instruction
Whole(f) ==
  /\ f.saved = Assigned(f)
  /\ f.code # <<>> =>
       IF \E p \in binary.pairs : p.head = f.entry
       THEN \E p \in binary.pairs : p.head = f.entry /\ ToSet(f.code) = Cartridge(p)
       ELSE Len(f.code) = 1
\* the cartridge p was begun in f, and its last instruction is still to come
Begun(p, f, ins) ==
  /\ p.head = f.entry /\ ToSet(f.code) = Cartridge(p) \ ins
  /\ \E y \in ins : y.vaddr < p.tail /\ p.tail <= y.vaddr + y.length
AllClosed(fs) == \A k \in 1 .. Len(fs) : fs[k].closed /\ Whole(fs[k])
OpenLast(fs, regs, end, ins) ==
  /\ fs # <<>> /\ ~fs[Len(fs)].closed /\ fs[Len(fs)].code # <<>>
  /\ \A k \in 1 .. Len(fs) : k # Len(fs) => fs[k].closed /\ Whole(fs[k])
  /\ regs = Assigned(fs[Len(fs)])
  /\ \E p \in binary.pairs : p.tail = end /\ Begun(p, fs[Len(fs)], ins)
ClosedInv ==
  IF in_cartridge THEN OpenLast(fns, BB_ASSIGNED_REGS, curr_cartridge, instrs)
  ELSE AllClosed(fns) /\ BB_ASSIGNED_REGS = {"rip"}
EmitInv == in_cartridge \in BOOLEAN /\ Core(instrs, fns) /\ ClosedInv

Idle == fns = <<>> /\ BB_ASSIGNED_REGS = {"rip"} /\ in_cartridge = FALSE
Ready == /\ function_asm \in Seq(Entries) /\ instrs = Selected
         /\ \A e \in ToSet(function_asm) : Len(e.instrs) >= 1
PtInv ==
  /\ ListingInv /\ phase \in {"parse", "springboard", "emit", "done"}
  /\ phase = "parse" => ParseInv /\ Idle
  /\ phase = "springboard" => Ready /\ Idle
  /\ phase \in {"emit", "done"} => EmitInv
  /\ phase = "done" => instrs = {}

(* Instructions do not overlap, and the selected ones are among them.      *)
LEMMA InstrFacts ==
  ASSUME ListingInv
  PROVE  /\ Selected \subseteq Instrs
         /\ \A x \in Instrs : x.vaddr \in Nat /\ x.length \in Nat \ {0} /\ x.header \in BOOLEAN
         /\ \A x, y \in Instrs : x # y => \/ x.vaddr + x.length <= y.vaddr
                                          \/ y.vaddr + y.length <= x.vaddr
<1>1. Selected \subseteq Instrs
  BY DEF Selected, Instrs, InstrLines, t
<1>2. \A x \in Instrs : x.vaddr \in Nat /\ x.length \in Nat \ {0} /\ x.header \in BOOLEAN
  BY ListingFacts DEF Instrs
<1>3. ASSUME NEW x \in Instrs, NEW y \in Instrs, x # y
      PROVE  x.vaddr + x.length <= y.vaddr \/ y.vaddr + y.length <= x.vaddr
  <2>1. PICK j \in InstrLines : x = t[j]
    BY DEF Instrs
  <2>2. PICK k \in InstrLines : y = t[k]
    BY DEF Instrs
  <2>3. j \in Nat /\ k \in Nat /\ j # k
    BY <1>3, <2>1, <2>2, ListingFacts DEF InstrLines
  <2>4. CASE j < k
    BY <2>1, <2>2, <2>4, ListingFacts
  <2>5. CASE k < j
    BY <2>1, <2>2, <2>5, ListingFacts
  <2> QED  BY <2>3, <2>4, <2>5
<1> QED  BY <1>1, <1>2, <1>3

(* The instruction of a round is the first of those that are left.         *)
LEMMA CurrentFirst ==
  ASSUME ListingInv, instrs \subseteq Selected, instrs # {}
  PROVE  /\ Current \in instrs
         /\ \A j \in instrs : j # Current => Current.vaddr + Current.length <= j.vaddr
<1>0. instrs \subseteq Instrs /\ \A x \in Instrs : x.vaddr \in Nat /\ x.length \in Nat \ {0}
  BY InstrFacts
<1> DEFINE T == {x.vaddr : x \in instrs}
<1>1. T \subseteq Nat /\ T # {}
  BY <1>0
<1>2. PICK v \in T : \A w \in T : v <= w
  <2> HIDE DEF T
  <2> QED  BY <1>1, LeastNat
<1>3. \E i \in instrs : \A j \in instrs : i.vaddr <= j.vaddr
  BY <1>2
<1>4. Current \in instrs /\ \A j \in instrs : Current.vaddr <= j.vaddr
  BY <1>3 DEF Current
<1>5. ASSUME NEW j \in instrs, j # Current
      PROVE  Current.vaddr + Current.length <= j.vaddr
  <2>1. Current \in Instrs /\ j \in Instrs /\ Current.vaddr <= j.vaddr
    BY <1>0, <1>4
  <2>2. Current.vaddr + Current.length <= j.vaddr \/ j.vaddr + j.length <= Current.vaddr
    BY <1>5, <2>1, InstrFacts
  <2> QED  BY <1>0, <2>1, <2>2
<1> QED  BY <1>4, <1>5

(* The end of a cartridge whose first instruction is selected: the last    *)
(* instruction below it is selected too.                                   *)
LEMMA CartridgeEnds ==
  ASSUME ListingInv, NEW x \in Selected, NEW p \in binary.pairs, p.head = x.vaddr
  PROVE  /\ p.tail \in Nat /\ p.head \in Nat
         /\ \E y \in Selected : x.vaddr <= y.vaddr /\ y.vaddr < p.tail /\ p.tail <= y.vaddr + y.length
<1>1. InOneFunction(t, p) /\ p.tail \in Nat /\ p.head \in Nat
  BY ListingFacts DEF InOneFunction
<1>2. PICK k \in DOMAIN t : Chosen(k) /\ x = t[k]
  BY SelectedBefore DEF Before
<1>3. t[k].kind = "instr" /\ k \in InstrLines /\ k \in Nat
  BY <1>2, ListingFacts DEF Chosen, InstrLines
<1>4. PICK n \in k .. Len(t) : /\ \A j \in k .. n : t[j].kind = "instr"
                               /\ t[n].vaddr < p.tail /\ p.tail <= t[n].vaddr + t[n].length
  BY <1>1, <1>2, <1>3 DEF InOneFunction
<1>5. n \in DOMAIN t /\ n \in Nat /\ k <= n /\ n <= Len(t) /\ Len(t) \in Nat
  BY <1>3, <1>4, ListingFacts
<1>6. t[n].kind = "instr" /\ n \in InstrLines
  BY <1>3, <1>4, <1>5 DEF InstrLines
<1>7. PICK h \in 1 .. k - 1 : Opens(h, k) /\ t[h].name \notin SpringboardFunctions
  BY <1>2 DEF Chosen
<1>8. Opens(h, n)
  <2>1. h \in 1 .. n - 1 /\ \A j \in h + 1 .. n - 1 : j \in h + 1 .. k - 1 \/ j \in k .. n
    BY <1>3, <1>5, <1>7
  <2> QED  BY <1>4, <1>7, <2>1 DEF Opens
<1>9. Chosen(n)
  BY <1>6, <1>7, <1>8, <1>3, <1>5 DEF Chosen
<1>10. t[n] \in Selected
  BY <1>5, <1>9, SelectedBefore DEF Before
<1>11. t[k].vaddr <= t[n].vaddr
  <2>1. CASE k = n
    BY <2>1, <1>3, ListingFacts
  <2>2. CASE k # n
    <3>1. t[k].vaddr + t[k].length <= t[n].vaddr
      BY <1>3, <1>5, <1>6, <2>2, ListingFacts
    <3> QED  BY <1>3, <1>6, <3>1, ListingFacts
  <2> QED  BY <2>1, <2>2
<1> QED  BY <1>1, <1>2, <1>4, <1>10, <1>11

(* The next instruction is taken out of those that are left.               *)
LEMMA OrderedNext ==
  ASSUME ListingInv, NEW ins, ins \subseteq Selected, Ordered(ins), NEW c \in ins,
         \A j \in ins : j # c => c.vaddr + c.length <= j.vaddr
  PROVE  Ordered(ins \ {c}) /\ Selected \ (ins \ {c}) = (Selected \ ins) \cup {c}
<1>1. Selected \ (ins \ {c}) = (Selected \ ins) \cup {c}
  OBVIOUS
<1>2. ASSUME NEW i \in (Selected \ ins) \cup {c}, NEW j \in ins \ {c} PROVE i.vaddr < j.vaddr
  <2>1. i \in Instrs /\ j \in Instrs /\ c \in Instrs
    BY InstrFacts
  <2>2. /\ i.vaddr \in Nat /\ j.vaddr \in Nat /\ c.vaddr \in Nat /\ c.length \in Nat \ {0}
    BY <2>1, InstrFacts
  <2>3. CASE i = c
    BY <2>2, <2>3
  <2>4. CASE i # c
    BY <2>4 DEF Ordered
  <2> QED  BY <2>3, <2>4
<1> QED  BY <1>1, <1>2 DEF Ordered

(* It goes into one function, which is a new one or one that is there.     *)
LEMMA HoldsNext ==
  ASSUME ListingInv, NEW ins, NEW fs, Core(ins, fs), NEW c \in ins,
         \A j \in ins : j # c => c.vaddr + c.length <= j.vaddr,
         NEW r \in Seq(FnRec), NEW m \in 1 .. Len(r),
         \A k \in 1 .. Len(r) : WellFormed(r[k]),
         \A k \in 1 .. Len(fs) : k \in 1 .. Len(r) /\ ToSet(fs[k].code) \subseteq ToSet(r[k].code),
         \A k \in 1 .. Len(r) : k # m => k \in 1 .. Len(fs) /\ ToSet(r[k].code) = ToSet(fs[k].code),
         c \in ToSet(r[m].code),
         \A i \in ToSet(r[m].code) : i = c \/ (m \in 1 .. Len(fs) /\ i \in ToSet(fs[m].code))
  PROVE  Core(ins \ {c}, r)
<1> DEFINE S == (Selected \ ins) \cup {c}
<1>1. Ordered(ins \ {c}) /\ Selected \ (ins \ {c}) = S
  BY OrderedNext DEF Core
<1>2. c \in Selected /\ ins \ {c} \subseteq Selected
  BY DEF Core
<1>3. /\ \A k \in 1 .. Len(fs) : ToSet(fs[k].code) \subseteq Selected \ ins
      /\ \A i \in Selected \ ins : ~i.header => \E k \in 1 .. Len(fs) : i \in ToSet(fs[k].code)
      /\ \A j, k \in 1 .. Len(fs), i \in Selected :
           i \in ToSet(fs[j].code) /\ i \in ToSet(fs[k].code) => j = k
  BY DEF Core, Holds
<1>4. ASSUME NEW k \in 1 .. Len(r) PROVE ToSet(r[k].code) \subseteq S
  BY <1>3
<1>5. ASSUME NEW i \in S, ~i.header PROVE \E k \in 1 .. Len(r) : i \in ToSet(r[k].code)
  <2>1. CASE i = c
    BY <2>1
  <2>2. CASE i \in Selected \ ins
    <3>1. PICK k \in 1 .. Len(fs) : i \in ToSet(fs[k].code)
      BY <1>3, <1>5, <2>2
    <3> QED  BY <3>1
  <2> QED  BY <2>1, <2>2
<1>6. ASSUME NEW j \in 1 .. Len(r), NEW k \in 1 .. Len(r), NEW i \in Selected,
             i \in ToSet(r[j].code), i \in ToSet(r[k].code)
      PROVE  j = k
  <2>1. CASE i = c
    <3>1. \A a \in 1 .. Len(r) : c \in ToSet(r[a].code) => a = m
      BY <1>3
    <3> QED  BY <1>6, <2>1, <3>1
  <2>2. CASE i # c
    <3>1. \A a \in 1 .. Len(r) : i \in ToSet(r[a].code) => a \in 1 .. Len(fs) /\ i \in ToSet(fs[a].code)
      BY <2>2
    <3> QED  BY <1>3, <1>6, <3>1
  <2> QED  BY <2>1, <2>2
<1>7. Holds(ins \ {c}, r)
  BY <1>1, <1>4, <1>5, <1>6 DEF Holds
<1> QED  BY <1>1, <1>2, <1>7 DEF Core

(* A new function with the next instruction.                               *)
LEMMA AddFn ==
  ASSUME ListingInv, NEW ins, NEW fs, Core(ins, fs), NEW c \in ins,
         \A j \in ins : j # c => c.vaddr + c.length <= j.vaddr,
         NEW f \in FnRec, f.code = <<c>>, f.entry = c.vaddr
  PROVE  Core(ins \ {c}, Append(fs, f))
<1> DEFINE r == Append(fs, f)
<1>0. fs \in Seq(FnRec) /\ ins \subseteq Selected
  BY DEF Core
<1>1. /\ r \in Seq(FnRec) /\ Len(r) = Len(fs) + 1 /\ r[Len(fs) + 1] = f /\ Len(fs) \in Nat
      /\ \A k \in 1 .. Len(fs) : r[k] = fs[k]
  BY <1>0, AppendSet
<1>2. ToSet(f.code) = {c} /\ Len(f.code) = 1 /\ f.code[1] = c
  BY DEF ToSet
<1>3. WellFormed(f)
  BY <1>2 DEF WellFormed
<1> HIDE DEF r
<1>4. \A k \in 1 .. Len(r) : k = Len(fs) + 1 \/ k \in 1 .. Len(fs)
  BY <1>1
<1>5. \A k \in 1 .. Len(fs) : k \in 1 .. Len(r)
  BY <1>1
<1>6. Len(fs) + 1 \in 1 .. Len(r)
  BY <1>1
<1>7. \A k \in 1 .. Len(r) : WellFormed(r[k])
  BY <1>1, <1>3, <1>4 DEF Core, Holds
<1> DEFINE m == Len(fs) + 1
<1>8. /\ m \in 1 .. Len(r) /\ r[m] = f
      /\ \A k \in 1 .. Len(fs) : k \in 1 .. Len(r) /\ ToSet(fs[k].code) \subseteq ToSet(r[k].code)
      /\ \A k \in 1 .. Len(r) : k # m => k \in 1 .. Len(fs) /\ ToSet(r[k].code) = ToSet(fs[k].code)
      /\ c \in ToSet(r[m].code)
      /\ \A i \in ToSet(r[m].code) : i = c \/ (m \in 1 .. Len(fs) /\ i \in ToSet(fs[m].code))
  BY <1>1, <1>2, <1>4, <1>5, <1>6
<1> HIDE DEF m
<1>9. Core(ins \ {c}, r)
  BY <1>1, <1>7, <1>8, HoldsNext
<1> QED  BY <1>9 DEF r

(* The next instruction at the end of the last function.                   *)
LEMMA ExtendFn ==
  ASSUME ListingInv, NEW ins, NEW fs, Core(ins, fs), NEW c \in ins,
         \A j \in ins : j # c => c.vaddr + c.length <= j.vaddr,
         fs # <<>>, fs[Len(fs)].code # <<>>, NEW f \in FnRec,
         f.code = Append(fs[Len(fs)].code, c), f.entry = fs[Len(fs)].entry
  PROVE  Core(ins \ {c}, [fs EXCEPT ![Len(fs)] = f])
<1> DEFINE m == Len(fs)
           r == [fs EXCEPT ![m] = f]
           old == fs[m].code
<1>0. fs \in Seq(FnRec) /\ ins \subseteq Selected /\ c \in Instrs
  BY InstrFacts DEF Core
<1>1. m \in Nat /\ m \in 1 .. m /\ DOMAIN fs = 1 .. m /\ fs[m] \in FnRec
  BY <1>0
<1>2. /\ r \in Seq(FnRec) /\ Len(r) = m /\ r[m] = f
      /\ \A k \in 1 .. m : k # m => r[k] = fs[k]
  BY <1>0, <1>1
<1>3. old \in Seq(Instrs) /\ Len(old) \in Nat /\ Len(old) >= 1
  <2>1. old \in Seq(Instrs)
    BY <1>1 DEF FnRec
  <2> QED  BY <2>1
<1>4. /\ ToSet(f.code) = ToSet(old) \cup {c} /\ Len(f.code) = Len(old) + 1
      /\ f.code[Len(old) + 1] = c /\ \A i \in 1 .. Len(old) : f.code[i] = old[i]
  BY <1>0, <1>3, AppendSet
<1>5. WellFormed(fs[m]) /\ ToSet(old) \subseteq Selected \ ins
  BY <1>1 DEF Core, Holds
<1>6. WellFormed(f)
  <2>1. f.entry = f.code[1].vaddr
    BY <1>3, <1>4, <1>5 DEF WellFormed
  <2>2. ASSUME NEW a \in 1 .. Len(f.code), NEW b \in 1 .. Len(f.code), a < b
        PROVE  f.code[a].vaddr < f.code[b].vaddr
    <3>1. a \in 1 .. Len(old) /\ f.code[a] = old[a]
      BY <1>3, <1>4, <2>2
    <3>2. old[a] \in Selected \ ins
      BY <1>3, <1>5, <3>1, SetOfSeq
    <3>3. CASE b = Len(old) + 1
      BY <1>4, <3>1, <3>2, <3>3 DEF Core, Ordered
    <3>4. CASE b # Len(old) + 1
      <4>1. b \in 1 .. Len(old)
        BY <1>3, <1>4, <3>4
      <4> QED  BY <1>4, <1>5, <2>2, <3>1, <4>1 DEF WellFormed
    <3> QED  BY <3>3, <3>4
  <2> QED  BY <2>1, <2>2 DEF WellFormed
<1> HIDE DEF r
<1>7. \A k \in 1 .. Len(r) : WellFormed(r[k])
  BY <1>2, <1>6 DEF Core, Holds
<1>8. /\ m \in 1 .. Len(r)
      /\ \A k \in 1 .. Len(fs) : k \in 1 .. Len(r) /\ ToSet(fs[k].code) \subseteq ToSet(r[k].code)
      /\ \A k \in 1 .. Len(r) : k # m => k \in 1 .. Len(fs) /\ ToSet(r[k].code) = ToSet(fs[k].code)
      /\ c \in ToSet(r[m].code)
      /\ \A i \in ToSet(r[m].code) : i = c \/ (m \in 1 .. Len(fs) /\ i \in ToSet(fs[m].code))
  BY <1>1, <1>2, <1>4
<1>9. r \in Seq(FnRec)
  BY <1>2
<1> HIDE DEF m, old
<1>10. Core(ins \ {c}, r)
  BY <1>7, <1>8, <1>9, HoldsNext
<1> QED  BY <1>10 DEF r, m

(* An instruction of a cartridge header goes into no function.             *)
LEMMA LeaveOut ==
  ASSUME ListingInv, NEW ins, NEW fs, Core(ins, fs), NEW c \in ins, c.header,
         \A j \in ins : j # c => c.vaddr + c.length <= j.vaddr
  PROVE  Core(ins \ {c}, fs)
<1>1. Ordered(ins \ {c}) /\ Selected \ (ins \ {c}) = (Selected \ ins) \cup {c}
  BY OrderedNext DEF Core
<1>2. Holds(ins \ {c}, fs)
  BY <1>1 DEF Core, Holds
<1> QED  BY <1>1, <1>2 DEF Core

(* Functions with the same fields are the same.                            *)
LEMMA SameFn ==
  ASSUME NEW x \in FnRec, NEW y \in FnRec,
         x.entry = y.entry, x.code = y.code, x.saved = y.saved, x.closed = y.closed
  PROVE  x = y
  BY DEF FnRec
(* A function with other code.                                             *)
LEMMA FnExcept ==
  ASSUME NEW f \in FnRec, NEW code \in Seq(Instrs)
  PROVE  LET h == [f EXCEPT !.code = code]
         IN  /\ h \in FnRec /\ h.entry = f.entry /\ h.code = code
             /\ h.saved = f.saved /\ h.closed = f.closed
  BY DEF FnRec

(* What the prolog, the code and the epilog write, function by function.   *)
LEMMA Started ==
  ASSUME ListingInv, NEW fs \in Seq(FnRec), NEW c \in Instrs
  PROVE  Code(Prolog(fs, c), c) =
           Append(fs, [entry |-> c.vaddr, code |-> <<c>>, saved |-> {}, closed |-> FALSE])
<1> DEFINE e == [entry |-> c.vaddr, code |-> <<>>, saved |-> {}, closed |-> FALSE]
           g == [entry |-> c.vaddr, code |-> <<c>>, saved |-> {}, closed |-> FALSE]
           n == Len(fs) + 1
<1>1. e \in FnRec /\ g \in FnRec
  <2>1. c.vaddr \in Nat
    BY InstrFacts
  <2> QED  BY <2>1 DEF FnRec
<1>2. /\ Append(fs, e) \in Seq(FnRec) /\ Len(Append(fs, e)) = n /\ Append(fs, e)[n] = e
      /\ \A k \in 1 .. Len(fs) : Append(fs, e)[k] = fs[k]
  BY <1>1, AppendSet
<1>3. /\ Append(fs, g) \in Seq(FnRec) /\ Len(Append(fs, g)) = n /\ Append(fs, g)[n] = g
      /\ \A k \in 1 .. Len(fs) : Append(fs, g)[k] = fs[k]
  BY <1>1, AppendSet
<1>4. g = [e EXCEPT !.code = Append(@, c)]
  <2>1. Append(<<>>, c) = <<c>>
    OBVIOUS
  <2>2. [e EXCEPT !.code = Append(@, c)] = [e EXCEPT !.code = <<c>>]
    BY <2>1
  <2>3. /\ e.entry = g.entry /\ e.saved = g.saved /\ e.closed = g.closed /\ g.code = <<c>>
        /\ <<c>> \in Seq(Instrs)
    OBVIOUS
  <2> HIDE DEF e, g
  <2> DEFINE h == [e EXCEPT !.code = <<c>>]
  <2>4. /\ h \in FnRec /\ h.entry = e.entry /\ h.code = <<c>> /\ h.saved = e.saved
        /\ h.closed = e.closed
    BY <1>1, <2>3, FnExcept
  <2> HIDE DEF h
  <2>5. h = g
    BY <1>1, <2>3, <2>4, SameFn
  <2> QED  BY <2>2, <2>5 DEF h
<1>5. Prolog(fs, c) = Append(fs, e)
  BY DEF Prolog
<1> DEFINE r == Append(fs, e)
           s == Append(fs, g)
           q == Code(r, c)
<1> HIDE DEF e, g
<1>6. Len(fs) \in Nat /\ DOMAIN r = 1 .. n /\ DOMAIN s = 1 .. n
  BY <1>2, <1>3
<1>7. q = [r EXCEPT ![n] = g]
  BY <1>2, <1>4 DEF Code
<1> HIDE DEF r, s, q
<1>8. q = [k \in 1 .. n |-> IF k = n THEN g ELSE r[k]]
  BY <1>6, <1>7
<1>9. \A k \in 1 .. n : k = n \/ k \in 1 .. Len(fs)
  BY <1>6
<1>10. s = [k \in 1 .. n |-> s[k]]
  <2>1. s \in Seq(FnRec) /\ Len(s) = n
    BY <1>3 DEF s
  <2> QED  BY <2>1
<1>11. \A k \in 1 .. n : s[k] = IF k = n THEN g ELSE r[k]
  BY <1>2, <1>3, <1>6, <1>9 DEF s, r
<1>12. q = s
  BY <1>8, <1>10, <1>11
<1> QED  BY <1>5, <1>12 DEF q, r, s, g

(* An epilog right after that.                                             *)
LEMMA ClosedAppend ==
  ASSUME NEW fs \in Seq(FnRec), NEW f \in FnRec, NEW regs \in SUBSET Regs
  PROVE  LET g == [entry |-> f.entry, code |-> f.code, saved |-> regs, closed |-> TRUE]
         IN  g \in FnRec /\ Epilog(Append(fs, f), regs) = Append(fs, g)
<1> DEFINE g == [entry |-> f.entry, code |-> f.code, saved |-> regs, closed |-> TRUE]
           n == Len(fs) + 1
           r == Append(fs, f)
           s == Append(fs, g)
           q == Epilog(r, regs)
<1>1. g \in FnRec
  BY DEF FnRec
<1>2. /\ r \in Seq(FnRec) /\ Len(r) = n /\ r[n] = f
      /\ \A k \in 1 .. Len(fs) : r[k] = fs[k]
  BY <1>1, AppendSet
<1>3. /\ s \in Seq(FnRec) /\ Len(s) = n /\ s[n] = g
      /\ \A k \in 1 .. Len(fs) : s[k] = fs[k]
  <2> HIDE DEF g
  <2> QED  BY <1>1, AppendSet
<1>4. g = [f EXCEPT !.saved = regs, !.closed = TRUE]
  <2> DEFINE h == [f EXCEPT !.saved = regs, !.closed = TRUE]
  <2>1. /\ h \in FnRec /\ h.entry = f.entry /\ h.code = f.code /\ h.saved = regs
        /\ h.closed = TRUE
    BY DEF FnRec
  <2>2. g.entry = f.entry /\ g.code = f.code /\ g.saved = regs /\ g.closed = TRUE
    OBVIOUS
  <2> HIDE DEF h, g
  <2>3. h = g
    BY <1>1, <2>1, <2>2, SameFn
  <2> QED  BY <2>3 DEF h
<1> HIDE DEF g
<1>5. Len(fs) \in Nat /\ DOMAIN r = 1 .. n /\ DOMAIN s = 1 .. n
  BY <1>2, <1>3
<1>6. q = [r EXCEPT ![n] = g]
  <2>1. q = [[r EXCEPT ![n].saved = regs] EXCEPT ![n].closed = TRUE]
    BY <1>2 DEF Epilog
  <2> HIDE DEF r, q
  <2>2. [r EXCEPT ![n].saved = regs] = [r EXCEPT ![n] = [f EXCEPT !.saved = regs]]
    BY <1>2
  <2> DEFINE r1 == [r EXCEPT ![n] = [f EXCEPT !.saved = regs]]
  <2>3. r1[n] = [f EXCEPT !.saved = regs] /\ DOMAIN r1 = 1 .. n
    BY <1>5
  <2>4. [r1 EXCEPT ![n].closed = TRUE] = [r1 EXCEPT ![n] = [[f EXCEPT !.saved = regs] EXCEPT !.closed = TRUE]]
    BY <2>3
  <2>5. [r1 EXCEPT ![n] = g] = [r EXCEPT ![n] = g]
    BY <1>5
  <2> QED  BY <1>4, <2>1, <2>2, <2>4, <2>5
<1> HIDE DEF r, s, q
<1>8. q = [k \in 1 .. n |-> IF k = n THEN g ELSE r[k]]
  BY <1>5, <1>6
<1>9. \A k \in 1 .. n : k = n \/ k \in 1 .. Len(fs)
  BY <1>5
<1>10. s = [k \in 1 .. n |-> s[k]]
  BY <1>3
<1>11. \A k \in 1 .. n : s[k] = IF k = n THEN g ELSE r[k]
  BY <1>2, <1>3, <1>5, <1>9
<1>12. q = s
  BY <1>8, <1>10, <1>11
<1> QED  BY <1>1, <1>12 DEF q, r, s, g

(* The code of an instruction at the end of the last function, without and *)
(* with an epilog.                                                         *)
LEMMA Extended ==
  ASSUME NEW fs \in Seq(FnRec), fs # <<>>, NEW c \in Instrs, NEW regs \in SUBSET Regs
  PROVE  LET m == Len(fs)
             f == [fs[m] EXCEPT !.code = Append(@, c)]
             g == [entry |-> fs[m].entry, code |-> Append(fs[m].code, c), saved |-> regs, closed |-> TRUE]
         IN  /\ f \in FnRec /\ g \in FnRec
             /\ f.code = Append(fs[m].code, c) /\ f.entry = fs[m].entry /\ f.closed = fs[m].closed
             /\ Code(fs, c) = [fs EXCEPT ![m] = f]
             /\ Epilog(Code(fs, c), regs) = [fs EXCEPT ![m] = g]
<1> DEFINE m == Len(fs)
           f == [fs[m] EXCEPT !.code = Append(@, c)]
           g == [entry |-> fs[m].entry, code |-> Append(fs[m].code, c), saved |-> regs, closed |-> TRUE]
<1>1. m \in Nat /\ m \in 1 .. m /\ DOMAIN fs = 1 .. m /\ fs[m] \in FnRec
  OBVIOUS
<1>2. fs[m].code \in Seq(Instrs) /\ Append(fs[m].code, c) \in Seq(Instrs)
  <2>1. fs[m].code \in Seq(Instrs)
    BY <1>1 DEF FnRec
  <2> QED  BY <2>1
<1>3. f \in FnRec /\ g \in FnRec
  BY <1>1, <1>2 DEF FnRec
<1>4. f.code = Append(fs[m].code, c) /\ f.entry = fs[m].entry /\ f.closed = fs[m].closed
  BY <1>1 DEF FnRec
<1>5. Code(fs, c) = [fs EXCEPT ![m] = f]
  BY <1>1 DEF Code
<1>6. g = [f EXCEPT !.saved = regs, !.closed = TRUE]
  <2> DEFINE h == [f EXCEPT !.saved = regs, !.closed = TRUE]
  <2>1. /\ g.entry = fs[m].entry /\ g.code = Append(fs[m].code, c) /\ g.saved = regs
        /\ g.closed = TRUE
    OBVIOUS
  <2> HIDE DEF f, g
  <2>2. /\ h \in FnRec /\ h.entry = f.entry /\ h.code = f.code /\ h.saved = regs
        /\ h.closed = TRUE
    BY <1>3 DEF FnRec
  <2> HIDE DEF h
  <2>3. h = g
    BY <1>3, <1>4, <2>1, <2>2, SameFn
  <2> QED  BY <2>3 DEF h
<1> DEFINE r == [fs EXCEPT ![m] = f]
<1>7. Len(r) = m /\ r[m] = f /\ DOMAIN r = 1 .. m
  <2>1. r \in Seq(FnRec)
    <3> HIDE DEF f
    <3> QED  BY <1>1, <1>3
  <2> HIDE DEF f
  <2> QED  BY <1>1, <2>1
<1>8. Epilog(r, regs) = [r EXCEPT ![m] = g]
  <2>1. Epilog(r, regs) = [[r EXCEPT ![m].saved = regs] EXCEPT ![m].closed = TRUE]
    BY <1>7 DEF Epilog
  <2> HIDE DEF r, f, g
  <2>2. [r EXCEPT ![m].saved = regs] = [r EXCEPT ![m] = [f EXCEPT !.saved = regs]]
    BY <1>7
  <2> DEFINE r1 == [r EXCEPT ![m] = [f EXCEPT !.saved = regs]]
  <2>3. r1[m] = [f EXCEPT !.saved = regs] /\ DOMAIN r1 = 1 .. m
    BY <1>1, <1>7
  <2>4. [r1 EXCEPT ![m].closed = TRUE] = [r1 EXCEPT ![m] = [[f EXCEPT !.saved = regs] EXCEPT !.closed = TRUE]]
    BY <2>3
  <2>5. [r1 EXCEPT ![m] = g] = [r EXCEPT ![m] = g]
    BY <1>7
  <2> QED  BY <1>6, <2>1, <2>2, <2>4, <2>5
<1>9. [r EXCEPT ![m] = g] = [fs EXCEPT ![m] = g]
  <2> HIDE DEF f, g
  <2> QED  BY <1>1
<1> HIDE DEF f, g, r
<1>10. Epilog(Code(fs, c), regs) = [fs EXCEPT ![m] = g]
  BY <1>5, <1>8, <1>9 DEF r
<1> QED  BY <1>3, <1>4, <1>5, <1>10 DEF f, g

-----------------------------------------------------------------------------
(* Cartridges *)

(* The first instruction of a cartridge: it is the only one that is out of *)
(* those left, and the last one is among them.                             *)
LEMMA CartridgeBegins ==
  ASSUME ListingInv, NEW ins, NEW fs, Core(ins, fs), NEW c \in ins,
         \A j \in ins : j # c => c.vaddr + c.length <= j.vaddr,
         NEW p \in binary.pairs, p.head = c.vaddr
  PROVE  /\ Cartridge(p) \ (ins \ {c}) = {c} /\ p.tail \in Nat
         /\ \E y \in ins : y.vaddr < p.tail /\ p.tail <= y.vaddr + y.length
<1>0. c \in Selected /\ c \in Instrs /\ ins \subseteq Selected /\ Selected \subseteq Instrs
  BY InstrFacts DEF Core
<1>1. PICK y \in Selected : c.vaddr <= y.vaddr /\ y.vaddr < p.tail /\ p.tail <= y.vaddr + y.length
  BY <1>0, CartridgeEnds
<1>2. p.tail \in Nat /\ p.head \in Nat
  BY <1>0, CartridgeEnds
<1>3. \A i \in Selected \ ins : i.vaddr < c.vaddr
  BY DEF Core, Ordered
<1>4. \A i \in Selected : i.vaddr \in Nat
  BY <1>0, InstrFacts
<1>5. y \in ins
  BY <1>0, <1>1, <1>3, <1>4
<1>6. c \in Cartridge(p)
  <2>1. c.vaddr < p.tail /\ p.head <= c.vaddr
    BY <1>0, <1>1, <1>2, <1>4
  <2> QED  BY <1>0, <2>1 DEF Cartridge
<1>7. ASSUME NEW i \in Cartridge(p) \ (ins \ {c}) PROVE i = c
  <2>1. i \in Selected /\ p.head <= i.vaddr
    BY DEF Cartridge
  <2>2. i \in ins
    BY <1>0, <1>3, <1>4, <2>1
  <2> QED  BY <1>7, <2>2
<1> QED  BY <1>1, <1>2, <1>5, <1>6, <1>7

(* Nothing of a cartridge is left after the instruction that reaches its   *)
(* end.                                                                    *)
LEMMA CartridgeTaken ==
  ASSUME ListingInv, NEW ins, ins \subseteq Selected, NEW c \in ins,
         \A j \in ins : j # c => c.vaddr + c.length <= j.vaddr,
         NEW p \in binary.pairs, p.tail \in Nat, Reaches(c, p.tail)
  PROVE  Cartridge(p) \ (ins \ {c}) = Cartridge(p)
<1>1. ASSUME NEW j \in ins \ {c}, j \in Cartridge(p) PROVE FALSE
  <2>1. c \in Instrs /\ j \in Instrs
    BY InstrFacts
  <2>2. c.vaddr \in Nat /\ c.length \in Nat /\ j.vaddr \in Nat
    BY <2>1, InstrFacts
  <2>3. c.vaddr + c.length >= p.tail /\ j.vaddr < p.tail /\ c.vaddr + c.length <= j.vaddr
    BY <1>1 DEF Reaches, Cartridge
  <2> QED  BY <2>2, <2>3
<1> QED  BY <1>1

(* The next instruction of an open cartridge is one of its instructions.   *)
LEMMA CartridgeGoesOn ==
  ASSUME ListingInv, NEW ins, NEW fs, Core(ins, fs), NEW c \in ins,
         \A j \in ins : j # c => c.vaddr + c.length <= j.vaddr,
         fs # <<>>, fs[Len(fs)].code # <<>>,
         NEW p \in binary.pairs, Begun(p, fs[Len(fs)], ins)
  PROVE  /\ c \in Cartridge(p) /\ p.tail \in Nat
         /\ Cartridge(p) \ (ins \ {c}) = ToSet(fs[Len(fs)].code) \cup {c}
         /\ ~Reaches(c, p.tail) =>
              \E y \in ins \ {c} : y.vaddr < p.tail /\ p.tail <= y.vaddr + y.length
<1> DEFINE f == fs[Len(fs)]
<1>0. c \in Selected /\ c \in Instrs /\ ins \subseteq Selected /\ Selected \subseteq Instrs /\ fs \in Seq(FnRec)
  BY InstrFacts DEF Core
<1>1. Len(fs) \in 1 .. Len(fs) /\ f \in FnRec
  BY <1>0
<1>2. WellFormed(f) /\ ToSet(f.code) \subseteq Selected \ ins
  BY <1>1 DEF Core, Holds
<1>3. f.code \in Seq(Instrs) /\ Len(f.code) >= 1
  <2>1. f.code \in Seq(Instrs)
    BY <1>1 DEF FnRec
  <2> QED  BY <2>1
<1>4. f.code[1] \in Selected \ ins /\ f.entry = f.code[1].vaddr
  <2>1. 1 \in 1 .. Len(f.code)
    BY <1>3
  <2>2. f.code[1] \in ToSet(f.code)
    BY <1>3, <2>1, SetOfSeq
  <2> QED  BY <1>2, <2>2 DEF WellFormed
<1>5. \A i \in Selected : i.vaddr \in Nat /\ i.length \in Nat \ {0}
  BY <1>0, InstrFacts
<1>6. p.head < c.vaddr
  BY <1>4 DEF Core, Ordered, Begun
<1>7. PICK y \in ins : y.vaddr < p.tail /\ p.tail <= y.vaddr + y.length
  BY DEF Begun
<1>8. p.tail \in Nat /\ p.head \in Nat
  BY ListingFacts DEF InOneFunction
<1>9. c.vaddr <= y.vaddr
  BY <1>0, <1>5
<1>10. c \in Cartridge(p)
  <2>1. c.vaddr < p.tail /\ p.head <= c.vaddr
    BY <1>0, <1>5, <1>6, <1>7, <1>8, <1>9
  <2> QED  BY <1>0, <2>1 DEF Cartridge
<1>11. Cartridge(p) \ (ins \ {c}) = ToSet(f.code) \cup {c}
  BY <1>10 DEF Begun
<1>12. ~Reaches(c, p.tail) => y # c
  BY <1>0, <1>5, <1>7, <1>8 DEF Reaches
<1> QED  BY <1>7, <1>8, <1>10, <1>11, <1>12

(* A closed function after closed ones.                                    *)
LEMMA CloseAppend ==
  ASSUME NEW fs \in Seq(FnRec), AllClosed(fs), NEW f \in FnRec, f.closed, Whole(f)
  PROVE  AllClosed(Append(fs, f))
<1>1. /\ Len(Append(fs, f)) = Len(fs) + 1 /\ Append(fs, f)[Len(fs) + 1] = f /\ Len(fs) \in Nat
      /\ \A k \in 1 .. Len(fs) : Append(fs, f)[k] = fs[k]
  BY AppendSet
<1>2. \A k \in 1 .. Len(Append(fs, f)) : k = Len(fs) + 1 \/ k \in 1 .. Len(fs)
  BY <1>1
<1> QED  BY <1>1, <1>2 DEF AllClosed

(* A step reads the same listing.                                          *)
LEMMA EmitPrimes ==
  ASSUME binary' = binary, filters' = filters
  PROVE  /\ Selected' = Selected /\ ListingInv' = ListingInv
         /\ Core(instrs, fns)' = Core(instrs', fns')
         /\ AllClosed(fns)' = AllClosed(fns')
         /\ OpenLast(fns, BB_ASSIGNED_REGS, curr_cartridge, instrs)' =
              OpenLast(fns', BB_ASSIGNED_REGS', curr_cartridge', instrs')
<1>1. Selected' = Selected /\ Instrs' = Instrs /\ binary'.pairs = binary.pairs
  BY SameListing
<1>2. \A p : Cartridge(p)' = Cartridge(p)
  BY <1>1 DEF Cartridge
<1>3. FnRec' = FnRec
  BY <1>1 DEF FnRec, Regs
<1>5. Core(instrs, fns)' = Core(instrs', fns')
  BY <1>1, <1>3 DEF Core, Ordered, Holds, WellFormed
<1>6. AllClosed(fns)' = AllClosed(fns')
  BY <1>1, <1>2 DEF AllClosed, Whole, Assigned
<1>7. OpenLast(fns, BB_ASSIGNED_REGS, curr_cartridge, instrs)' =
        OpenLast(fns', BB_ASSIGNED_REGS', curr_cartridge', instrs')
  BY <1>1, <1>2 DEF OpenLast, Whole, Assigned, Begun
<1> QED  BY <1>1, <1>5, <1>6, <1>7 DEF ListingInv

-----------------------------------------------------------------------------
(* The rounds of the loop *)

(* What a round takes, whatever it does with it.                           *)
LEMMA Round ==
  ASSUME ListingInv, EmitInv, Emitting
  PROVE  /\ binary' = binary /\ filters' = filters /\ phase' = phase
         /\ instrs' = instrs \ {Current} /\ Current \in instrs /\ Current \in Instrs
         /\ \A j \in instrs : j # Current => Current.vaddr + Current.length <= j.vaddr
         /\ Current.vaddr \in Nat /\ Current.assigns \subseteq Regs
         /\ Core(instrs, fns) /\ fns \in Seq(FnRec) /\ instrs \subseteq Selected
<1>1. Core(instrs, fns) /\ fns \in Seq(FnRec) /\ instrs \subseteq Selected
  BY DEF EmitInv, Core
<1>2. /\ binary' = binary /\ filters' = filters /\ phase' = phase
      /\ instrs' = instrs \ {Current} /\ instrs # {}
  BY DEF Emitting
<1>3. /\ Current \in instrs
      /\ \A j \in instrs : j # Current => Current.vaddr + Current.length <= j.vaddr
  BY <1>1, <1>2, CurrentFirst
<1>4. Current \in Instrs
  BY <1>1, <1>3, InstrFacts
<1>5. Current.vaddr \in Nat /\ Current.assigns \subseteq Regs
  BY <1>4, InstrFacts DEF Regs
<1> QED  BY <1>1, <1>2, <1>3, <1>4, <1>5

(* The function of one instruction, open or closed.                        *)
LEMMA OneInstr ==
  ASSUME ListingInv, NEW fs \in Seq(FnRec), NEW c \in Instrs, NEW regs \in SUBSET Regs
  PROVE  LET f == [entry |-> c.vaddr, code |-> <<c>>, saved |-> {}, closed |-> FALSE]
             g == [entry |-> c.vaddr, code |-> <<c>>, saved |-> regs, closed |-> TRUE]
         IN  /\ f \in FnRec /\ g \in FnRec
             /\ f.code = <<c>> /\ g.code = <<c>> /\ f.entry = c.vaddr /\ g.entry = c.vaddr
             /\ f.closed = FALSE /\ g.closed = TRUE /\ g.saved = regs
             /\ ToSet(<<c>>) = {c} /\ Len(<<c>>) = 1 /\ <<c>> # <<>>
             /\ Assigned(f) = {"rip"} \cup c.assigns /\ Assigned(g) = {"rip"} \cup c.assigns
             /\ Code(Prolog(fs, c), c) = Append(fs, f)
             /\ Epilog(Code(Prolog(fs, c), c), regs) = Append(fs, g)
<1> DEFINE f == [entry |-> c.vaddr, code |-> <<c>>, saved |-> {}, closed |-> FALSE]
           g == [entry |-> c.vaddr, code |-> <<c>>, saved |-> regs, closed |-> TRUE]
<1>1. f \in FnRec
  <2>1. c.vaddr \in Nat
    BY InstrFacts
  <2> QED  BY <2>1 DEF FnRec
<1>2. Code(Prolog(fs, c), c) = Append(fs, f)
  BY Started
<1>3. /\ f.code = <<c>> /\ g.code = <<c>> /\ f.entry = c.vaddr /\ g.entry = c.vaddr
      /\ f.closed = FALSE /\ g.closed = TRUE /\ g.saved = regs
  OBVIOUS
<1>4. g = [entry |-> f.entry, code |-> f.code, saved |-> regs, closed |-> TRUE]
  OBVIOUS
<1> HIDE DEF f, g
<1>5. g \in FnRec /\ Epilog(Append(fs, f), regs) = Append(fs, g)
  BY <1>1, <1>4, ClosedAppend
<1>6. ToSet(<<c>>) = {c} /\ Len(<<c>>) = 1 /\ <<c>> # <<>>
  BY DEF ToSet
<1>7. Assigned(f) = {"rip"} \cup c.assigns /\ Assigned(g) = {"rip"} \cup c.assigns
  BY <1>3, <1>6 DEF Assigned
<1> QED  BY <1>1, <1>2, <1>3, <1>5, <1>6, <1>7 DEF f, g

(* emit_function(0), and the instructions of headers that are left out.    *)
LEMMA NonCartridgeStep ==
  ASSUME ListingInv, EmitInv, NonCartridge
  PROVE  EmitInv'
<1> DEFINE c == Current
           regs == BB_ASSIGNED_REGS \cup c.assigns
           g == [entry |-> c.vaddr, code |-> <<c>>, saved |-> regs, closed |-> TRUE]
<1>1. /\ Emitting /\ ~in_cartridge /\ ~IsHead(c) /\ in_cartridge' = in_cartridge
      /\ fns' = IF c.header THEN fns ELSE Epilog(Code(Prolog(fns, c), c), regs)
      /\ BB_ASSIGNED_REGS' = IF c.header THEN BB_ASSIGNED_REGS ELSE {"rip"}
  BY DEF NonCartridge, AfterEpilog
<1>2. /\ binary' = binary /\ filters' = filters /\ instrs' = instrs \ {c} /\ c \in instrs /\ c \in Instrs
      /\ \A j \in instrs : j # c => c.vaddr + c.length <= j.vaddr
      /\ c.assigns \subseteq Regs /\ Core(instrs, fns) /\ fns \in Seq(FnRec)
  BY <1>1, Round
<1>3. AllClosed(fns) /\ BB_ASSIGNED_REGS = {"rip"} /\ regs = {"rip"} \cup c.assigns
  BY <1>1 DEF EmitInv, ClosedInv
<1> HIDE DEF c, regs
<1>4. regs \in SUBSET Regs
  BY <1>2, <1>3 DEF Regs
<1>5. Core(instrs', fns') /\ AllClosed(fns') /\ BB_ASSIGNED_REGS' = {"rip"}
  <2>1. CASE c.header
    BY <1>1, <1>2, <1>3, <2>1, LeaveOut
  <2>2. CASE ~c.header
    <3>1. /\ g \in FnRec /\ g.code = <<c>> /\ g.entry = c.vaddr /\ g.closed = TRUE /\ g.saved = regs
          /\ Len(<<c>>) = 1 /\ Assigned(g) = regs
          /\ fns' = Append(fns, g)
      BY <1>1, <1>2, <1>3, <1>4, <2>2, OneInstr
    <3> HIDE DEF g
    <3>2. ~\E p \in binary.pairs : p.head = g.entry
      BY <1>1, <3>1 DEF IsHead
    <3>3. Whole(g)
      BY <3>1, <3>2 DEF Whole
    <3>4. Core(instrs', fns')
      BY <1>2, <3>1, AddFn
    <3>5. AllClosed(fns')
      BY <1>2, <1>3, <3>1, <3>3, CloseAppend
    <3> QED  BY <1>1, <2>2, <3>4, <3>5
  <2> QED  BY <2>1, <2>2
<1>6. Core(instrs, fns)' /\ AllClosed(fns)'
  BY <1>2, <1>5, EmitPrimes
<1> QED  BY <1>1, <1>5, <1>6 DEF EmitInv, ClosedInv

(* emit_function(1), for a cartridge of one instruction or of several.     *)
LEMMA CartridgeStartStep ==
  ASSUME ListingInv, EmitInv, CartridgeStart
  PROVE  EmitInv'
<1> DEFINE c == Current
           end == TailOf(c)
           regs == BB_ASSIGNED_REGS \cup c.assigns
           f == [entry |-> c.vaddr, code |-> <<c>>, saved |-> {}, closed |-> FALSE]
           g == [entry |-> c.vaddr, code |-> <<c>>, saved |-> regs, closed |-> TRUE]
<1>1. /\ Emitting /\ ~in_cartridge /\ IsHead(c) /\ in_cartridge' = ~Reaches(c, end)
      /\ curr_cartridge' = end
      /\ fns' = IF Reaches(c, end) THEN Epilog(Code(Prolog(fns, c), c), regs)
                ELSE Code(Prolog(fns, c), c)
      /\ BB_ASSIGNED_REGS' = IF Reaches(c, end) THEN {"rip"} ELSE regs
  BY DEF CartridgeStart, AfterEpilog
<1>2. /\ binary' = binary /\ filters' = filters /\ instrs' = instrs \ {c} /\ c \in instrs /\ c \in Instrs
      /\ \A j \in instrs : j # c => c.vaddr + c.length <= j.vaddr
      /\ c.assigns \subseteq Regs /\ Core(instrs, fns) /\ fns \in Seq(FnRec) /\ instrs \subseteq Selected
  BY <1>1, Round
<1>3. AllClosed(fns) /\ regs = {"rip"} \cup c.assigns
  BY <1>1 DEF EmitInv, ClosedInv
<1>4. PICK p \in binary.pairs : p.head = c.vaddr /\ p.tail = end
  BY <1>1 DEF IsHead, TailOf
<1> HIDE DEF c, regs, end
<1>5. regs \in SUBSET Regs
  BY <1>2, <1>3 DEF Regs
<1>6. /\ Cartridge(p) \ (instrs \ {c}) = {c} /\ p.tail \in Nat
      /\ \E y \in instrs : y.vaddr < p.tail /\ p.tail <= y.vaddr + y.length
  BY <1>2, <1>4, CartridgeBegins
<1>7. /\ f \in FnRec /\ f.code = <<c>> /\ f.entry = c.vaddr /\ f.closed = FALSE /\ Assigned(f) = regs
      /\ g \in FnRec /\ g.code = <<c>> /\ g.entry = c.vaddr /\ g.closed = TRUE /\ g.saved = regs
      /\ Assigned(g) = regs /\ ToSet(<<c>>) = {c} /\ <<c>> # <<>>
      /\ fns' = IF Reaches(c, end) THEN Append(fns, g) ELSE Append(fns, f)
  BY <1>1, <1>2, <1>3, <1>5, OneInstr
<1> HIDE DEF f, g
<1>8. CASE Reaches(c, end)
  <2>1. Cartridge(p) = {c}
    BY <1>2, <1>4, <1>6, <1>8, CartridgeTaken
  <2>2. Whole(g)
    BY <1>4, <1>7, <2>1 DEF Whole
  <2>3. Core(instrs', fns')
    BY <1>2, <1>7, <1>8, AddFn
  <2>4. AllClosed(fns')
    BY <1>2, <1>3, <1>7, <1>8, <2>2, CloseAppend
  <2>5. Core(instrs, fns)' /\ AllClosed(fns)'
    BY <1>2, <2>3, <2>4, EmitPrimes
  <2> QED  BY <1>1, <1>8, <2>5 DEF EmitInv, ClosedInv
<1>9. CASE ~Reaches(c, end)
  <2>1. PICK y \in instrs : y.vaddr < p.tail /\ p.tail <= y.vaddr + y.length
    BY <1>6
  <2>2. y # c
    BY <1>2, <1>4, <1>6, <1>9, <2>1, InstrFacts DEF Reaches
  <2>3. Begun(p, f, instrs')
    BY <1>2, <1>4, <1>6, <1>7, <2>1, <2>2 DEF Begun
  <2>4. Core(instrs', fns')
    BY <1>2, <1>7, <1>9, AddFn
  <2>5. OpenLast(fns', BB_ASSIGNED_REGS', curr_cartridge', instrs')
    <3>1. /\ Len(fns') = Len(fns) + 1 /\ fns'[Len(fns) + 1] = f /\ Len(fns) \in Nat
          /\ \A k \in 1 .. Len(fns) : fns'[k] = fns[k]
      BY <1>2, <1>7, <1>9, AppendSet
    <3>2. \A k \in 1 .. Len(fns') : k = Len(fns') \/ k \in 1 .. Len(fns)
      BY <3>1
    <3>3. fns' # <<>> /\ fns'[Len(fns')] = f
      BY <3>1
    <3>4. \A k \in 1 .. Len(fns') : k # Len(fns') => fns'[k].closed /\ Whole(fns'[k])
      BY <1>3, <3>1, <3>2 DEF AllClosed
    <3> QED  BY <1>1, <1>4, <1>7, <1>9, <2>3, <3>3, <3>4 DEF OpenLast
  <2>6. Core(instrs, fns)' /\ OpenLast(fns, BB_ASSIGNED_REGS, curr_cartridge, instrs)'
    BY <1>2, <2>4, <2>5, EmitPrimes
  <2> QED  BY <1>1, <1>9, <2>6 DEF EmitInv, ClosedInv
<1> QED  BY <1>8, <1>9

(* The function of an open cartridge with one more instruction.            *)
LEMMA OneMore ==
  ASSUME ListingInv, NEW fs \in Seq(FnRec), fs # <<>>, NEW c \in Instrs
  PROVE  LET m == Len(fs)
             f == [fs[m] EXCEPT !.code = Append(@, c)]
         IN  /\ f \in FnRec /\ f.code = Append(fs[m].code, c) /\ f.entry = fs[m].entry
             /\ f.closed = fs[m].closed /\ Assigned(f) = Assigned(fs[m]) \cup c.assigns
             /\ ToSet(Append(fs[m].code, c)) = ToSet(fs[m].code) \cup {c}
             /\ Append(fs[m].code, c) # <<>>
             /\ Assigned(fs[m]) \cup c.assigns \in SUBSET Regs
             /\ Code(fs, c) = [fs EXCEPT ![m] = f]
<1> DEFINE m == Len(fs)
           f == [fs[m] EXCEPT !.code = Append(@, c)]
<1>1. fs[m] \in FnRec
  OBVIOUS
<1>2. fs[m].code \in Seq(Instrs)
  BY <1>1 DEF FnRec
<1>3. /\ ToSet(Append(fs[m].code, c)) = ToSet(fs[m].code) \cup {c}
      /\ Append(fs[m].code, c) # <<>>
  BY <1>2, AppendSet
<1>4. Assigned(fs[m]) \cup c.assigns \in SUBSET Regs
  <2>1. ToSet(fs[m].code) \subseteq Instrs
    BY <1>2, SetOfSeq
  <2> QED  BY <2>1 DEF Assigned, Regs
<1>5. {} \in SUBSET Regs
  OBVIOUS
<1>6. /\ f \in FnRec /\ f.code = Append(fs[m].code, c) /\ f.entry = fs[m].entry
      /\ f.closed = fs[m].closed /\ Code(fs, c) = [fs EXCEPT ![m] = f]
  BY <1>5, Extended
<1> HIDE DEF f
<1>7. Assigned(f) = Assigned(fs[m]) \cup c.assigns
  BY <1>3, <1>6 DEF Assigned
<1> QED  BY <1>3, <1>4, <1>6, <1>7 DEF f

(* emit_function(2).                                                       *)
LEMMA InsideCartridgeStep ==
  ASSUME ListingInv, EmitInv, InsideCartridge
  PROVE  EmitInv'
<1> DEFINE c == Current
           m == Len(fns)
           f == [fns[m] EXCEPT !.code = Append(@, c)]
<1>1. /\ Emitting /\ in_cartridge /\ ~Reaches(c, curr_cartridge)
      /\ in_cartridge' = in_cartridge /\ curr_cartridge' = curr_cartridge
      /\ fns' = Code(fns, c) /\ BB_ASSIGNED_REGS' = BB_ASSIGNED_REGS \cup c.assigns
  BY DEF InsideCartridge
<1>2. /\ binary' = binary /\ filters' = filters /\ instrs' = instrs \ {c} /\ c \in instrs /\ c \in Instrs
      /\ \A j \in instrs : j # c => c.vaddr + c.length <= j.vaddr
      /\ Core(instrs, fns) /\ fns \in Seq(FnRec)
  BY <1>1, Round
<1>3. OpenLast(fns, BB_ASSIGNED_REGS, curr_cartridge, instrs)
  BY <1>1 DEF EmitInv, ClosedInv
<1>4. PICK p \in binary.pairs : p.tail = curr_cartridge /\ Begun(p, fns[m], instrs)
  BY <1>3 DEF OpenLast
<1>5. fns # <<>> /\ fns[m].code # <<>> /\ ~fns[m].closed /\ BB_ASSIGNED_REGS = Assigned(fns[m])
  BY <1>3 DEF OpenLast
<1> HIDE DEF c
<1>6. /\ Cartridge(p) \ (instrs \ {c}) = ToSet(fns[m].code) \cup {c}
      /\ \E y \in instrs \ {c} : y.vaddr < p.tail /\ p.tail <= y.vaddr + y.length
  BY <1>1, <1>2, <1>4, <1>5, CartridgeGoesOn
<1>7. /\ f \in FnRec /\ f.code = Append(fns[m].code, c) /\ f.entry = fns[m].entry
      /\ f.closed = fns[m].closed /\ Assigned(f) = Assigned(fns[m]) \cup c.assigns
      /\ ToSet(f.code) = ToSet(fns[m].code) \cup {c} /\ f.code # <<>>
      /\ fns' = [fns EXCEPT ![m] = f]
  <2>1. /\ f \in FnRec /\ f.code = Append(fns[m].code, c) /\ f.entry = fns[m].entry
        /\ f.closed = fns[m].closed /\ Assigned(f) = Assigned(fns[m]) \cup c.assigns
        /\ ToSet(Append(fns[m].code, c)) = ToSet(fns[m].code) \cup {c}
        /\ Append(fns[m].code, c) # <<>> /\ Code(fns, c) = [fns EXCEPT ![m] = f]
    BY <1>2, <1>5, OneMore
  <2> HIDE DEF f, m
  <2> QED  BY <1>1, <2>1
<1> HIDE DEF f
<1>8. Core(instrs', fns')
  BY <1>2, <1>5, <1>7, ExtendFn
<1>9. /\ Len(fns') = m /\ fns' # <<>> /\ fns'[m] = f /\ m \in Nat
      /\ \A k \in 1 .. m : k # m => fns'[k] = fns[k]
  <2>1. m \in 1 .. m /\ m \in Nat /\ DOMAIN fns = 1 .. m
    BY <1>2, <1>5
  <2>2. fns' \in Seq(FnRec) /\ Len(fns') = m
    BY <1>2, <1>7, <2>1
  <2> QED  BY <1>2, <1>7, <2>1, <2>2
<1>10. OpenLast(fns', BB_ASSIGNED_REGS', curr_cartridge', instrs')
  <2>1. Begun(p, f, instrs')
    BY <1>2, <1>4, <1>6, <1>7 DEF Begun
  <2>2. \A k \in 1 .. Len(fns') : k # Len(fns') => fns'[k].closed /\ Whole(fns'[k])
    BY <1>3, <1>9 DEF OpenLast
  <2> QED  BY <1>1, <1>4, <1>5, <1>7, <1>9, <2>1, <2>2 DEF OpenLast
<1>11. Core(instrs, fns)' /\ OpenLast(fns, BB_ASSIGNED_REGS, curr_cartridge, instrs)'
  BY <1>2, <1>8, <1>10, EmitPrimes
<1> QED  BY <1>1, <1>11 DEF EmitInv, ClosedInv

(* emit_function(3).                                                       *)
LEMMA CartridgeEndStep ==
  ASSUME ListingInv, EmitInv, CartridgeEnd
  PROVE  EmitInv'
<1> DEFINE c == Current
           m == Len(fns)
           regs == Assigned(fns[m]) \cup c.assigns
           g == [entry |-> fns[m].entry, code |-> Append(fns[m].code, c), saved |-> regs, closed |-> TRUE]
<1>1. /\ Emitting /\ in_cartridge /\ Reaches(c, curr_cartridge) /\ in_cartridge' = FALSE
      /\ fns' = Epilog(Code(fns, c), BB_ASSIGNED_REGS \cup c.assigns) /\ BB_ASSIGNED_REGS' = {"rip"}
  BY DEF CartridgeEnd, AfterEpilog
<1>2. /\ binary' = binary /\ filters' = filters /\ instrs' = instrs \ {c} /\ c \in instrs /\ c \in Instrs
      /\ \A j \in instrs : j # c => c.vaddr + c.length <= j.vaddr
      /\ Core(instrs, fns) /\ fns \in Seq(FnRec) /\ instrs \subseteq Selected
  BY <1>1, Round
<1>3. OpenLast(fns, BB_ASSIGNED_REGS, curr_cartridge, instrs)
  BY <1>1 DEF EmitInv, ClosedInv
<1>4. PICK p \in binary.pairs : p.tail = curr_cartridge /\ Begun(p, fns[m], instrs)
  BY <1>3 DEF OpenLast
<1>5. fns # <<>> /\ fns[m].code # <<>> /\ BB_ASSIGNED_REGS = Assigned(fns[m])
  BY <1>3 DEF OpenLast
<1> HIDE DEF c
<1>6. Cartridge(p) \ (instrs \ {c}) = ToSet(fns[m].code) \cup {c} /\ p.tail \in Nat
  BY <1>2, <1>4, <1>5, CartridgeGoesOn
<1>7. Cartridge(p) \ (instrs \ {c}) = Cartridge(p)
  BY <1>1, <1>2, <1>4, <1>6, CartridgeTaken
<1>8. /\ g \in FnRec /\ g.code = Append(fns[m].code, c) /\ g.entry = fns[m].entry
      /\ g.closed = TRUE /\ g.saved = regs /\ Assigned(g) = regs
      /\ ToSet(g.code) = ToSet(fns[m].code) \cup {c}
      /\ fns' = [fns EXCEPT ![m] = g]
  <2>1. /\ ToSet(Append(fns[m].code, c)) = ToSet(fns[m].code) \cup {c} /\ regs \in SUBSET Regs
    BY <1>2, <1>5, OneMore
  <2>2. regs = BB_ASSIGNED_REGS \cup c.assigns
    BY <1>5
  <2>3. Assigned(fns[m]) \cup c.assigns = regs
    OBVIOUS
  <2> HIDE DEF regs
  <2>4. g.code = Append(fns[m].code, c) /\ g.entry = fns[m].entry /\ g.closed = TRUE /\ g.saved = regs
    OBVIOUS
  <2>5. g \in FnRec /\ Epilog(Code(fns, c), regs) = [fns EXCEPT ![m] = g]
    BY <1>2, <1>5, <2>1, Extended
  <2> HIDE DEF g
  <2>6. Assigned(g) = regs
    BY <2>1, <2>3, <2>4 DEF Assigned
  <2> HIDE DEF m
  <2> QED  BY <1>1, <2>1, <2>2, <2>4, <2>5, <2>6
<1> HIDE DEF g, regs
<1>9. Core(instrs', fns')
  BY <1>2, <1>5, <1>8, ExtendFn
<1>10. Whole(g)
  <2>1. p.head = g.entry /\ ToSet(g.code) = Cartridge(p)
    BY <1>4, <1>6, <1>7, <1>8 DEF Begun
  <2> QED  BY <1>8, <2>1 DEF Whole
<1>11. AllClosed(fns')
  <2>1. m \in 1 .. m /\ m \in Nat /\ DOMAIN fns = 1 .. m
    BY <1>2, <1>5
  <2>2. /\ fns'[m] = g /\ \A k \in 1 .. m : k # m => fns'[k] = fns[k]
    BY <1>2, <1>8, <2>1
  <2>3. Len(fns') = m
    BY <1>2, <1>8, <2>1
  <2>4. \A k \in 1 .. m : k # m => fns[k].closed /\ Whole(fns[k])
    BY <1>3 DEF OpenLast
  <2> QED  BY <1>8, <1>10, <2>2, <2>3, <2>4 DEF AllClosed
<1>12. Core(instrs, fns)' /\ AllClosed(fns)'
  BY <1>2, <1>9, <1>11, EmitPrimes
<1> QED  BY <1>1, <1>12 DEF EmitInv, ClosedInv

-----------------------------------------------------------------------------
(* The other steps *)

LEMMA CollectStep ==
  ASSUME ListingInv, ParseInv, Idle, Collect
  PROVE  /\ phase' \in {"springboard", "emit"}
         /\ phase' = "springboard" => (Ready /\ Idle)'
         /\ phase' = "emit" => EmitInv'
<1>1. /\ binary' = binary /\ filters' = filters /\ pos > Len(t) /\ function_asm' = function_asm
      /\ fns' = fns /\ BB_ASSIGNED_REGS' = BB_ASSIGNED_REGS /\ in_cartridge' = in_cartridge
      /\ \A e \in ToSet(function_asm) : Len(e.instrs) >= 1
      /\ phase' \in {"springboard", "emit"} /\ instrs' = Collected(function_asm)
  BY DEF Collect, parseVars, Collected, t
<1>2. pos = Len(t) + 1 /\ function_asm \in Seq(Entries) /\ Collected(function_asm) = Before(pos)
  BY <1>1, ListingFacts DEF ParseInv, AsmInv
<1>3. instrs' = Selected
  BY <1>1, <1>2, SelectedBefore
<1>4. Selected' = Selected /\ Entries' = Entries
  BY <1>1, SameListing, ParsePrimes
<1>5. (Ready /\ Idle)'
  BY <1>1, <1>2, <1>3, <1>4 DEF Ready, Idle
<1>6. EmitInv'
  <2>1. fns' = <<>> /\ Len(<<>>) = 0 /\ <<>> \in Seq(FnRec) /\ 1 .. 0 = {}
    BY <1>1 DEF Idle
  <2>2. Core(instrs', fns')
    BY <1>3, <2>1 DEF Core, Ordered, Holds
  <2>3. AllClosed(fns')
    BY <2>1 DEF AllClosed
  <2>4. Core(instrs, fns)' /\ AllClosed(fns)'
    BY <1>1, <2>2, <2>3, EmitPrimes
  <2> QED  BY <1>1, <2>4 DEF EmitInv, ClosedInv, Idle
<1> QED  BY <1>1, <1>5, <1>6

(* The stub of a springboard function: a closed function without code.     *)
LEMMA Stub ==
  ASSUME ListingInv, NEW c \in Instrs
  PROVE  LET g == Epilog(Prolog(<<>>, c), {"rip"})[1]
         IN  g \in FnRec /\ g.code = <<>> /\ g.closed = TRUE /\ g.saved = {"rip"}
<1> DEFINE e == [entry |-> c.vaddr, code |-> <<>>, saved |-> {}, closed |-> FALSE]
           g == [entry |-> e.entry, code |-> e.code, saved |-> {"rip"}, closed |-> TRUE]
<1>1. e \in FnRec
  <2>1. c.vaddr \in Nat
    BY InstrFacts
  <2> QED  BY <2>1 DEF FnRec
<1>2. <<>> \in Seq(FnRec) /\ {"rip"} \in SUBSET Regs
  BY DEF Regs
<1>3. g.code = <<>> /\ g.closed = TRUE /\ g.saved = {"rip"}
  OBVIOUS
<1> HIDE DEF e
<1>4. g \in FnRec /\ Epilog(Append(<<>>, e), {"rip"}) = Append(<<>>, g)
  BY <1>1, <1>2, ClosedAppend
<1> HIDE DEF g
<1>5. Append(<<>>, g)[1] = g
  OBVIOUS
<1>6. Prolog(<<>>, c) = Append(<<>>, e)
  BY DEF Prolog, e
<1> QED  BY <1>3, <1>4, <1>5, <1>6

(* The stubs hold no instruction and save rip only.                        *)
LEMMA SpringboardStep ==
  ASSUME ListingInv, Ready, Idle, emit_tase_springboard
  PROVE  phase' = "emit" /\ EmitInv'
<1> DEFINE stub(k) == Epilog(Prolog(<<>>, Disasm(SpringboardNames[k])[1]), {"rip"})[1]
<1>1. /\ binary' = binary /\ filters' = filters /\ instrs' = instrs /\ in_cartridge' = in_cartridge
      /\ BB_ASSIGNED_REGS' = {"rip"} /\ phase' = "emit"
      /\ fns' = [k \in 1 .. Len(SpringboardNames) |-> stub(k)]
      /\ \A n \in SpringboardFunctions : \E e \in ToSet(function_asm) : e.key = <<n>>
  BY DEF emit_tase_springboard, AfterEpilog, Idle
<1>2. Len(SpringboardNames) = 2 /\ \A k \in 1 .. 2 : SpringboardNames[k] \in SpringboardFunctions
  BY DEF SpringboardNames, SpringboardFunctions
<1>3. ASSUME NEW k \in 1 .. 2
      PROVE  stub(k) \in FnRec /\ stub(k).code = <<>> /\ stub(k).closed = TRUE /\ stub(k).saved = {"rip"}
  <2> DEFINE n == SpringboardNames[k]
  <2>1. n \in SpringboardFunctions
    BY <1>2
  <2> HIDE DEF n
  <2>2. \E e \in ToSet(function_asm) : e.key = <<n>>
    BY <1>1, <2>1
  <2>3. PICK e \in ToSet(function_asm) : Disasm(n) = e.instrs
    BY <2>2 DEF Disasm
  <2>4. e \in Entries /\ Len(e.instrs) >= 1
    BY SetOfSeq DEF Ready
  <2>5. e.instrs \in Seq(Instrs)
    BY <2>4 DEF Entries
  <2>6. Disasm(n)[1] \in Instrs
    BY <2>3, <2>4, <2>5
  <2> QED  BY <2>6, Stub DEF n
<1> HIDE DEF stub
<1>4. fns' \in Seq(FnRec) /\ Len(fns') = 2 /\ \A k \in 1 .. 2 : fns'[k] = stub(k)
  <2>1. \A k \in 1 .. 2 : fns'[k] = stub(k)
    BY <1>1, <1>2
  <2>2. fns' = [k \in 1 .. 2 |-> stub(k)]
    BY <1>1, <1>2
  <2>3. /\ fns' = [k \in 1 .. 2 |-> fns'[k]] /\ \A k \in 1 .. 2 : fns'[k] \in FnRec
    BY <1>3, <2>1, <2>2
  <2>4. \A f : f = [k \in 1 .. 2 |-> f[k]] /\ (\A k \in 1 .. 2 : f[k] \in FnRec) =>
               f \in Seq(FnRec) /\ Len(f) = 2
    OBVIOUS
  <2>5. fns' \in Seq(FnRec) /\ Len(fns') = 2
    BY <2>3, <2>4
  <2> QED  BY <2>1, <2>5
<1>5. \A k \in 1 .. Len(fns') : /\ fns'[k].code = <<>> /\ fns'[k].closed = TRUE
                                /\ fns'[k].saved = {"rip"}
  BY <1>3, <1>4
<1>6. ToSet(<<>>) = {} /\ Len(<<>>) = 0 /\ 1 .. 0 = {}
  BY DEF ToSet
<1>7. Core(instrs', fns')
  <2>1. instrs' = Selected
    BY <1>1 DEF Ready
  <2>2. \A k \in 1 .. Len(fns') : WellFormed(fns'[k])
    BY <1>5, <1>6 DEF WellFormed
  <2>3. Holds(instrs', fns')
    BY <1>5, <1>6, <2>1, <2>2 DEF Holds
  <2> QED  BY <1>4, <2>1, <2>3 DEF Core, Ordered
<1>8. AllClosed(fns')
  <2>1. \A k \in 1 .. Len(fns') : Whole(fns'[k])
    BY <1>5, <1>6 DEF Whole, Assigned
  <2> QED  BY <1>5, <2>1 DEF AllClosed
<1>9. Core(instrs, fns)' /\ AllClosed(fns)'
  BY <1>1, <1>7, <1>8, EmitPrimes
<1> QED  BY <1>1, <1>9 DEF EmitInv, ClosedInv, Idle

(* The invariant is inductive.                                             *)
LEMMA PtInvInit == Init => PtInv
<1> SUFFICES ASSUME Init PROVE PtInv
  OBVIOUS
<1>1. ListingInv
  BY DEF Init, ListingInv
<1>2. /\ pos = 1 /\ current_function = <<>> /\ function_asm = <<>> /\ dupname_ctr = 0
      /\ Idle /\ phase = "parse"
  BY DEF Init, Idle
<1>3. Len(t) \in Nat /\ pos \in 1 .. Len(t) + 1 /\ \A k \in DOMAIN t : ~(k < 1)
  BY <1>1, <1>2, ListingFacts
<1>4. /\ <<>> \in Seq(Entries) /\ ToSet(<<>>) = {} /\ Len(<<>>) = 0 /\ 1 .. 0 = {}
  BY DEF ToSet
<1>5. AsmInv
  BY <1>2, <1>3, <1>4 DEF AsmInv, Collected, Before
<1>6. NamesInv
  BY <1>2, <1>4 DEF NamesInv
<1>7. FunctionInv
  BY <1>2 DEF FunctionInv, Opens
<1> QED  BY <1>1, <1>2, <1>5, <1>6, <1>7 DEF PtInv, ParseInv

(* Every step keeps it.                                                    *)
LEMMA PtInvNext == PtInv /\ [Next]_vars => PtInv'
<1> SUFFICES ASSUME PtInv, [Next]_vars PROVE PtInv'
  OBVIOUS
<1>0. ListingInv
  BY DEF PtInv
<1>1. CASE ReadHeader \/ SkipLine \/ ReadInstr \/ EndFunction
  <2>1. /\ phase = "parse" /\ phase' = phase /\ binary' = binary
        /\ fns' = fns /\ BB_ASSIGNED_REGS' = BB_ASSIGNED_REGS /\ in_cartridge' = in_cartridge
    BY <1>1 DEF ReadHeader, SkipLine, ReadInstr, EndFunction, Reading, emitVars
  <2>2. ParseInv /\ Idle
    BY <2>1 DEF PtInv
  <2>3. ParseInv'
    BY <1>0, <1>1, <2>2, ReadHeaderStep, SkipLineStep, ReadInstrStep, EndFunctionStep
  <2> QED  BY <1>0, <2>1, <2>2, <2>3 DEF PtInv, Idle, ListingInv
<1>2. CASE Collect
  <2>1. phase = "parse" /\ binary' = binary
    BY <1>2 DEF Collect
  <2>2. /\ phase' \in {"springboard", "emit"}
        /\ phase' = "springboard" => Ready' /\ Idle'
        /\ phase' = "emit" => EmitInv'
    BY <1>0, <1>2, <2>1, CollectStep DEF PtInv
  <2> QED  BY <1>0, <2>1, <2>2 DEF PtInv, ListingInv
<1>3. CASE emit_tase_springboard
  <2>1. phase = "springboard" /\ binary' = binary
    BY <1>3 DEF emit_tase_springboard
  <2>2. phase' = "emit" /\ EmitInv'
    BY <1>0, <1>3, <2>1, SpringboardStep DEF PtInv
  <2> QED  BY <1>0, <2>1, <2>2 DEF PtInv, ListingInv
<1>4. CASE CartridgeEnd \/ InsideCartridge \/ CartridgeStart \/ NonCartridge
  <2>1. phase = "emit" /\ phase' = phase /\ binary' = binary
    BY <1>4 DEF CartridgeEnd, InsideCartridge, CartridgeStart, NonCartridge, Emitting
  <2>2. EmitInv'
    BY <1>0, <1>4, <2>1, CartridgeEndStep, InsideCartridgeStep, CartridgeStartStep, NonCartridgeStep
       DEF PtInv
  <2> QED  BY <1>0, <2>1, <2>2 DEF PtInv, ListingInv
<1>5. CASE Finish
  <2>1. /\ phase = "emit" /\ instrs = {} /\ phase' = "done" /\ binary' = binary /\ filters' = filters
        /\ instrs' = instrs /\ fns' = fns /\ in_cartridge' = in_cartridge
        /\ curr_cartridge' = curr_cartridge /\ BB_ASSIGNED_REGS' = BB_ASSIGNED_REGS
    BY <1>5 DEF Finish, emitVars
  <2>2. EmitInv
    BY <2>1 DEF PtInv
  <2>3. EmitInv'
    BY <2>1, <2>2, EmitPrimes DEF EmitInv, ClosedInv
  <2> QED  BY <1>0, <2>1, <2>3 DEF PtInv, ListingInv
<1>6. CASE Done \/ UNCHANGED vars
  <2>1. /\ phase' = phase /\ binary' = binary /\ filters' = filters /\ pos' = pos
        /\ current_function' = current_function /\ function_asm' = function_asm
        /\ dupname_ctr' = dupname_ctr /\ instrs' = instrs /\ fns' = fns /\ in_cartridge' = in_cartridge
        /\ curr_cartridge' = curr_cartridge /\ BB_ASSIGNED_REGS' = BB_ASSIGNED_REGS
    BY <1>6 DEF Done, vars, parseVars, emitVars
  <2>2. EmitInv => EmitInv'
    BY <2>1, EmitPrimes DEF EmitInv, ClosedInv
  <2>3. ParseInv => ParseInv'
    BY <2>1, ParsePrimes DEF ParseInv, AsmInv, NamesInv, FunctionInv, Current_, Collected
  <2>4. Ready /\ Idle => Ready' /\ Idle'
    BY <2>1, ParsePrimes, SameListing DEF Ready, Idle
  <2> QED  BY <1>0, <2>1, <2>2, <2>3, <2>4 DEF PtInv, ListingInv, Idle
<1> QED  BY <1>1, <1>2, <1>3, <1>4, <1>5, <1>6 DEF Next

(* It holds always.                                                        *)
LEMMA PtInvAlways == Spec => []PtInv
<1> QED  BY PtInvInit, PtInvNext, PTL DEF Spec

-----------------------------------------------------------------------------
(* What the output promises *)

(* The functions written so far, whichever phase it is.                    *)
LEMMA FnsOf ==
  ASSUME PtInv
  PROVE  /\ fns \in Seq(FnRec) /\ Len(fns) \in Nat /\ DOMAIN fns = 1 .. Len(fns)
         /\ \A f : f \in ToSet(fns) <=> \E k \in 1 .. Len(fns) : f = fns[k]
         /\ \A k \in 1 .. Len(fns) : fns[k].closed => Whole(fns[k])
<1>1. fns \in Seq(FnRec)
  <2>1. fns = <<>> \/ Core(instrs, fns)
    BY DEF PtInv, Idle, EmitInv
  <2>2. <<>> \in Seq(FnRec)
    OBVIOUS
  <2> QED  BY <2>1, <2>2 DEF Core
<1>2. \A k \in 1 .. Len(fns) : fns[k].closed => Whole(fns[k])
  <2>1. CASE phase \in {"parse", "springboard"}
    <3>1. Len(fns) = 0 /\ 1 .. 0 = {}
      BY <2>1 DEF PtInv, Idle
    <3> QED  BY <3>1
  <2>2. CASE phase \in {"emit", "done"}
    <3>1. ClosedInv
      BY <2>2 DEF PtInv, EmitInv
    <3> QED  BY <3>1 DEF ClosedInv, AllClosed, OpenLast
  <2> QED  BY <2>1, <2>2 DEF PtInv
<1> QED  BY <1>1, <1>2, SetOfSeq

(* A closed interpreter function writes back to the target context exactly *)
(* rip and the registers its own instructions assign: the global list      *)
(* BB_ASSIGNED_REGS carries nothing from one function to the next, for     *)
(* every binary, cartridge table and choice of functions.                  *)
THEOREM WritesBackItsOwnTheorem == Spec => []WritesBackItsOwn
<1>1. PtInv => WritesBackItsOwn
  BY FnsOf DEF WritesBackItsOwn, Whole, Assigned
<1> QED  BY <1>1, PtInvAlways, PTL

(* When main ends, every interpreter function is closed and holds exactly  *)
(* one cartridge in order of address, or one instruction outside all       *)
(* cartridges, and every selected instruction that is not part of a        *)
(* cartridge header is in exactly one of them: what the parser collected   *)
(* line by line and the loop cut by addresses loses and repeats nothing.   *)
THEOREM CartridgesWholeTheorem == Spec => []CartridgesWhole
<1>1. ASSUME PtInv PROVE CartridgesWhole
  <2> SUFFICES ASSUME phase = "done" PROVE CartridgesWhole!2
    BY DEF CartridgesWhole
  <2>1. EmitInv /\ instrs = {} /\ ListingInv
    BY <1>1 DEF PtInv
  <2>2. ~in_cartridge /\ AllClosed(fns)
    <3>1. in_cartridge => \E p, f, ins : ins = instrs /\ Begun(p, f, ins)
      BY <2>1 DEF EmitInv, ClosedInv, OpenLast
    <3>2. ~in_cartridge
      BY <2>1, <3>1 DEF Begun
    <3> QED  BY <2>1, <3>2 DEF EmitInv, ClosedInv
  <2>3. /\ fns \in Seq(FnRec) /\ Len(fns) \in Nat /\ DOMAIN fns = 1 .. Len(fns)
        /\ \A f : f \in ToSet(fns) <=> \E k \in 1 .. Len(fns) : f = fns[k]
    BY <1>1, FnsOf
  <2>4. Holds({}, fns)
    BY <2>1 DEF EmitInv, Core
  <2>5. \A f \in ToSet(fns) : f.closed
    BY <2>2, <2>3 DEF AllClosed
  <2>6. ASSUME NEW f \in TargetFns
        PROVE  /\ f.entry = f.code[1].vaddr
               /\ \A a, b \in DOMAIN f.code : a < b => f.code[a].vaddr < f.code[b].vaddr
               /\ IF \E p \in binary.pairs : p.head = f.entry
                  THEN \E p \in binary.pairs : p.head = f.entry /\ ToSet(f.code) = Cartridge(p)
                  ELSE Len(f.code) = 1
    <3>1. f \in ToSet(fns) /\ f.code # <<>>
      BY DEF TargetFns
    <3>2. PICK k \in 1 .. Len(fns) : f = fns[k]
      BY <2>3, <3>1
    <3>3. WellFormed(f) /\ Whole(f) /\ f \in FnRec
      BY <2>2, <2>3, <2>4, <3>2 DEF AllClosed, Holds
    <3>4. DOMAIN f.code = 1 .. Len(f.code)
      <4>1. f.code \in Seq(Instrs)
        BY <3>3 DEF FnRec
      <4> QED  BY <4>1
    <3> QED  BY <3>1, <3>3, <3>4 DEF WellFormed, Whole
  <2>7. ASSUME NEW i \in Selected, ~i.header
        PROVE  Cardinality({k \in DOMAIN fns : i \in ToSet(fns[k].code)}) = 1
    <3>1. PICK k \in 1 .. Len(fns) : i \in ToSet(fns[k].code)
      BY <2>4, <2>7 DEF Holds
    <3>2. {j \in DOMAIN fns : i \in ToSet(fns[j].code)} = {k}
      BY <2>3, <2>4, <3>1 DEF Holds
    <3> QED  BY <3>2, FS_Singleton
  <2> QED  BY <2>5, <2>6, <2>7
<1> QED  BY <1>1, PtInvAlways, PTL
=============================================================================
