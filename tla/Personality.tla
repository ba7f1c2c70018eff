---------------------------- MODULE Personality ----------------------------
(***************************************************************************)
(* gcc_personality_v0.c, the routine that the system unwinder calls for    *)
(* every frame of a C function with cleanups while an exception passes     *)
(* through.  The routine reads the frame's language-specific data area,    *)
(* which the compiler wrote, byte by byte.  The unwinder, with its two     *)
(* phases, and the code of the cleanups are external.                      *)
(***************************************************************************)
EXTENDS Words, Sequences

CONSTANTS
  Functions,        \* the functions that may be on the stack: records, see Lsda
  Stacks,           \* sequences of frames [fn, off], the innermost frame first
  PtrBits,          \* the width of uintptr_t and size_t
  IntBits           \* the width of int

\* 24 is a width that TLC's integers can hold.  The last conjunct follows from the others;
\* the provers do not evaluate 2^64.
ASSUME WidthsAssumption ==
  /\ PtrBits \in {24, 32, 64} /\ IntBits \in {24, 32} /\ IntBits <= PtrBits
  /\ 2^PtrBits >= 2^IntBits

DW_EH_PE_omit == 255
DW_EH_PE_absptr == 0
DW_EH_PE_uleb128 == 1
DW_EH_PE_udata2 == 2
DW_EH_PE_udata4 == 3
DW_EH_PE_udata8 == 4
DW_EH_PE_sdata2 == 10
DW_EH_PE_sdata4 == 11
DW_EH_PE_sdata8 == 12
DW_EH_PE_pcrel == 16
DW_EH_PE_indirect == 128

-----------------------------------------------------------------------------
(* The data the compiler writes for a function f: f.lpStart and f.ttype are *)
(* the bytes of the first fields, f.enc is the encoding of the call sites,  *)
(* f.table the call sites, each with its start, length, landing pad and     *)
(* action, f.lsda all the bytes, f.begin where in them the entries begin    *)
(* and the last one ends, f.resume the offset of the call of                *)
(* _Unwind_Resume at the end of each landing pad.                           *)

PtrBytes == PtrBits \div 8
\* offsets and lengths in a function: they are not negative, and fit an int
Value == 0 .. 2^(IntBits - 1) - 1
CallSite == [start : Value, length : Value, pad : Value, action : Value]
\* the bytes of a value in a format of fixed size
Size(format) ==
  CASE format = DW_EH_PE_absptr -> PtrBytes
    [] format \in {DW_EH_PE_udata2, DW_EH_PE_sdata2} -> 2
    [] format \in {DW_EH_PE_udata4, DW_EH_PE_sdata4} -> 4
    [] format \in {DW_EH_PE_udata8, DW_EH_PE_sdata8} -> 8
FixedFormats ==
  {DW_EH_PE_absptr, DW_EH_PE_udata2, DW_EH_PE_udata4, DW_EH_PE_udata8,
   DW_EH_PE_sdata2, DW_EH_PE_sdata4, DW_EH_PE_sdata8}

\* the values that the format of a call site can hold
Fits(enc, n) ==
  (enc = DW_EH_PE_udata2 => n < 2^16) /\ (enc = DW_EH_PE_sdata2 => n < 2^15)

\* a value in groups of 7 bits, in as few as it needs, the low one first
GroupCount(n) ==
  CASE n < 2^7 -> 1
    [] n \in 2^7 .. 2^14 - 1 -> 2
    [] n \in 2^14 .. 2^21 - 1 -> 3
    [] n \in 2^21 .. 2^28 - 1 -> 4
    [] n >= 2^28 -> 5
Digit(n, j) == (n \div 2^(7 * j)) % 128
ULEB(n) ==
  [i \in 1 .. GroupCount(n) |->
     IF i < GroupCount(n) THEN 128 + Digit(n, i - 1) ELSE Digit(n, i - 1)]
\* no value has more than four bytes
Little(n, size) == [i \in 1 .. size |-> IF i <= 4 THEN (n \div 256^(i - 1)) % 256 ELSE 0]
Encoded(enc, n) == IF enc = DW_EH_PE_uleb128 THEN ULEB(n) ELSE Little(n, Size(enc))
Entry(f, i) ==
  Encoded(f.enc, f.table[i].start) \o Encoded(f.enc, f.table[i].length)
    \o Encoded(f.enc, f.table[i].pad) \o ULEB(f.table[i].action)
TableEnd(f) == f.begin[Len(f.table) + 1]
Header(f) == f.lpStart \o f.ttype \o <<f.enc>> \o ULEB(TableEnd(f) - f.begin[1])

\* the bytes of a field with an encoding in front, whatever the value behind it
IsULEBField(s) ==
  /\ Len(s) >= 2 /\ s[Len(s)] < 128
  /\ \A i \in 2 .. Len(s) - 1 : s[i] >= 128
IsTtype(s) == IF s[1] = DW_EH_PE_omit THEN Len(s) = 1 ELSE IsULEBField(s)
IsLpStart(s) ==
  IF s[1] = DW_EH_PE_omit THEN Len(s) = 1
  ELSE /\ (s[1] \div 16) % 8 \in {0, 1}                              \* absolute or pcrel
       /\ \/ s[1] % 16 \in FixedFormats /\ Len(s) = 1 + Size(s[1] % 16)
          \/ s[1] % 16 = DW_EH_PE_uleb128 /\ IsULEBField(s)

\* the bytes are in the data at position q
Holds(data, q, bytes) ==
  /\ q + Len(bytes) - 1 <= Len(data)
  /\ \A i \in 1 .. Len(bytes) : data[q + i - 1] = bytes[i]
\* the header and the entries, one after the other, and nothing behind them
Lsda(f) ==
  /\ Holds(f.lsda, 1, Header(f)) /\ f.begin[1] = Len(Header(f)) + 1
  /\ \A i \in 1 .. Len(f.table) :
       /\ Holds(f.lsda, f.begin[i], Entry(f, i))
       /\ f.begin[i + 1] = f.begin[i] + Len(Entry(f, i))
  /\ TableEnd(f) = Len(f.lsda) + 1
\* the offsets of the code of f: it does not wrap around the address space
Offsets(f) == 0 .. 2^PtrBits - 2 - f.start
Byte == 0 .. 255

ASSUME FunctionsAssumption ==
  \A f \in Functions :
    /\ f.table \in Seq(CallSite) /\ f.enc \in FixedFormats \cup {DW_EH_PE_uleb128} /\ f.start \in Nat
    /\ \A i \in 1 .. Len(f.table) :
         /\ f.table[i].pad # 0 => f.resume[f.table[i].pad] \in Offsets(f)
         /\ Fits(f.enc, f.table[i].start) /\ Fits(f.enc, f.table[i].length)
         /\ Fits(f.enc, f.table[i].pad)
    /\ f.lsda \in Seq(Byte) /\ (f.lsda = <<>> <=> f.table = <<>>)
    /\ f.table # <<>> =>
         /\ f.lpStart \in Seq(Byte) \ {<<>>} /\ IsLpStart(f.lpStart)
         /\ f.ttype \in Seq(Byte) \ {<<>>} /\ IsTtype(f.ttype)
         /\ f.begin \in [1 .. Len(f.table) + 1 -> Nat] /\ TableEnd(f) - f.begin[1] \in Value
         /\ Lsda(f)
ASSUME StacksAssumption ==
  /\ UNION {{s[n].fn : n \in 1 .. Len(s)} : s \in Stacks} \subseteq Functions
  /\ \A s \in Stacks : /\ Len(s) \in Nat \ {0}
                       /\ \A n \in 1 .. Len(s) : s[n].off \in Offsets(s[n].fn)

VARIABLES
  stack,            \* the frames; off is the offset of the call that has not returned
  frame,            \* the frame the unwinder is at
  at,               \* where the unwinder or the personality is
  p,                \* the position in the language-specific data area
  sites,            \* the encoding and the end of the call-site table
  ip,               \* the instruction pointer of the frame, an offset in the function
  ran               \* the cleanups that ran: frame and landing pad

vars == <<stack, frame, at, p, sites, ip, ran>>

fn == stack[frame].fn
Trap == [val |-> 0, next |-> 0]

\* read a uleb128 encoded value and advance pointer.  A group of 7 bits is shifted
\* as an int and becomes a size_t when it joins the others, whose bits are below its own.
readULEB128(data, q) ==
  LET last == CHOOSE i \in q .. Len(data) : data[i] < 128 /\ \A j \in q .. i - 1 : data[j] >= 128
      Group(i) == Trunc(PtrBits, SVal(IntBits, Shl(IntBits, data[i] % 128, 7 * (i - q))))
      result[i \in q .. last] == Add(PtrBits, Group(i), IF i = q THEN 0 ELSE result[i - 1])
  IN  [val |-> result[last], next |-> last + 1]

\* n bytes, at most 8, the low one first, as an integer of the width of a pointer
Load(data, q, n) ==
  LET part(i) == IF i > n \/ i > PtrBytes THEN 0 ELSE data[q + i - 1] * 256^(i - 1)
  IN  part(1) + part(2) + part(3) + part(4) + part(5) + part(6) + part(7) + part(8)
LoadSigned(data, q, n) ==
  IF n < PtrBytes /\ data[q + n - 1] >= 128 THEN Load(data, q, n) + 2^PtrBits - 256^n
  ELSE Load(data, q, n)

\* what an indirect pointer points to: only lpStart may be one, and its value is not used
Indirect(a) == a

\* the value itself, in the format of the low bits of the encoding
encodedValue(data, q, format) ==
  LET Fixed(n, v) == [val |-> v, next |-> q + n]
  IN  CASE format = DW_EH_PE_absptr -> Fixed(PtrBytes, Load(data, q, PtrBytes))
        [] format = DW_EH_PE_uleb128 -> readULEB128(data, q)
        [] format = DW_EH_PE_udata2 -> Fixed(2, Load(data, q, 2))
        [] format = DW_EH_PE_udata4 -> Fixed(4, Load(data, q, 4))
        [] format = DW_EH_PE_udata8 -> Fixed(8, Load(data, q, 8))
        [] format = DW_EH_PE_sdata2 -> Fixed(2, LoadSigned(data, q, 2))
        [] format = DW_EH_PE_sdata4 -> Fixed(4, LoadSigned(data, q, 4))
        [] format = DW_EH_PE_sdata8 -> Fixed(8, LoadSigned(data, q, 8))
        [] OTHER -> Trap                                            \* compilerrt_abort
\* read a pointer encoded value and advance pointer; base is the address of the data
readEncodedPointer(data, q, encoding, base) ==
  LET value == encodedValue(data, q, encoding % 16)
      application == ((encoding \div 16) % 8) * 16             \* encoding & 0x70
      result == IF application = DW_EH_PE_pcrel THEN Add(PtrBits, value.val, base + q)
                ELSE value.val
  IN  IF encoding = DW_EH_PE_omit THEN [val |-> 0, next |-> q]
      ELSE IF value = Trap \/ application \notin {DW_EH_PE_absptr, DW_EH_PE_pcrel} THEN Trap
      ELSE [val |-> IF encoding >= DW_EH_PE_indirect THEN Indirect(result) ELSE result,
            next |-> value.next]

-----------------------------------------------------------------------------
(* The unwinder *)

lsda == fn.lsda
Pointer(q, encoding) == readEncodedPointer(lsda, q, encoding, fn.start)

\* the unwinder goes on with the next frame out, or has unwound them all
OuterFrame ==
  IF frame < Len(stack)
  THEN frame' = frame + 1 /\ ip' = stack[frame + 1].off + 1 /\ at' = "cleanup"
  ELSE UNCHANGED <<frame, ip>> /\ at' = "caught"
NoSites == [enc |-> 0, end |-> 0]
continueUnwind == OuterFrame /\ p' = 0 /\ sites' = NoSites /\ UNCHANGED <<stack, ran>>

Init ==
  /\ stack \in Stacks
  /\ frame = 1 /\ at = "search" /\ p = 0 /\ sites = NoSites /\ ip = stack[1].off + 1 /\ ran = <<>>

\* the personality is asked in the search phase and has nothing to do
SearchPhase ==
  /\ at = "search"
  /\ IF frame < Len(stack)
     THEN frame' = frame + 1 /\ UNCHANGED <<at, ip>>
     ELSE \/ frame' = 1 /\ at' = "cleanup" /\ ip' = stack[1].off + 1         \* a handler
          \/ at' = "uncaught" /\ UNCHANGED <<frame, ip>>                     \* no handler
  /\ UNCHANGED <<stack, p, sites, ran>>

NoLsda == at = "cleanup" /\ lsda = <<>> /\ continueUnwind

\* the header of the LSDA: the start of the landing pads, the types, and the encoding
\* and the length of the call-site table
ParseHeader ==
  /\ at = "cleanup" /\ lsda # <<>>
  /\ \E lpStart \in {IF lsda[1] # DW_EH_PE_omit THEN Pointer(2, lsda[1]).next ELSE 2} :
     \E ttype \in {IF lsda[lpStart] # DW_EH_PE_omit THEN readULEB128(lsda, lpStart + 1).next
                   ELSE lpStart + 1} :
     \E length \in {readULEB128(lsda, ttype + 1)} :
       p' = length.next /\ sites' = [enc |-> lsda[ttype], end |-> length.next + length.val]
  /\ at' = "walk"
  /\ UNCHANGED <<stack, frame, ip, ran>>

\* Mutant: the return address is taken for the address of the call.
pcOffsetAfter == ip
pcOffset == Sub(PtrBits, Sub(PtrBits, fn.start + ip, 1), fn.start)
Covers(start, length) == start <= pcOffset /\ pcOffset < Add(PtrBits, start, length)
\* Mutant: an entry without a landing pad is not left behind.
AfterEntryStays(landingPad) ==
  IF landingPad.val = 0 THEN p ELSE readULEB128(lsda, landingPad.next).next
\* Mutant: the action value is not skipped.
AfterEntryNoAction(landingPad) == landingPad.next
AfterEntry(landingPad) == readULEB128(lsda, landingPad.next).next
\* an iteration of the loop: _URC_INSTALL_CONTEXT at the first entry with a landing pad
\* that covers the pc
Walk ==
  /\ at = "walk" /\ p < sites.end
  /\ \E start \in {Pointer(p, sites.enc)} :
     \E length \in {Pointer(start.next, sites.enc)} :
     \E landingPad \in {Pointer(length.next, sites.enc)} :
       IF landingPad.val # 0 /\ Covers(start.val, length.val)
       THEN at' = "pad" /\ ip' = landingPad.val /\ p' = 0 /\ sites' = NoSites
       ELSE p' = AfterEntry(landingPad) /\ UNCHANGED <<at, ip, sites>>
  /\ UNCHANGED <<stack, frame, ran>>
WalkEnds == at = "walk" /\ p >= sites.end /\ continueUnwind

\* the code at the landing pad: a cleanup, then a call of _Unwind_Resume
LandingPad ==
  /\ at = "pad"
  /\ ran' = Append(ran, <<frame, ip>>)
  /\ ip' = fn.resume[ip] + 1
  /\ at' = "cleanup"
  /\ UNCHANGED <<stack, frame, p, sites>>

Next == SearchPhase \/ NoLsda \/ ParseHeader \/ Walk \/ WalkEnds \/ LandingPad
Spec == Init /\ [][Next]_vars /\ WF_vars(Next)

-----------------------------------------------------------------------------
(* The cleanups that the tables the compiler started from ask for *)

\* entry i has a landing pad and covers the offset
Asks(f, i, off) ==
  /\ f.table[i].pad # 0
  /\ off \in f.table[i].start .. f.table[i].start + f.table[i].length - 1
\* the landing pad of the first entry that has one and covers the offset, or 0
PadFor(f, off) ==
  LET asking == {i \in 1 .. Len(f.table) : Asks(f, i, off)}
  IN  IF asking = {} THEN 0
      ELSE f.table[CHOOSE i \in asking : \A j \in asking : i <= j].pad
\* where the unwinding goes on after the first k cleanups that ran: a frame, an offset
After(k) ==
  IF k = 0 THEN [frame |-> 1, off |-> stack[1].off]
  ELSE [frame |-> ran[k][1], off |-> stack[ran[k][1]].fn.resume[ran[k][2]]]
\* the call that frame n is at then, and the landing pad it asks for
CallIn(from, n) == IF n = from.frame THEN from.off ELSE stack[n].off
Wanted(from, n) == PadFor(stack[n].fn, CallIn(from, n))
\* the frames before n, from there on, ask for none
NoneBefore(from, n) == \A m \in from.frame .. n - 1 : Wanted(from, m) = 0

(***************************************************************************)
(* The cleanups that ran are, in order, those the tables ask for: no       *)
(* landing pad of a neighbouring call site, none twice, the inner ones     *)
(* first, all of them by the time the handler is reached, and none during  *)
(* the search or for an exception nobody handles (gcc_personality_v0.c).   *)
(***************************************************************************)
CleanupsInOrder ==
  /\ \A k \in 1 .. Len(ran) :
       /\ ran[k][1] \in After(k - 1).frame .. Len(stack)
       /\ ran[k][2] = Wanted(After(k - 1), ran[k][1]) /\ ran[k][2] # 0
       /\ NoneBefore(After(k - 1), ran[k][1])
  /\ at = "caught" => NoneBefore(After(Len(ran)), Len(stack) + 1)
  /\ at \in {"search", "uncaught"} => ran = <<>>

(***************************************************************************)
(* The walk through the call sites stays in step with the table: it is     *)
(* always at the beginning of an entry or at the end of the data, whatever *)
(* the encodings of the header and the length of their values.             *)
(***************************************************************************)
WalkInStep == at = "walk" => p \in {fn.begin[i] : i \in 1 .. Len(fn.table) + 1}

(***************************************************************************)
(* The exception reaches its handler, or is found to have none: neither    *)
(* the loop over the call sites nor the cleanups of a frame go on forever. *)
(***************************************************************************)
UnwindingEnds == <>(at \in {"caught", "uncaught"})
=============================================================================
