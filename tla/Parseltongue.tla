---------------------------- MODULE Parseltongue ----------------------------
(***************************************************************************)
(* parseltongue86 from the disassembly to the list of emitted functions:   *)
(* ELFFile._parse_objdump (translator/elffile.py) collects the             *)
(* instructions of the selected functions line by line, and main           *)
(* (parseltongue86.py) goes through them in the order of their addresses   *)
(* and cuts them into interpreter functions, one per cartridge.  What the  *)
(* code of an instruction computes is InterpFn's subject; here an          *)
(* instruction is its address, its length, the registers its code assigns  *)
(* and whether it is part of a cartridge header.                           *)
(***************************************************************************)
EXTENDS Integers, Sequences, FiniteSets, SequencesExt

CONSTANTS
    Binaries,      \* [text, pairs]: disassembly and cartridge_info.txt
    Functions,     \* the names in the functions file
    NoFilter       \* there is no functions file

(* springboard_functions of main, in its order. *)
SpringboardNames == <<"sb_open", "sb_modeled_return">>
SpringboardFunctions == {"sb_open", "sb_modeled_return"}

(* The text is the listing of objdump: its instructions follow each other  *)
(* in memory, an empty line comes before the header of a function, and the *)
(* springboard functions are there once.                                   *)
Listing(text) ==
    /\ Len(text) \in Nat /\ DOMAIN text = 1..Len(text)
    /\ \A k \in DOMAIN text : text[k].kind = "instr" =>
         text[k].vaddr \in Nat /\ text[k].length \in Nat \ {0} /\ text[k].header \in BOOLEAN
    /\ \A j, k \in DOMAIN text :
         j < k /\ text[j].kind = "instr" /\ text[k].kind = "instr" =>
           text[j].vaddr + text[j].length <= text[k].vaddr
    /\ \A k \in DOMAIN text : text[k].kind = "header" /\ k > 1 => text[k - 1].kind = "blank"
    /\ \A j, k \in DOMAIN text :
         /\ text[j].kind = "header" /\ text[k].kind = "header"
         /\ text[j].name = text[k].name /\ text[j].name \in SpringboardFunctions
         => j = k
(* A cartridge ends in the function in which it begins. *)
InOneFunction(text, p) ==
    /\ p.head \in Nat /\ p.tail \in Nat
    /\ \A k \in DOMAIN text : text[k].kind = "instr" /\ text[k].vaddr = p.head =>
         \E n \in k..Len(text) :
           /\ \A j \in k..n : text[j].kind = "instr"
           /\ text[n].vaddr < p.tail /\ p.tail <= text[n].vaddr + text[n].length
ASSUME BinariesAssumption ==
    \A b \in Binaries : Listing(b.text) /\ \A p \in b.pairs : InOneFunction(b.text, p)

VARIABLES
    binary,            \* the program that is translated
    filters,           \* the function names to disassemble, or NoFilter
    pos,               \* the next line of the disassembly
    current_function,  \* key of the function being read, or <<>>
    function_asm,      \* key -> instructions, in the order of insertion
    dupname_ctr,
    phase,             \* "parse", "springboard", "emit", "done"
    instrs,            \* all_instrs still to be emitted
    in_cartridge,
    curr_cartridge,    \* its end address
    BB_ASSIGNED_REGS,
    fns                \* the functions written so far

parseVars == <<pos, current_function, function_asm, dupname_ctr>>
emitVars  == <<instrs, in_cartridge, curr_cartridge, BB_ASSIGNED_REGS, fns>>
vars      == <<binary, filters, phase, parseVars, emitVars>>

Init ==
    /\ binary \in Binaries
    /\ filters \in {NoFilter, Functions \cup SpringboardFunctions}
    /\ pos = 1
    /\ current_function = <<>>
    /\ function_asm = <<>>
    /\ dupname_ctr = 0
    /\ phase = "parse"
    /\ instrs = {}
    /\ in_cartridge = FALSE
    /\ curr_cartridge = 0
    /\ BB_ASSIGNED_REGS = {"rip"}
    /\ fns = <<>>

-----------------------------------------------------------------------------
(* _parse_objdump: one action per kind of line and state *)

Line == binary.text[pos]

Wanted(name) == IF filters = NoFilter THEN TRUE ELSE name \in filters

Reading ==
    /\ phase = "parse"
    /\ pos <= Len(binary.text)
    /\ pos' = pos + 1
    /\ UNCHANGED <<binary, filters, phase, emitVars>>

(* The key of a function: its name, made unique by a counter. *)
Key(name) ==
    IF \E e \in ToSet(function_asm) : e.key = <<name>>
    THEN <<name, dupname_ctr>> ELSE <<name>>

(* A header of a selected function outside any function. *)
ReadHeader ==
    /\ Reading
    /\ current_function = <<>>
    /\ Line.kind = "header"
    /\ Wanted(Line.name)
    /\ current_function' = Key(Line.name)
    /\ function_asm' = Append(function_asm, [key |-> Key(Line.name), instrs |-> <<>>])
    /\ dupname_ctr' = IF Key(Line.name) = <<Line.name>> THEN dupname_ctr ELSE dupname_ctr + 1

(* Any other line outside a function is passed over. *)
SkipLine ==
    /\ Reading
    /\ current_function = <<>>
    /\ ~(Line.kind = "header" /\ Wanted(Line.name))
    /\ UNCHANGED <<current_function, function_asm, dupname_ctr>>

ReadInstr ==
    /\ Reading
    /\ current_function # <<>>
    /\ Line.kind = "instr"
    /\ function_asm' = [k \in DOMAIN function_asm |->
                          IF function_asm[k].key = current_function
                          THEN [function_asm[k] EXCEPT !.instrs = Append(@, Line)]
                          ELSE function_asm[k]]
    /\ UNCHANGED <<current_function, dupname_ctr>>

(* Any line that is not an instruction ends the function, a header too. *)
EndFunction ==
    /\ Reading
    /\ current_function # <<>>
    /\ Line.kind # "instr"
    /\ current_function' = <<>>
    /\ UNCHANGED <<function_asm, dupname_ctr>>

-----------------------------------------------------------------------------
(* main: collect the instructions, emit the springboard stubs *)

IsSpringboard(e) == e.key[1] \in SpringboardFunctions /\ Len(e.key) = 1

Collect ==
    /\ phase = "parse"
    /\ pos > Len(binary.text)
    /\ \A e \in ToSet(function_asm) : Len(e.instrs) >= 1
    /\ instrs' = UNION {ToSet(e.instrs) : e \in {f \in ToSet(function_asm) : ~IsSpringboard(f)}}
    /\ phase' = IF filters = NoFilter THEN "emit" ELSE "springboard"
    /\ UNCHANGED <<binary, filters, parseVars, in_cartridge, curr_cartridge,
                   BB_ASSIGNED_REGS, fns>>

(* What the prolog, the code of an instruction and the epilog write. *)
Prolog(fs, i) == Append(fs, [entry |-> i.vaddr, code |-> <<>>, saved |-> {}, closed |-> FALSE])
Code(fs, i)   == [fs EXCEPT ![Len(fs)].code = Append(@, i)]
Epilog(fs, r) == [fs EXCEPT ![Len(fs)].saved = r, ![Len(fs)].closed = TRUE]

(* Mutant: clear_bb_reg_refs is not called. *)
AfterEpilog_kept(r) == r

(* BB_ASSIGNED_REGS after the epilog. *)
AfterEpilog(r) == {"rip"}

(* The instructions under a name of its own. *)
Disasm(name) == (CHOOSE e \in ToSet(function_asm) : e.key = <<name>>).instrs

(* emit_tase_springboard for each springboard function. *)
emit_tase_springboard ==
    /\ phase = "springboard"
    /\ \A n \in SpringboardFunctions : \E e \in ToSet(function_asm) : e.key = <<n>>
    /\ fns' = [k \in 1..Len(SpringboardNames) |->
                 Epilog(Prolog(<<>>, Disasm(SpringboardNames[k])[1]), BB_ASSIGNED_REGS)[1]]
    /\ BB_ASSIGNED_REGS' = AfterEpilog(BB_ASSIGNED_REGS)
    /\ phase' = "emit"
    /\ UNCHANGED <<binary, filters, parseVars, instrs, in_cartridge, curr_cartridge>>

-----------------------------------------------------------------------------
(* main: the loop over the instructions ordered by address *)

Current == CHOOSE i \in instrs : \A j \in instrs : i.vaddr <= j.vaddr

IsHead(i) == \E p \in binary.pairs : p.head = i.vaddr
TailOf(i) == (CHOOSE p \in binary.pairs : p.head = i.vaddr).tail

(* Mutant: > for >=. *)
Reaches_gt(i, end) == i.vaddr + i.length > end

Reaches(i, end) == i.vaddr + i.length >= end

Emitting ==
    /\ phase = "emit"
    /\ instrs # {}
    /\ instrs' = instrs \ {Current}
    /\ UNCHANGED <<binary, filters, phase, parseVars>>

(* emit_function(3) *)
CartridgeEnd ==
    LET regs == BB_ASSIGNED_REGS \cup Current.assigns
    IN  /\ Emitting
        /\ in_cartridge
        /\ Reaches(Current, curr_cartridge)
        /\ fns' = Epilog(Code(fns, Current), regs)
        /\ BB_ASSIGNED_REGS' = AfterEpilog(regs)
        /\ in_cartridge' = FALSE
        /\ UNCHANGED curr_cartridge

(* emit_function(2) *)
InsideCartridge ==
    /\ Emitting
    /\ in_cartridge
    /\ ~Reaches(Current, curr_cartridge)
    /\ fns' = Code(fns, Current)
    /\ BB_ASSIGNED_REGS' = BB_ASSIGNED_REGS \cup Current.assigns
    /\ UNCHANGED <<in_cartridge, curr_cartridge>>

(* emit_function(1), and the epilog when it is a single instruction. *)
CartridgeStart ==
    LET started == Code(Prolog(fns, Current), Current)
        regs    == BB_ASSIGNED_REGS \cup Current.assigns
        single  == Reaches(Current, TailOf(Current))
    IN  /\ Emitting
        /\ ~in_cartridge
        /\ IsHead(Current)
        /\ curr_cartridge' = TailOf(Current)
        /\ in_cartridge' = ~single
        /\ fns' = IF single THEN Epilog(started, regs) ELSE started
        /\ BB_ASSIGNED_REGS' = IF single THEN AfterEpilog(regs) ELSE regs

(* emit_function(0); the two instructions of a cartridge header are left out. *)
NonCartridge ==
    LET regs == BB_ASSIGNED_REGS \cup Current.assigns
    IN  /\ Emitting
        /\ ~in_cartridge
        /\ ~IsHead(Current)
        /\ fns' = IF Current.header THEN fns
                  ELSE Epilog(Code(Prolog(fns, Current), Current), regs)
        /\ BB_ASSIGNED_REGS' = IF Current.header THEN BB_ASSIGNED_REGS ELSE AfterEpilog(regs)
        /\ UNCHANGED <<in_cartridge, curr_cartridge>>

Finish ==
    /\ phase = "emit"
    /\ instrs = {}
    /\ phase' = "done"
    /\ UNCHANGED <<binary, filters, parseVars, emitVars>>

Done == phase = "done" /\ UNCHANGED vars

Next ==
    \/ ReadHeader \/ SkipLine \/ ReadInstr \/ EndFunction
    \/ Collect \/ emit_tase_springboard
    \/ CartridgeEnd \/ InsideCartridge \/ CartridgeStart \/ NonCartridge
    \/ Finish \/ Done

Spec == Init /\ [][Next]_vars
-----------------------------------------------------------------------------
(* The instructions a function file selects, from the text alone: those    *)
(* after a selected header, up to the next line that is no instruction.    *)
Selected ==
    LET t == binary.text
    IN  {t[k] : k \in {k \in DOMAIN t :
            /\ t[k].kind = "instr"
            /\ \E h \in 1..k-1 :
                 /\ t[h].kind = "header"
                 /\ t[h].name \notin SpringboardFunctions
                 /\ Wanted(t[h].name)
                 /\ \A j \in h+1..k-1 : t[j].kind = "instr"}}

(* The instructions of the cartridge with pair p. *)
Cartridge(p) == {i \in Selected : p.head <= i.vaddr /\ i.vaddr < p.tail}

(* The functions that hold the code of target instructions. *)
TargetFns == {f \in ToSet(fns) : f.code # <<>>}

(* When the loop is over, every interpreter function is closed and holds   *)
(* exactly the instructions of one cartridge, in order, or one instruction *)
(* outside all cartridges; every selected instruction except those of the  *)
(* cartridge headers is in exactly one of them.                            *)
CartridgesWhole ==
    phase = "done" =>
        /\ \A f \in ToSet(fns) : f.closed
        /\ \A f \in TargetFns :
             /\ f.entry = f.code[1].vaddr
             /\ \A a, b \in DOMAIN f.code : a < b => f.code[a].vaddr < f.code[b].vaddr
             /\ IF \E p \in binary.pairs : p.head = f.entry
                THEN \E p \in binary.pairs : p.head = f.entry /\ ToSet(f.code) = Cartridge(p)
                ELSE Len(f.code) = 1
        /\ \A i \in Selected : ~i.header =>
             Cardinality({k \in DOMAIN fns : i \in ToSet(fns[k].code)}) = 1

(* A closed function writes back the registers its own instructions        *)
(* assign, rip with them, and no others: BB_ASSIGNED_REGS, a global list,  *)
(* carries nothing over from one function to the next.                     *)
WritesBackItsOwn ==
    \A f \in ToSet(fns) :
        f.closed => f.saved = {"rip"} \cup UNION {i.assigns : i \in ToSet(f.code)}
=============================================================================
