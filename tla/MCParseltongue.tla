--------------------------- MODULE MCParseltongue ---------------------------
(* Parseltongue on small binaries. *)
EXTENDS Parseltongue

Header(n) == [kind |-> "header", name |-> n]
Blank     == [kind |-> "blank"]

(* An instruction before it has an address; cart is 0 outside cartridges.  *)
Proto(regs, cart, h) == [kind |-> "instr", assigns |-> regs, cart |-> cart, header |-> h]

(* A cartridge: its header (lea to r15, jmp to sb_reopen) and its body. *)
Cart(id, body) ==
    <<Proto({"r15"}, 0, TRUE), Proto({}, 0, TRUE)>>
      \o [k \in DOMAIN body |-> Proto(body[k], id, FALSE)]

(* The bodies of functions: one instruction, several, two cartridges, code *)
(* outside cartridges.                                                     *)
Shapes(id) ==
    {Cart(id, <<{"rax"}>>),
     Cart(id, <<{"rdx"}, {}, {"rax"}>>),
     Cart(id, <<{"rax"}, {"efl"}>>) \o Cart(id + 1, <<{}>>),
     <<Proto({"rcx"}, 0, FALSE)>> \o Cart(id, <<{}, {"efl"}>>)}

Function(name, body) == <<Header(name)>> \o body \o <<Blank>>

Stub(name) == Function(name, <<Proto({"rsp"}, 0, FALSE), Proto({}, 0, FALSE)>>)

(* Two selected functions (one name used twice in some binaries), one that *)
(* is not selected, and the springboard, in two orders.                    *)
Layouts ==
    LET sb == Stub("sb_open") \o Stub("sb_modeled_return")
        h  == Function("h", Cart(30, <<{"rbx"}, {}>>))
    IN  UNION {{Function("f", x) \o h \o Function(n, y) \o sb,
                sb \o h \o Function("f", x) \o Function(n, y)} :
                  x \in Shapes(10), y \in Shapes(20), n \in {"f", "g"}}

(* Line k of the text is at address 2k and every instruction is 2 long. *)
Address(k) == 2 * k

Binary(layout) ==
    LET carts   == {layout[k].cart : k \in {k \in DOMAIN layout : layout[k].kind = "instr"}} \ {0}
        of(c)   == {k \in DOMAIN layout : layout[k].kind = "instr" /\ layout[k].cart = c}
        line(k) == IF layout[k].kind = "instr"
                   THEN [kind |-> "instr", vaddr |-> Address(k), length |-> 2,
                         assigns |-> layout[k].assigns, header |-> layout[k].header]
                   ELSE layout[k]
    IN  [text  |-> [k \in DOMAIN layout |-> line(k)],
         pairs |-> {[head |-> Address(Min(of(c))), tail |-> Address(Max(of(c)) + 1)] : c \in carts}]

MCBinaries == {Binary(l) : l \in Layouts}
MCFunctions == {"f", "g"}
=============================================================================
