----------------------------- MODULE MCCpuModel -----------------------------
(***************************************************************************)
(* Two callers on processors with every model number of the families that  *)
(* the code tells apart, and on processors that differ in what they and    *)
(* the operating system support.                                           *)
(***************************************************************************)
EXTENDS CpuModel

Bits == 0 .. 31
AVXBits == {27, 28}
Processor(v, eax, maxLeaf, ecx, xcr0, ebx7, eax71, maxExt) ==
  [maxLeaf |-> maxLeaf, vendor |-> v, eax |-> eax, ecx |-> ecx, edx |-> Bits, xcr0 |-> xcr0,
   ebx7 |-> ebx7, ecx7 |-> IF eax71 = {} THEN Bits \ {11} ELSE Bits, edx7 |-> Bits,
   eax71 |-> eax71, maxExt |-> maxExt, ecxExt |-> Bits]
\* the signature of a family and a model
Eax(family, mod) ==
  (IF family < 15 THEN family * 2^8 ELSE 15 * 2^8 + (family - 15) * 2^20)
    + (mod % 16) * 2^4 + (mod \div 16) * 2^16
Full(v, eax) == Processor(v, eax, 7, Bits, {0, 1, 2, 5, 6, 7}, Bits, {5}, 1)
MCMachines ==
  {Full("Genu", Eax(f, m)) : f \in {6}, m \in 0 .. 255}
    \cup {Full("Auth", Eax(f, m)) : f \in {15, 16, 20, 21, 22, 23, 25},
                                         m \in {16 * i + j : i \in 0 .. 8, j \in {0, 1, 2, 4, 8, 15}}}
    \cup {Full("other", Eax(6, 85)), Full("Genu", Eax(5, 85)), Full("Genu", Eax(15, 2))}
    \cup {Processor(v, Eax(6, 85), maxLeaf, ecx, xcr0, ebx7, eax71, maxExt) :
            v \in {"Genu", "Auth"}, maxLeaf \in {0, 1, 7},
            ecx \in {Bits, Bits \ {27}, Bits \ {28}, {}},
            xcr0 \in {{0}, {0, 1, 2}, {0, 1, 2, 5, 6}, {0, 5, 6, 7}, {0, 1, 2, 5, 6, 7}},
            ebx7 \in {Bits, Bits \ {16}}, eax71 \in {{}, {5}}, maxExt \in {0, 1}}
=============================================================================
