------------------------------ MODULE CpuModel ------------------------------
(***************************************************************************)
(* cpu_model.c: the description of the processor that resolvers of         *)
(* function variants consult.  __cpu_indicator_init fills it in when it is *)
(* first called: by the resolvers themselves, by the constructors, in any  *)
(* thread.  The build does not optimise, so the plain stores happen in the *)
(* order of the program.  A register of cpuid is the set of its bits.      *)
(***************************************************************************)
EXTENDS Integers, Sequences

CONSTANTS
  Callers,          \* the threads that call __cpu_indicator_init
  Machines          \* processors: records [maxLeaf, vendor, eax, ecx, edx, xcr0,
                    \*   ebx7, ecx7, edx7, eax71, maxExt, ecxExt]

VARIABLES
  machine,          \* the processor
  vendor, type, subtype, features, features2,       \* __cpu_model, __cpu_features2
  pc,               \* where every caller is
  local,            \* its Features
  result            \* what __cpu_indicator_init returned

model == <<vendor, type, subtype, features, features2>>
vars == <<machine, model, pc, local, result>>

-----------------------------------------------------------------------------
(* The enumerations; 0 stands for what is not known *)

VENDOR_INTEL == 1
VENDOR_AMD == 2
VENDOR_OTHER == 3
VENDOR_MAX == 4
ProcessorTypes ==
  <<"INTEL_BONNELL", "INTEL_CORE2", "INTEL_COREI7", "AMDFAM10H", "AMDFAM15H", "INTEL_SILVERMONT",
    "INTEL_KNL", "AMD_BTVER1", "AMD_BTVER2", "AMDFAM17H", "INTEL_KNM", "INTEL_GOLDMONT",
    "INTEL_GOLDMONT_PLUS", "INTEL_TREMONT", "AMDFAM19H">>
ProcessorSubtypes ==
  <<"NEHALEM", "WESTMERE", "SANDYBRIDGE", "BARCELONA", "SHANGHAI", "ISTANBUL", "BDVER1", "BDVER2",
    "BDVER3", "BDVER4", "ZNVER1", "IVYBRIDGE", "HASWELL", "BROADWELL", "SKYLAKE", "SKYLAKE_AVX512",
    "CANNONLAKE", "ICELAKE_CLIENT", "ICELAKE_SERVER", "ZNVER2", "CASCADELAKE", "TIGERLAKE",
    "COOPERLAKE", "SAPPHIRERAPIDS", "ALDERLAKE", "ZNVER3", "ROCKETLAKE">>
ProcessorFeatures ==
  <<"CMOV", "MMX", "POPCNT", "SSE", "SSE2", "SSE3", "SSSE3", "SSE4_1", "SSE4_2", "AVX", "AVX2",
    "SSE4_A", "FMA4", "XOP", "FMA", "AVX512F", "BMI", "BMI2", "AES", "PCLMUL", "AVX512VL",
    "AVX512BW", "AVX512DQ", "AVX512CD", "AVX512ER", "AVX512PF", "AVX512VBMI", "AVX512IFMA",
    "AVX5124VNNIW", "AVX5124FMAPS", "AVX512VPOPCNTDQ", "AVX512VBMI2", "GFNI", "VPCLMULQDQ",
    "AVX512VNNI", "AVX512BITALG", "AVX512BF16", "AVX512VP2INTERSECT">>
\* the features of a word of Features: 32 to a word, in the order of the enumeration
Word(fs, w) == {ProcessorFeatures[i] : i \in {j \in 1 .. Len(ProcessorFeatures) :
                                                (j - 1) \div 32 = w /\ ProcessorFeatures[j] \in fs}}

(* cpuid *)

isCpuIdSupported == TRUE
\* leaves 0 and 0x80000000 tell the highest leaf; a leaf above it says nothing
getX86CpuIDAndInfo(m, leaf) ==
  CASE leaf = "0" -> [max |-> m.maxLeaf, ebx |-> m.vendor]
    [] leaf = "1" -> [eax |-> m.eax, ecx |-> m.ecx, edx |-> m.edx]
    [] leaf = "80000000" -> [max |-> m.maxExt]
    [] leaf = "80000001" -> [ecx |-> m.ecxExt]
getX86CpuIDAndInfoEx(m, subleaf) ==
  IF subleaf = 0 THEN [ebx |-> m.ebx7, ecx |-> m.ecx7, edx |-> m.edx7] ELSE [eax |-> m.eax71]
getX86XCR0(m) == m.xcr0

detectX86FamilyModel(eax) ==
  LET family == (eax \div 2^8) % 16
      mod == (eax \div 2^4) % 16
  IN  [family |-> IF family = 15 THEN family + ((eax \div 2^20) % 256) ELSE family,
       model |-> IF family \in {6, 15} THEN mod + 16 * ((eax \div 2^16) % 16) ELSE mod]

Cpu(t, s) == [type |-> t, subtype |-> s]
Unknown == Cpu("none", "none")
SkylakeServer(fs) ==
  IF "AVX512BF16" \in fs THEN "COOPERLAKE"
  ELSE IF "AVX512VNNI" \in fs THEN "CASCADELAKE" ELSE "SKYLAKE_AVX512"
IntelCoreI7(mod, fs) ==
  CASE mod \in {26, 30, 31, 46} -> "NEHALEM"
    [] mod \in {37, 44, 47} -> "WESTMERE"
    [] mod \in {42, 45} -> "SANDYBRIDGE"
    [] mod \in {58, 62} -> "IVYBRIDGE"
    [] mod \in {60, 63, 69, 70} -> "HASWELL"
    [] mod \in {61, 71, 79, 86} -> "BROADWELL"
    [] mod \in {78, 94, 142, 158, 165, 166} -> "SKYLAKE"
    [] mod = 167 -> "ROCKETLAKE"
    [] mod = 85 -> SkylakeServer(fs)
    [] mod = 102 -> "CANNONLAKE"
    [] mod \in {125, 126} -> "ICELAKE_CLIENT"
    [] mod \in {106, 108} -> "ICELAKE_SERVER"
    [] mod = 143 -> "SAPPHIRERAPIDS"
    [] OTHER -> "none"
getIntelProcessorTypeAndSubtype(family, mod, fs) ==
  IF family # 6 THEN Unknown ELSE
  CASE mod \in {15, 22, 23, 29} -> Cpu("INTEL_CORE2", "none")
    [] mod \in {28, 38, 39, 53, 54} -> Cpu("INTEL_BONNELL", "none")
    [] mod \in {55, 74, 77, 90, 93, 76} -> Cpu("INTEL_SILVERMONT", "none")
    [] mod \in {92, 95} -> Cpu("INTEL_GOLDMONT", "none")
    [] mod = 122 -> Cpu("INTEL_GOLDMONT_PLUS", "none")
    [] mod = 134 -> Cpu("INTEL_TREMONT", "none")
    [] mod = 87 -> Cpu("INTEL_KNL", "none")
    [] mod = 133 -> Cpu("INTEL_KNM", "none")
    [] IntelCoreI7(mod, fs) # "none" -> Cpu("INTEL_COREI7", IntelCoreI7(mod, fs))
    [] OTHER -> Unknown
AMDFamily(i) == CASE i = 16 -> "AMDFAM10H" [] i = 20 -> "AMD_BTVER1" [] i = 21 -> "AMDFAM15H"
                  [] i = 22 -> "AMD_BTVER2" [] i = 23 -> "AMDFAM17H" [] i = 25 -> "AMDFAM19H"
                  [] OTHER -> "none"
\* Mutant: case 21 falls through to case 22.
AMDTypeFalls(family) == IF family = 21 THEN AMDFamily(22) ELSE AMDFamily(family)
AMDType(family) == AMDFamily(family)
AMDSubtype(family, mod) ==
  CASE family = 16 /\ mod = 2 -> "BARCELONA"
    [] family = 16 /\ mod = 4 -> "SHANGHAI"
    [] family = 16 /\ mod = 8 -> "ISTANBUL"
    [] family = 21 /\ mod \in 96 .. 127 -> "BDVER4"
    [] family = 21 /\ mod \in 48 .. 63 -> "BDVER3"
    [] family = 21 /\ (mod \in 16 .. 31 \/ mod = 2) -> "BDVER2"
    [] family = 21 /\ mod \in 0 .. 15 /\ mod # 2 -> "BDVER1"
    [] family = 23 /\ (mod \in 48 .. 63 \/ mod = 113) -> "ZNVER2"
    [] family = 23 /\ mod \in 0 .. 15 -> "ZNVER1"
    [] family = 25 /\ mod \in 0 .. 15 -> "ZNVER3"
    [] OTHER -> "none"
getAMDProcessorTypeAndSubtype(family, mod) == Cpu(AMDType(family), AMDSubtype(family, mod))

\* Features as getAvailableFeatures leaves it: the bits of the leaves and their features
Named(reg, names) == {e[2] : e \in {d \in names : d[1] \in reg}}
Leaf1 == [ecx |-> {<<0, "SSE3">>, <<1, "PCLMUL">>, <<9, "SSSE3">>, <<12, "FMA">>, <<19, "SSE4_1">>,
                   <<20, "SSE4_2">>, <<23, "POPCNT">>, <<25, "AES">>},
          edx |-> {<<15, "CMOV">>, <<23, "MMX">>, <<25, "SSE">>, <<26, "SSE2">>}]
Leaf7 == [ebx |-> {<<3, "BMI">>, <<8, "BMI2">>}, ecx |-> {<<8, "GFNI">>}]
Leaf7AVX == [ebx |-> {<<5, "AVX2">>}, ecx |-> {<<10, "VPCLMULQDQ">>}]
Leaf7AVX512 ==
  [ebx |-> {<<16, "AVX512F">>, <<17, "AVX512DQ">>, <<21, "AVX512IFMA">>, <<26, "AVX512PF">>,
            <<27, "AVX512ER">>, <<28, "AVX512CD">>, <<30, "AVX512BW">>, <<31, "AVX512VL">>},
   ecx |-> {<<1, "AVX512VBMI">>, <<6, "AVX512VBMI2">>, <<11, "AVX512VNNI">>, <<12, "AVX512BITALG">>,
            <<14, "AVX512VPOPCNTDQ">>},
   edx |-> {<<2, "AVX5124VNNIW">>, <<3, "AVX5124FMAPS">>, <<8, "AVX512VP2INTERSECT">>}]
ExtLeaf1 == [ecx |-> {<<6, "SSE4_A">>, <<11, "XOP">>, <<16, "FMA4">>}]
HasAVX(m, ecx) == {27, 28} \subseteq ecx /\ {1, 2} \subseteq getX86XCR0(m)
\* Mutant: the state of AVX is taken for that of AVX-512.
HasAVXSave(m, ecx) == HasAVX(m, ecx)
HasAVX512Save(m, ecx) == HasAVX(m, ecx) /\ {5, 6, 7} \subseteq getX86XCR0(m)
getAvailableFeatures(m, ecx, edx, maxLeaf) ==
  LET r == getX86CpuIDAndInfoEx(m, 0)
      If(c, fs) == IF c THEN fs ELSE {}
      avx == HasAVX(m, ecx)
      avx512 == HasAVX512Save(m, ecx)
      hasLeaf7 == maxLeaf >= 7
      hasExtLeaf1 == getX86CpuIDAndInfo(m, "80000000").max >= 1
  IN  UNION {Named(ecx, Leaf1.ecx), Named(edx, Leaf1.edx), If(avx, {"AVX"}),
             If(hasLeaf7, Named(r.ebx, Leaf7.ebx) \cup Named(r.ecx, Leaf7.ecx)),
             If(hasLeaf7 /\ avx, Named(r.ebx, Leaf7AVX.ebx) \cup Named(r.ecx, Leaf7AVX.ecx)),
             If(hasLeaf7 /\ avx512, Named(r.ebx, Leaf7AVX512.ebx) \cup Named(r.ecx, Leaf7AVX512.ecx)
                                      \cup Named(r.edx, Leaf7AVX512.edx)),
             If(hasLeaf7 /\ avx512 /\ 5 \in getX86CpuIDAndInfoEx(m, 1).eax, {"AVX512BF16"}),
             If(hasExtLeaf1, Named(getX86CpuIDAndInfo(m, "80000001").ecx, ExtLeaf1.ecx))}

-----------------------------------------------------------------------------
(* __cpu_indicator_init, one step for every access to the shared variables *)

Init ==
  /\ machine \in Machines
  /\ vendor = 0 /\ type = "none" /\ subtype = "none" /\ features = {} /\ features2 = {}
  /\ pc = [c \in Callers |-> "out"]
  /\ local = [c \in Callers |-> {}]
  /\ result = [c \in Callers |-> 0]

Goto(c, where) == pc' = [pc EXCEPT ![c] = where]
Return(c, r) ==
  Goto(c, "returned") /\ result' = [result EXCEPT ![c] = r] /\ local' = [local EXCEPT ![c] = {}]

\* This function needs to run just once.
Begin(c) ==
  /\ pc[c] = "out"
  /\ IF vendor # 0 THEN Return(c, 0) ELSE Goto(c, "identify") /\ UNCHANGED <<local, result>>
  /\ UNCHANGED <<machine, model>>
\* cpuid, and the features into the local array
Identify(c) ==
  LET leaf0 == getX86CpuIDAndInfo(machine, "0")
      leaf1 == getX86CpuIDAndInfo(machine, "1")
  IN  /\ pc[c] = "identify"
      /\ IF ~isCpuIdSupported \/ leaf0.max < 1
         THEN vendor' = VENDOR_OTHER /\ Return(c, -1)
         ELSE /\ local' = [local EXCEPT ![c] =
                             getAvailableFeatures(machine, leaf1.ecx, leaf1.edx, leaf0.max)]
              /\ Goto(c, "features")
              /\ UNCHANGED <<vendor, result>>
      /\ UNCHANGED <<machine, type, subtype, features, features2>>
Signature == getX86CpuIDAndInfo(machine, "0").ebx
TheVendor ==
  CASE Signature = "Genu" -> VENDOR_INTEL [] Signature = "Auth" -> VENDOR_AMD [] OTHER -> VENDOR_OTHER
\* Mutant: the vendor is written with the features.
WriteVendorFirst(c) ==
  /\ pc[c] = "features"
  /\ vendor' = TheVendor
  /\ features' = Word(local[c], 0) /\ Goto(c, "features2")
  /\ UNCHANGED <<machine, type, subtype, features2, local, result>>
WriteFeatures(c) ==
  /\ pc[c] = "features"
  /\ features' = Word(local[c], 0) /\ Goto(c, "features2")
  /\ UNCHANGED <<machine, vendor, type, subtype, features2, local, result>>
WriteFeatures2(c) ==
  /\ pc[c] = "features2"
  /\ features2' = Word(local[c], 1) /\ Goto(c, "type")
  /\ UNCHANGED <<machine, vendor, type, subtype, features, local, result>>
TheCpu(fs) ==
  LET fm == detectX86FamilyModel(getX86CpuIDAndInfo(machine, "1").eax)
  IN  CASE Signature = "Genu" -> getIntelProcessorTypeAndSubtype(fm.family, fm.model, fs)
        [] Signature = "Auth" -> getAMDProcessorTypeAndSubtype(fm.family, fm.model)
        [] OTHER -> Unknown
\* the assignments to *Type and *Subtype, those that there are
WriteType(c) ==
  /\ pc[c] = "type"
  /\ IF TheCpu(local[c]).type = "none" THEN UNCHANGED type ELSE type' = TheCpu(local[c]).type
  /\ Goto(c, "subtype")
  /\ UNCHANGED <<machine, vendor, subtype, features, features2, local, result>>
WriteSubtype(c) ==
  /\ pc[c] = "subtype"
  /\ IF TheCpu(local[c]).subtype = "none" THEN UNCHANGED subtype
     ELSE subtype' = TheCpu(local[c]).subtype
  /\ Goto(c, "vendor")
  /\ UNCHANGED <<machine, vendor, type, features, features2, local, result>>
WriteVendor(c) ==
  /\ pc[c] = "vendor"
  /\ vendor' = TheVendor /\ Return(c, 0)
  /\ UNCHANGED <<machine, type, subtype, features, features2>>
\* the caller uses the description, and may call again
Leave(c) ==
  /\ pc[c] = "returned" /\ Goto(c, "out")
  /\ UNCHANGED <<machine, model, local, result>>

cpu_indicator_init(c) ==
  \/ Begin(c) \/ Identify(c) \/ WriteFeatures(c) \/ WriteFeatures2(c)
  \/ WriteType(c) \/ WriteSubtype(c) \/ WriteVendor(c)
Next == \E c \in Callers : cpu_indicator_init(c) \/ Leave(c)
Spec == Init /\ [][Next]_vars

-----------------------------------------------------------------------------
\* what a complete description of the machine says
Described ==
  LET fs == getAvailableFeatures(machine, machine.ecx, machine.edx, machine.maxLeaf)
  IN  IF machine.maxLeaf < 1
      THEN vendor = VENDOR_OTHER /\ type = "none" /\ subtype = "none"
             /\ features \cup features2 = {}
      ELSE /\ vendor = TheVendor
           /\ features \cup features2 = fs
           /\ type = TheCpu(fs).type /\ subtype = TheCpu(fs).subtype

(***************************************************************************)
(* Whoever finds a vendor in __cpu_model, or has returned from             *)
(* __cpu_indicator_init, finds everything else in it and in                *)
(* __cpu_features2: the vendor is written last, and a second thread that   *)
(* is still writing writes the same values.  The check at the top of       *)
(* __cpu_indicator_init relies on it.                                      *)
(***************************************************************************)
VendorLast == vendor # 0 \/ (\E c \in Callers : pc[c] = "returned") => Described

(***************************************************************************)
(* No vector feature is reported whose registers the operating system does *)
(* not save: AVX, AVX2 and VPCLMULQDQ need the upper halves of ymm, the    *)
(* AVX-512 features the masks and zmm as well ("we have full AVX support", *)
(* cpu_model.c:613).  FMA, FMA4 and XOP are reported as cpuid has them.    *)
(***************************************************************************)
AVX512 == {f \in {ProcessorFeatures[i] : i \in 1 .. Len(ProcessorFeatures)} :
             f \notin {"CMOV", "MMX", "POPCNT", "SSE", "SSE2", "SSE3", "SSSE3", "SSE4_1", "SSE4_2",
                       "AVX", "AVX2", "SSE4_A", "FMA4", "XOP", "FMA", "BMI", "BMI2", "AES",
                       "PCLMUL", "GFNI", "VPCLMULQDQ"}}
StateSaved ==
  LET saved == IF 27 \in machine.ecx THEN machine.xcr0 ELSE {}
      fs == features \cup features2
  IN  /\ fs \cap {"AVX", "AVX2", "VPCLMULQDQ"} # {} => {1, 2} \subseteq saved
      /\ fs \cap AVX512 # {} => {1, 2, 5, 6, 7} \subseteq saved

(***************************************************************************)
(* The assertions at the end of __cpu_indicator_init, and that the subtype *)
(* is one of the type and the type one of the vendor, whatever signature   *)
(* the processor has.                                                      *)
(***************************************************************************)
SubtypesOf(t) ==
  CASE t = "AMDFAM10H" -> {"BARCELONA", "SHANGHAI", "ISTANBUL"}
    [] t = "AMDFAM15H" -> {"BDVER1", "BDVER2", "BDVER3", "BDVER4"}
    [] t = "AMDFAM17H" -> {"ZNVER1", "ZNVER2"}
    [] t = "AMDFAM19H" -> {"ZNVER3"}
    [] t = "INTEL_COREI7" -> {ProcessorSubtypes[i] : i \in {1, 2, 3} \cup 12 .. 19 \cup 21 .. 25 \cup {27}}
    [] OTHER -> {}
TypesAgree ==
  LET intel == {1, 2, 3, 6, 7, 11, 12, 13, 14}
      Names(is) == {ProcessorTypes[i] : i \in is}
  IN  vendor # 0 =>
        /\ vendor < VENDOR_MAX
        /\ subtype # "none" => subtype \in SubtypesOf(type)
        /\ type # "none" => \/ vendor = VENDOR_INTEL /\ type \in Names(intel)
                            \/ vendor = VENDOR_AMD /\ type \in Names((1 .. 15) \ intel)
=============================================================================
