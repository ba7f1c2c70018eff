--------------------------- MODULE RuntimeProofs ---------------------------
(***************************************************************************)
(* Proofs about two parts of compiler-rt_soft_float.                       *)
(*                                                                         *)
(* CpuModel, for any callers and any processors: whoever finds a vendor    *)
(* finds the whole description, however many callers write it at the same  *)
(* time; no vector feature is reported whose registers are not saved; and  *)
(* vendor, type and subtype agree.                                         *)
(*                                                                         *)
(* ArithCalls, for any operands of any width up to 128 bits: the trapping  *)
(* routines trap exactly on overflow; products and negations of double     *)
(* words wrap, and comparisons order them.                                 *)
(***************************************************************************)
EXTENDS CpuModel, ArithCalls, TLAPS

-----------------------------------------------------------------------------
(* The features *)

\* the names that need no saved state, those of AVX, and those of AVX-512
PlainNames ==
  {"CMOV", "MMX", "POPCNT", "SSE", "SSE2", "SSE3", "SSSE3", "SSE4_1", "SSE4_2", "SSE4_A", "FMA4",
   "XOP", "FMA", "BMI", "BMI2", "AES", "PCLMUL", "GFNI"}
AVXNames == {"AVX", "AVX2", "VPCLMULQDQ"}
AVX512Names ==
  {"AVX512F", "AVX512VL", "AVX512BW", "AVX512DQ", "AVX512CD", "AVX512ER", "AVX512PF", "AVX512VBMI",
   "AVX512IFMA", "AVX5124VNNIW", "AVX5124FMAPS", "AVX512VPOPCNTDQ", "AVX512VBMI2", "AVX512VNNI",
   "AVX512BITALG", "AVX512BF16", "AVX512VP2INTERSECT"}
AllNames == {ProcessorFeatures[i] : i \in 1 .. Len(ProcessorFeatures)}

(* The enumeration names every feature.                                    *)
LEMMA Enumerated ==
  /\ Len(ProcessorFeatures) = 38
  /\ PlainNames \subseteq AllNames /\ AVXNames \subseteq AllNames /\ AVX512Names \subseteq AllNames
<1> DEFINE P == ProcessorFeatures
<1>1. Len(P) = 38
  BY DEF ProcessorFeatures
<1>2. /\ P[1] = "CMOV" /\ P[2] = "MMX" /\ P[3] = "POPCNT" /\ P[4] = "SSE" /\ P[5] = "SSE2"
      /\ P[6] = "SSE3" /\ P[7] = "SSSE3" /\ P[8] = "SSE4_1" /\ P[9] = "SSE4_2" /\ P[12] = "SSE4_A"
      /\ P[13] = "FMA4" /\ P[14] = "XOP" /\ P[15] = "FMA" /\ P[17] = "BMI" /\ P[18] = "BMI2"
      /\ P[19] = "AES" /\ P[20] = "PCLMUL" /\ P[33] = "GFNI"
  BY DEF ProcessorFeatures
<1>3. P[10] = "AVX" /\ P[11] = "AVX2" /\ P[34] = "VPCLMULQDQ"
  BY DEF ProcessorFeatures
<1>4. /\ P[16] = "AVX512F" /\ P[21] = "AVX512VL" /\ P[22] = "AVX512BW" /\ P[23] = "AVX512DQ"
      /\ P[24] = "AVX512CD" /\ P[25] = "AVX512ER" /\ P[26] = "AVX512PF" /\ P[27] = "AVX512VBMI"
      /\ P[28] = "AVX512IFMA" /\ P[29] = "AVX5124VNNIW" /\ P[30] = "AVX5124FMAPS"
      /\ P[31] = "AVX512VPOPCNTDQ" /\ P[32] = "AVX512VBMI2" /\ P[35] = "AVX512VNNI"
      /\ P[36] = "AVX512BITALG" /\ P[37] = "AVX512BF16" /\ P[38] = "AVX512VP2INTERSECT"
  BY DEF ProcessorFeatures
<1>5. \A i \in 1 .. 38 : P[i] \in AllNames
  BY <1>1 DEF AllNames
<1>6. PlainNames \subseteq AllNames
  BY <1>2, <1>5 DEF PlainNames
<1>7. AVXNames \subseteq AllNames
  BY <1>3, <1>5 DEF AVXNames
<1>8. AVX512Names \subseteq AllNames
  BY <1>4, <1>5 DEF AVX512Names
<1> QED  BY <1>1, <1>6, <1>7, <1>8

(* The two words hold the features between them.                           *)
LEMMA TwoWords ==
  ASSUME NEW fs \in SUBSET AllNames
  PROVE  Word(fs, 0) \cup Word(fs, 1) = fs
<1>1. ASSUME NEW f \in fs PROVE f \in Word(fs, 0) \cup Word(fs, 1)
  <2>1. PICK i \in 1 .. 38 : f = ProcessorFeatures[i]
    BY Enumerated DEF AllNames
  <2>2. (i - 1) \div 32 = 0 \/ (i - 1) \div 32 = 1
    OBVIOUS
  <2> QED  BY <2>1, <2>2, Enumerated DEF Word
<1>2. \A k \in {0, 1} : Word(fs, k) \subseteq fs
  BY DEF Word
<1> QED  BY <1>1, <1>2

(* What the bits of a leaf can name.                                       *)
LEMMA LeafNames ==
  ASSUME NEW reg
  PROVE  /\ Named(reg, Leaf1.ecx) \subseteq PlainNames /\ Named(reg, Leaf1.edx) \subseteq PlainNames
         /\ Named(reg, Leaf7.ebx) \subseteq PlainNames /\ Named(reg, Leaf7.ecx) \subseteq PlainNames
         /\ Named(reg, ExtLeaf1.ecx) \subseteq PlainNames
         /\ Named(reg, Leaf7AVX.ebx) \subseteq AVXNames /\ Named(reg, Leaf7AVX.ecx) \subseteq AVXNames
         /\ Named(reg, Leaf7AVX512.ebx) \subseteq AVX512Names
         /\ Named(reg, Leaf7AVX512.ecx) \subseteq AVX512Names
         /\ Named(reg, Leaf7AVX512.edx) \subseteq AVX512Names
<1>1. ASSUME NEW names, NEW S, \A e \in names : e[2] \in S PROVE Named(reg, names) \subseteq S
  BY <1>1 DEF Named
<1>2. \A e \in Leaf1.ecx \cup Leaf1.edx \cup Leaf7.ebx \cup Leaf7.ecx \cup ExtLeaf1.ecx : e[2] \in PlainNames
  BY DEF Leaf1, Leaf7, ExtLeaf1, PlainNames
<1>3. \A e \in Leaf7AVX.ebx \cup Leaf7AVX.ecx : e[2] \in AVXNames
  BY DEF Leaf7AVX, AVXNames
<1>4. \A e \in Leaf7AVX512.ebx \cup Leaf7AVX512.ecx \cup Leaf7AVX512.edx : e[2] \in AVX512Names
  BY DEF Leaf7AVX512, AVX512Names
<1> QED  BY <1>1, <1>2, <1>3, <1>4

(* Features of AVX and of AVX-512 come with the state that they need.      *)
LEMMA AvailableFeatures ==
  ASSUME NEW m, NEW ecx, NEW edx, NEW maxLeaf
  PROVE  LET fs == getAvailableFeatures(m, ecx, edx, maxLeaf)
         IN  \A f \in fs : \/ f \in PlainNames
                           \/ f \in AVXNames /\ HasAVX(m, ecx)
                           \/ f \in AVX512Names /\ HasAVX512Save(m, ecx)
<1>1. "AVX" \in AVXNames /\ "AVX512BF16" \in AVX512Names
  BY DEF AVXNames, AVX512Names
<1> QED  BY <1>1, LeafNames DEF getAvailableFeatures

-----------------------------------------------------------------------------
(* The description *)

TheFeatures == getAvailableFeatures(machine, machine.ecx, machine.edx, machine.maxLeaf)
TheType == TheCpu(TheFeatures).type
TheSubtype == TheCpu(TheFeatures).subtype
\* the places of a caller after each of the stores
Stored1 == {"features2", "type", "subtype", "vendor"}
Stored2 == {"type", "subtype", "vendor"}
Stored3 == {"subtype", "vendor"}
Working == {"features", "features2", "type", "subtype", "vendor"}
Places == Working \cup {"out", "identify", "returned"}
NoCpuid == machine.maxLeaf < 1

Types == pc \in [Callers -> Places] /\ local = [c \in Callers |-> local[c]]
\* what is stored is either nothing or what the machine has
Partial ==
  /\ features \in {{}, Word(TheFeatures, 0)} /\ features2 \in {{}, Word(TheFeatures, 1)}
  /\ type \in {"none", TheType} /\ subtype \in {"none", TheSubtype}
\* a caller finds what it has stored, and what it has computed is right
Progress(c) ==
  /\ pc[c] \in Working => ~NoCpuid /\ local[c] = TheFeatures
  /\ pc[c] \in Stored1 => features = Word(TheFeatures, 0)
  /\ pc[c] \in Stored2 => features2 = Word(TheFeatures, 1)
  /\ pc[c] \in Stored3 => type = TheType
  /\ pc[c] = "vendor" => subtype = TheSubtype
Complete ==
  IF NoCpuid THEN vendor = VENDOR_OTHER
  ELSE /\ vendor = TheVendor
       /\ features = Word(TheFeatures, 0) /\ features2 = Word(TheFeatures, 1)
       /\ type = TheType /\ subtype = TheSubtype
Untouched == NoCpuid => features = {} /\ features2 = {} /\ type = "none" /\ subtype = "none"
ModelInv ==
  /\ Types /\ Partial /\ Untouched
  /\ \A c \in Callers : Progress(c) /\ (pc[c] = "returned" => vendor # 0)
  /\ vendor # 0 => Complete

(* A step changes neither the processor nor what is true of it.            *)
LEMMA SameMachine ==
  ASSUME machine' = machine
  PROVE  /\ TheFeatures' = TheFeatures /\ TheVendor' = TheVendor /\ NoCpuid' = NoCpuid
         /\ TheType' = TheType /\ TheSubtype' = TheSubtype
<1>1. TheFeatures' = TheFeatures /\ TheVendor' = TheVendor /\ (NoCpuid' = NoCpuid)
  BY DEF TheFeatures, TheVendor, Signature, NoCpuid
<1>2. ASSUME NEW fs PROVE TheCpu(fs)' = TheCpu(fs)
  BY DEF TheCpu, Signature
<1> QED  BY <1>1, <1>2 DEF TheType, TheSubtype, TheCpu, Signature
LEMMA Machine == [Next]_vars => machine' = machine
  BY DEF Next, vars, cpu_indicator_init, Begin, Identify, WriteFeatures, WriteFeatures2, WriteType, WriteSubtype,
         WriteVendor, Leave
LEMMA VendorNotZero == TheVendor # 0 /\ VENDOR_OTHER # 0
  BY DEF TheVendor, VENDOR_INTEL, VENDOR_AMD, VENDOR_OTHER

LEMMA ModelInit == Init => ModelInv
  BY DEF Init, ModelInv, Types, Partial, Untouched, Progress, Places, Working, Stored1, Stored2, Stored3

(* The local computation of a caller is that of the machine.               *)
LEMMA Leaves ==
  /\ getX86CpuIDAndInfo(machine, "0").max = machine.maxLeaf
  /\ getX86CpuIDAndInfo(machine, "1").ecx = machine.ecx
  /\ getX86CpuIDAndInfo(machine, "1").edx = machine.edx
  BY DEF getX86CpuIDAndInfo

(* Every store of every caller brings the description nearer to complete,  *)
(* and repeats what another caller stored.                                 *)
LEMMA ModelStep ==
  ASSUME ModelInv, [Next]_vars
  PROVE  ModelInv'
<1>0. /\ machine' = machine /\ TheFeatures' = TheFeatures /\ TheVendor' = TheVendor
      /\ NoCpuid' = NoCpuid /\ TheType' = TheType /\ TheSubtype' = TheSubtype
  BY Machine, SameMachine
<1> USE DEF ModelInv, Types, Partial, Untouched, Progress, Complete
<1>1. CASE UNCHANGED vars
  BY <1>0, <1>1 DEF vars, model
<1>2. ASSUME NEW c \in Callers, Begin(c) \/ Leave(c) PROVE ModelInv'
  <2>1. UNCHANGED model /\ Types'
    BY <1>2 DEF Begin, Leave, Goto, Return, Places, Working
  <2>2. \A d \in Callers : /\ d # c => pc'[d] = pc[d] /\ local'[d] = local[d]
                           /\ d = c => pc'[d] \in {"identify", "returned", "out"}
                           /\ d = c /\ pc'[d] = "returned" => vendor # 0
    BY <1>2 DEF Begin, Leave, Goto, Return
  <2> QED  BY <1>0, <2>1, <2>2 DEF model, Working, Stored1, Stored2, Stored3
<1>3. ASSUME NEW c \in Callers, Identify(c) PROVE ModelInv'
  <2>1. CASE NoCpuid
    <3>1. /\ vendor' = VENDOR_OTHER /\ UNCHANGED <<type, subtype, features, features2>> /\ Types'
          /\ \A d \in Callers : /\ d # c => pc'[d] = pc[d] /\ local'[d] = local[d]
                                /\ d = c => pc'[d] = "returned"
      BY <1>3, <2>1, Leaves DEF Identify, NoCpuid, Goto, Return, Places, Working
    <3> QED  BY <1>0, <2>1, <3>1, VendorNotZero DEF Working, Stored1, Stored2, Stored3
  <2>2. CASE ~NoCpuid
    <3>1. /\ UNCHANGED <<vendor, type, subtype, features, features2>> /\ Types'
          /\ \A d \in Callers : /\ d # c => pc'[d] = pc[d] /\ local'[d] = local[d]
                                /\ d = c => pc'[d] = "features" /\ local'[d] = TheFeatures
      BY <1>3, <2>2, Leaves DEF Identify, NoCpuid, isCpuIdSupported, Goto, Places, Working, TheFeatures
    <3> QED  BY <1>0, <2>2, <3>1 DEF Working, Stored1, Stored2, Stored3
  <2> QED  BY <2>1, <2>2
<1>4. ASSUME NEW c \in Callers, WriteFeatures(c) PROVE ModelInv'
  <2>1. /\ features' = Word(TheFeatures, 0) /\ UNCHANGED <<vendor, type, subtype, features2, local>> /\ Types'
        /\ ~NoCpuid
        /\ \A d \in Callers : (d # c => pc'[d] = pc[d]) /\ (d = c => pc'[d] = "features2")
    BY <1>4 DEF WriteFeatures, Goto, Places, Working
  <2>2. local[c] = TheFeatures
    BY <1>4 DEF WriteFeatures, Working
  <2> QED  BY <1>0, <2>1, <2>2 DEF Working, Stored1, Stored2, Stored3
<1>5. ASSUME NEW c \in Callers, WriteFeatures2(c) PROVE ModelInv'
  <2>1. /\ features2' = Word(TheFeatures, 1) /\ UNCHANGED <<vendor, type, subtype, features, local>> /\ Types'
        /\ ~NoCpuid /\ local[c] = TheFeatures /\ features = Word(TheFeatures, 0)
        /\ \A d \in Callers : (d # c => pc'[d] = pc[d]) /\ (d = c => pc'[d] = "type")
    BY <1>5 DEF WriteFeatures2, Goto, Places, Working, Stored1
  <2> QED  BY <1>0, <2>1 DEF Working, Stored1, Stored2, Stored3
<1>6. ASSUME NEW c \in Callers, WriteType(c) PROVE ModelInv'
  <2>1. /\ pc[c] = "type" /\ ~NoCpuid /\ local[c] = TheFeatures
        /\ features = Word(TheFeatures, 0) /\ features2 = Word(TheFeatures, 1)
    BY <1>6 DEF WriteType, Working, Stored1, Stored2
  <2>2. type' = TheType
    BY <1>6, <2>1 DEF WriteType, TheType
  <2>3. /\ UNCHANGED <<vendor, subtype, features, features2, local>> /\ Types'
        /\ \A d \in Callers : (d # c => pc'[d] = pc[d]) /\ (d = c => pc'[d] = "subtype")
    BY <1>6 DEF WriteType, Goto, Places, Working
  <2> QED  BY <1>0, <2>1, <2>2, <2>3 DEF Working, Stored1, Stored2, Stored3
<1>7. ASSUME NEW c \in Callers, WriteSubtype(c) PROVE ModelInv'
  <2>1. /\ pc[c] = "subtype" /\ ~NoCpuid /\ local[c] = TheFeatures
        /\ features = Word(TheFeatures, 0) /\ features2 = Word(TheFeatures, 1) /\ type = TheType
    BY <1>7 DEF WriteSubtype, Working, Stored1, Stored2, Stored3
  <2>2. subtype' = TheSubtype
    BY <1>7, <2>1 DEF WriteSubtype, TheSubtype
  <2>3. /\ UNCHANGED <<vendor, type, features, features2, local>> /\ Types'
        /\ \A d \in Callers : (d # c => pc'[d] = pc[d]) /\ (d = c => pc'[d] = "vendor")
    BY <1>7 DEF WriteSubtype, Goto, Places, Working
  <2> QED  BY <1>0, <2>1, <2>2, <2>3 DEF Working, Stored1, Stored2, Stored3
<1>8. ASSUME NEW c \in Callers, WriteVendor(c) PROVE ModelInv'
  <2>1. /\ pc[c] = "vendor" /\ ~NoCpuid
        /\ features = Word(TheFeatures, 0) /\ features2 = Word(TheFeatures, 1)
        /\ type = TheType /\ subtype = TheSubtype
    BY <1>8 DEF WriteVendor, Working, Stored1, Stored2, Stored3
  <2>2. /\ vendor' = TheVendor /\ UNCHANGED <<type, subtype, features, features2>> /\ Types'
        /\ \A d \in Callers : /\ d # c => pc'[d] = pc[d] /\ local'[d] = local[d]
                              /\ d = c => pc'[d] = "returned"
    BY <1>8 DEF WriteVendor, Goto, Return, Places, Working
  <2> QED  BY <1>0, <2>1, <2>2, VendorNotZero DEF Working, Stored1, Stored2, Stored3
<1> QED
  BY <1>1, <1>2, <1>3, <1>4, <1>5, <1>6, <1>7, <1>8 DEF Next, cpu_indicator_init

(* What is stored is among the features of the machine, and all of them    *)
(* once the description is complete.                                       *)
LEMMA FeatureBounds ==
  /\ TheFeatures \subseteq AllNames
  /\ Word(TheFeatures, 0) \cup Word(TheFeatures, 1) = TheFeatures
<1>1. TheFeatures \subseteq AllNames
  BY AvailableFeatures, Enumerated DEF TheFeatures
<1> QED  BY <1>1, TwoWords

(* Whoever finds a vendor, or has returned, finds the whole description.   *)
LEMMA ModelDescribed == ModelInv => VendorLast
<1> SUFFICES ASSUME ModelInv, vendor # 0 PROVE Described
  BY DEF ModelInv, VendorLast
<1>1. CASE NoCpuid
  BY <1>1 DEF ModelInv, Complete, Untouched, Described, NoCpuid
<1>2. CASE ~NoCpuid
  <2>1. features \cup features2 = TheFeatures
    BY <1>2, FeatureBounds DEF ModelInv, Complete
  <2> QED  BY <1>2, <2>1 DEF ModelInv, Complete, Described, NoCpuid, TheFeatures, TheType, TheSubtype
<1> QED  BY <1>1, <1>2

(* A stored feature of AVX or of AVX-512 has its state saved.              *)
LEMMA ModelSaved == ModelInv => StateSaved
<1> SUFFICES ASSUME ModelInv PROVE StateSaved
  OBVIOUS
<1> DEFINE fs == features \cup features2
<1>1. fs \subseteq TheFeatures
  BY FeatureBounds DEF ModelInv, Partial
<1>2. \A f \in fs : \/ f \in PlainNames
                    \/ f \in AVXNames /\ HasAVX(machine, machine.ecx)
                    \/ f \in AVX512Names /\ HasAVX512Save(machine, machine.ecx)
  BY <1>1, AvailableFeatures DEF TheFeatures
<1>3. /\ \A f \in AVXNames : f \notin PlainNames /\ f \notin AVX512Names
      /\ \A f \in AVX512 : f \notin PlainNames /\ f \notin AVXNames
  BY DEF AVXNames, AVX512Names, PlainNames, AVX512
<1>4. HasAVX(machine, machine.ecx) => 27 \in machine.ecx /\ {1, 2} \subseteq machine.xcr0
  BY DEF HasAVX, getX86XCR0
<1>5. HasAVX512Save(machine, machine.ecx) => 27 \in machine.ecx /\ {1, 2, 5, 6, 7} \subseteq machine.xcr0
  BY <1>4 DEF HasAVX512Save, getX86XCR0
<1>6. fs \cap AVXNames # {} => HasAVX(machine, machine.ecx)
  BY <1>2, <1>3
<1>7. fs \cap AVX512 # {} => HasAVX512Save(machine, machine.ecx)
  BY <1>2, <1>3
<1> QED  BY <1>4, <1>5, <1>6, <1>7 DEF StateSaved, AVXNames

(* The tables give a subtype only with its type, and a type of the vendor. *)
IntelTypes == {ProcessorTypes[i] : i \in {1, 2, 3, 6, 7, 11, 12, 13, 14}}
AMDTypes == {ProcessorTypes[i] : i \in (1 .. 15) \ {1, 2, 3, 6, 7, 11, 12, 13, 14}}
Agree(cpu, types) ==
  /\ cpu.subtype # "none" => cpu.subtype \in SubtypesOf(cpu.type)
  /\ cpu.type # "none" => cpu.type \in types
LEMMA IntelAgrees ==
  ASSUME NEW family, NEW mod, NEW fs
  PROVE  Agree(getIntelProcessorTypeAndSubtype(family, mod, fs), IntelTypes)
<1>1. /\ ProcessorTypes[1] = "INTEL_BONNELL" /\ ProcessorTypes[2] = "INTEL_CORE2"
      /\ ProcessorTypes[3] = "INTEL_COREI7" /\ ProcessorTypes[6] = "INTEL_SILVERMONT"
      /\ ProcessorTypes[7] = "INTEL_KNL" /\ ProcessorTypes[11] = "INTEL_KNM"
      /\ ProcessorTypes[12] = "INTEL_GOLDMONT" /\ ProcessorTypes[13] = "INTEL_GOLDMONT_PLUS"
      /\ ProcessorTypes[14] = "INTEL_TREMONT"
  BY DEF ProcessorTypes
<1>2. {"INTEL_BONNELL", "INTEL_CORE2", "INTEL_COREI7", "INTEL_SILVERMONT", "INTEL_KNL", "INTEL_KNM",
       "INTEL_GOLDMONT", "INTEL_GOLDMONT_PLUS", "INTEL_TREMONT"} \subseteq IntelTypes
  BY <1>1 DEF IntelTypes
<1> DEFINE S == {ProcessorSubtypes[i] : i \in {1, 2, 3} \cup 12 .. 19 \cup 21 .. 25 \cup {27}}
<1>3. /\ ProcessorSubtypes[1] = "NEHALEM" /\ ProcessorSubtypes[2] = "WESTMERE"
      /\ ProcessorSubtypes[3] = "SANDYBRIDGE" /\ ProcessorSubtypes[12] = "IVYBRIDGE"
      /\ ProcessorSubtypes[13] = "HASWELL" /\ ProcessorSubtypes[14] = "BROADWELL"
      /\ ProcessorSubtypes[15] = "SKYLAKE" /\ ProcessorSubtypes[16] = "SKYLAKE_AVX512"
      /\ ProcessorSubtypes[17] = "CANNONLAKE" /\ ProcessorSubtypes[18] = "ICELAKE_CLIENT"
      /\ ProcessorSubtypes[19] = "ICELAKE_SERVER" /\ ProcessorSubtypes[21] = "CASCADELAKE"
      /\ ProcessorSubtypes[23] = "COOPERLAKE" /\ ProcessorSubtypes[24] = "SAPPHIRERAPIDS"
      /\ ProcessorSubtypes[27] = "ROCKETLAKE"
  BY DEF ProcessorSubtypes
<1>4. {"NEHALEM", "WESTMERE", "SANDYBRIDGE", "IVYBRIDGE", "HASWELL", "BROADWELL", "SKYLAKE", "SKYLAKE_AVX512",
       "CANNONLAKE", "ICELAKE_CLIENT", "ICELAKE_SERVER", "CASCADELAKE", "COOPERLAKE", "SAPPHIRERAPIDS",
       "ROCKETLAKE"} \subseteq S
  BY <1>3
<1>5. SubtypesOf("INTEL_COREI7") = S
  BY DEF SubtypesOf
<1> HIDE DEF S
<1>6. IntelCoreI7(mod, fs) = "none" \/ IntelCoreI7(mod, fs) \in S
  <2>1. SkylakeServer(fs) \in {"COOPERLAKE", "CASCADELAKE", "SKYLAKE_AVX512"}
    BY DEF SkylakeServer
  <2>2. IntelCoreI7(mod, fs) \in {"none", "NEHALEM", "WESTMERE", "SANDYBRIDGE", "IVYBRIDGE", "HASWELL",
                                  "BROADWELL", "SKYLAKE", "CANNONLAKE", "ICELAKE_CLIENT",
                                  "ICELAKE_SERVER", "SAPPHIRERAPIDS", "ROCKETLAKE", SkylakeServer(fs)}
    BY DEF IntelCoreI7
  <2> QED  BY <1>4, <2>1, <2>2
<1> DEFINE cpu == getIntelProcessorTypeAndSubtype(family, mod, fs)
<1> DEFINE i7 == Cpu("INTEL_COREI7", IntelCoreI7(mod, fs))
           plain == {"none", "INTEL_CORE2", "INTEL_BONNELL", "INTEL_SILVERMONT", "INTEL_GOLDMONT",
                     "INTEL_GOLDMONT_PLUS", "INTEL_TREMONT", "INTEL_KNL", "INTEL_KNM"}
<1>7. cpu = i7 \/ \E t \in plain : cpu = Cpu(t, "none")
  <2>1. family = 6 => cpu \in {i7, Unknown, Cpu("INTEL_CORE2", "none"), Cpu("INTEL_BONNELL", "none"),
                               Cpu("INTEL_SILVERMONT", "none"), Cpu("INTEL_GOLDMONT", "none"),
                               Cpu("INTEL_GOLDMONT_PLUS", "none"), Cpu("INTEL_TREMONT", "none"),
                               Cpu("INTEL_KNL", "none"), Cpu("INTEL_KNM", "none")}
    BY DEF getIntelProcessorTypeAndSubtype
  <2>2. family # 6 => cpu = Unknown
    BY DEF getIntelProcessorTypeAndSubtype
  <2> QED  BY <2>1, <2>2 DEF Unknown
<1> HIDE DEF cpu
<1>8. CASE cpu = i7
  <2>1. cpu.type = "INTEL_COREI7" /\ cpu.subtype = IntelCoreI7(mod, fs)
    BY <1>8 DEF Cpu
  <2>2. "INTEL_COREI7" \in IntelTypes
    BY <1>2
  <2>3. SubtypesOf(cpu.type) = S
    BY <1>5, <2>1
  <2>4. cpu.subtype = "none" \/ cpu.subtype \in S
    BY <1>6, <2>1
  <2> QED  BY <2>1, <2>2, <2>3, <2>4 DEF Agree, cpu
<1>9. ASSUME NEW t \in plain, cpu = Cpu(t, "none") PROVE Agree(cpu, IntelTypes)
  BY <1>2, <1>9 DEF Agree, Cpu
<1> QED  BY <1>7, <1>8, <1>9 DEF cpu
LEMMA AMDAgrees ==
  ASSUME NEW family, NEW mod
  PROVE  Agree(getAMDProcessorTypeAndSubtype(family, mod), AMDTypes)
<1>1. /\ ProcessorTypes[4] = "AMDFAM10H" /\ ProcessorTypes[5] = "AMDFAM15H"
      /\ ProcessorTypes[8] = "AMD_BTVER1" /\ ProcessorTypes[9] = "AMD_BTVER2"
      /\ ProcessorTypes[10] = "AMDFAM17H" /\ ProcessorTypes[15] = "AMDFAM19H"
  BY DEF ProcessorTypes
<1>2. {"AMDFAM10H", "AMDFAM15H", "AMD_BTVER1", "AMD_BTVER2", "AMDFAM17H", "AMDFAM19H"} \subseteq AMDTypes
  BY <1>1 DEF AMDTypes
<1>3. AMDType(family) = "none" \/ AMDType(family) \in AMDTypes
  BY <1>2 DEF AMDType, AMDFamily
<1>4. AMDSubtype(family, mod) = "none" \/ AMDSubtype(family, mod) \in SubtypesOf(AMDType(family))
  <2>1. CASE family = 16
    BY <2>1 DEF AMDSubtype, AMDType, AMDFamily, SubtypesOf
  <2>2. CASE family = 21
    BY <2>2 DEF AMDSubtype, AMDType, AMDFamily, SubtypesOf
  <2>3. CASE family = 23
    BY <2>3 DEF AMDSubtype, AMDType, AMDFamily, SubtypesOf
  <2>4. CASE family = 25
    BY <2>4 DEF AMDSubtype, AMDType, AMDFamily, SubtypesOf
  <2>5. CASE family \notin {16, 21, 23, 25}
    BY <2>5 DEF AMDSubtype
  <2> QED  BY <2>1, <2>2, <2>3, <2>4, <2>5
<1> QED  BY <1>3, <1>4 DEF Agree, getAMDProcessorTypeAndSubtype, Cpu
LEMMA ModelAgrees == ModelInv => TypesAgree
<1> SUFFICES ASSUME ModelInv, vendor # 0
             PROVE  /\ vendor < VENDOR_MAX
                    /\ subtype # "none" => subtype \in SubtypesOf(type)
                    /\ type # "none" => \/ vendor = VENDOR_INTEL /\ type \in IntelTypes
                                        \/ vendor = VENDOR_AMD /\ type \in AMDTypes
  BY DEF TypesAgree, IntelTypes, AMDTypes
<1>1. CASE NoCpuid
  BY <1>1 DEF ModelInv, Complete, Untouched, VENDOR_OTHER, VENDOR_MAX
<1>2. CASE ~NoCpuid
  <2>1. vendor = TheVendor /\ type = TheType /\ subtype = TheSubtype
    BY <1>2 DEF ModelInv, Complete
  <2>2. TheVendor < VENDOR_MAX
    BY DEF TheVendor, VENDOR_INTEL, VENDOR_AMD, VENDOR_OTHER, VENDOR_MAX
  <2> DEFINE cpu == TheCpu(TheFeatures)
  <2>3. CASE Signature = "Genu"
    <3>1. TheVendor = VENDOR_INTEL /\ Agree(cpu, IntelTypes)
      BY <2>3, IntelAgrees DEF TheVendor, TheCpu
    <3> QED  BY <2>1, <2>2, <3>1 DEF Agree, TheType, TheSubtype
  <2>4. CASE Signature = "Auth"
    <3>1. TheVendor = VENDOR_AMD /\ Agree(cpu, AMDTypes)
      BY <2>4, AMDAgrees DEF TheVendor, TheCpu
    <3> QED  BY <2>1, <2>2, <3>1 DEF Agree, TheType, TheSubtype
  <2>5. CASE Signature \notin {"Genu", "Auth"}
    <3>1. cpu.type = "none" /\ cpu.subtype = "none"
      BY <2>5 DEF TheCpu, Unknown, Cpu
    <3> QED  BY <2>1, <2>2, <3>1 DEF TheType, TheSubtype
  <2> QED  BY <2>3, <2>4, <2>5
<1> QED  BY <1>1, <1>2

(* However many callers run __cpu_indicator_init at once, on whatever      *)
(* processor, one that finds a vendor or returns finds the rest as well.   *)
THEOREM VendorLastTheorem == Spec => []VendorLast
  BY ModelInit, ModelStep, ModelDescribed, PTL DEF Spec
(* No vector feature is reported, at any moment and on any processor,      *)
(* whose registers the operating system does not save.                     *)
THEOREM StateSavedTheorem == Spec => []StateSaved
  BY ModelInit, ModelStep, ModelSaved, PTL DEF Spec
(* Vendor, type and subtype agree for every signature of a processor.      *)
THEOREM TypesAgreeTheorem == Spec => []TypesAgree
  BY ModelInit, ModelStep, ModelAgrees, PTL DEF Spec

-----------------------------------------------------------------------------
(***************************************************************************)
(* The integer arithmetic of IntArith, as ArithCalls calls it.  The        *)
(* routines are operators on words, so the proofs are arithmetic: products *)
(* and remainders first, then one lemma per family of routines for any     *)
(* width whose powers of two are as arithmetic says (Wide), then the calls.*)
(***************************************************************************)

\* products of integers, for the provers that treat them as opaque
LEMMA ProductInt ==
  ASSUME NEW i \in Int, NEW j \in Int
  PROVE  i * j \in Int
  BY SMT

\* a positive factor does not make a product smaller
LEMMA ProductBound ==
  ASSUME NEW m \in Nat, NEW k \in Int, k >= 1
  PROVE  m * k >= m
<1>1. m * (k - 1) >= 0
  BY SMT
<1>2. m * (k - 1) = m * k - m
  BY SMT
<1> QED
  BY <1>1, <1>2, ProductInt, SMT

\* quotient and remainder are determined by the equation between them
LEMMA ModUnique ==
  ASSUME NEW m \in Nat \ {0}, NEW a \in Int, NEW k \in Int, NEW r \in 0 .. m - 1, a = m * k + r
  PROVE  a % m = r /\ a \div m = k
<1> DEFINE q == a \div m
           s == a % m
<1>1. q \in Int /\ s \in 0 .. m - 1 /\ a = m * q + s
  BY SMT
<1> HIDE DEF q, s
<1>2. m * q \in Int /\ m * k \in Int /\ m * (q - k) = m * q - m * k /\ m * (k - q) = m * k - m * q
  BY <1>1, SMT
<1>3. ~ (q - k >= 1)
  <2> SUFFICES ASSUME q - k >= 1 PROVE FALSE
    OBVIOUS
  <2>1. m * (q - k) >= m
    BY <1>1, ProductBound
  <2> QED BY <1>1, <1>2, <2>1
<1>4. ~ (k - q >= 1)
  <2> SUFFICES ASSUME k - q >= 1 PROVE FALSE
    OBVIOUS
  <2>1. m * (k - q) >= m
    BY <1>1, ProductBound
  <2> QED BY <1>1, <1>2, <2>1
<1>5. q = k
  BY <1>1, <1>3, <1>4
<1>6. s = r
  BY <1>1, <1>2, <1>5
<1> QED
  BY <1>5, <1>6 DEF q, s

\* and they exist
LEMMA DivMod ==
  ASSUME NEW m \in Nat \ {0}, NEW a \in Int
  PROVE  \E q \in Int, s \in 0 .. m - 1 : q = a \div m /\ s = a % m /\ a = m * q + s
  BY SMT

\* equal modulo m
LEMMA ModShift ==
  ASSUME NEW m \in Nat \ {0}, NEW a \in Int, NEW k \in Int
  PROVE  (a + m * k) % m = a % m
<1>1. PICK q \in Int, s \in 0 .. m - 1 : q = a \div m /\ s = a % m /\ a = m * q + s
  BY DivMod
<1>2. m * q \in Int /\ m * k \in Int /\ m * (q + k) = m * q + m * k /\ q + k \in Int
  BY <1>1, SMT
<1>3. a + m * k = m * (q + k) + s /\ a + m * k \in Int
  BY <1>1, <1>2
<1>4. (a + m * k) % m = s
  BY <1>1, <1>2, <1>3, ModUnique
<1> QED
  BY <1>1, <1>4

\* the word of a number within one width of the words
LEMMA ModNear ==
  ASSUME NEW m \in Nat \ {0}, NEW a \in Int, -m <= a, a < 2 * m
  PROVE  a % m = (IF a < 0 THEN a + m ELSE IF a < m THEN a ELSE a - m)
<1>1. CASE a < 0
  <2>1. a = m * (-1) + (a + m) /\ a + m \in 0 .. m - 1
    BY <1>1, SMT
  <2> QED BY <1>1, <2>1, ModUnique
<1>2. CASE 0 <= a /\ a < m
  <2>1. a = m * 0 + a /\ a \in 0 .. m - 1
    BY <1>2, SMT
  <2> QED BY <1>2, <2>1, ModUnique
<1>3. CASE m <= a
  <2>1. a = m * 1 + (a - m) /\ a - m \in 0 .. m - 1
    BY <1>3, SMT
  <2> QED BY <1>3, <2>1, ModUnique
<1> QED
  BY <1>1, <1>2, <1>3

\* a width whose powers are what arithmetic says
Wide(n) == n \in Nat \ {0, 1} /\ n % 2 = 0 /\ Powers(n)

\* the facts about the powers in one place
LEMMA WideFacts ==
  ASSUME NEW n, Wide(n)
  PROVE  /\ 2^n \in Nat \ {0} /\ 2^(n - 1) \in Nat \ {0} /\ 2^n = 2 * 2^(n - 1) /\ 2^(n - 1) >= 2
         /\ 2^(n \div 2) \in Nat \ {0} /\ 2^n = 2^(n \div 2) * 2^(n \div 2)
         /\ n - n \div 2 = n \div 2 /\ (n - 1) % n = n - 1
<1> DEFINE K == 2^(n \div 2)
           H == 2^(n - 1)
<1>1. K \in Nat /\ K >= 2 /\ H \in Nat /\ 2^n = 2 * H /\ 2^n = K * K
  BY DEF Wide, Powers
<1>2. n - n \div 2 = n \div 2 /\ (n - 1) % n = n - 1
  <2>1. n \in Nat /\ n >= 2 /\ n % 2 = 0
    BY DEF Wide
  <2>2. n - n \div 2 = n \div 2
    BY <2>1, SMT
  <2>3. (n - 1) % n = n - 1
    <3>1. n \in Nat \ {0} /\ n - 1 \in Int /\ -n <= n - 1 /\ n - 1 < 2 * n /\ ~(n - 1 < 0) /\ n - 1 < n
      BY <2>1
    <3> QED BY <3>1, ModNear
  <2> QED BY <2>2, <2>3
<1> HIDE DEF K, H
<1>3. K * K >= 2 * 2
  <2>1. K * K >= K
    BY <1>1, ProductBound
  <2>2. K * K = K * 2 + K * (K - 2) /\ K * (K - 2) >= 0
    BY <1>1, SMT
  <2> QED BY <1>1, <2>1, <2>2, SMT
<1>4. H >= 2 /\ 2 * H \in Nat \ {0} /\ H \in Nat \ {0} /\ K \in Nat \ {0}
  BY <1>1, <1>3, SMT
<1> QED
  BY <1>1, <1>2, <1>4 DEF K, H

\* a word read as a signed number
LEMMA Signed ==
  ASSUME NEW n, Wide(n), NEW u \in 0 .. 2^n - 1
  PROVE  /\ u \in Nat /\ SVal(n, u) \in Int /\ -(2^(n - 1)) <= SVal(n, u) /\ SVal(n, u) < 2^(n - 1)
         /\ SVal(n, u) = IF u >= 2^(n - 1) THEN u - 2^n ELSE u
<1> DEFINE M == 2^n
           H == 2^(n - 1)
<1>1. M \in Nat /\ H \in Nat /\ M = 2 * H
  BY WideFacts
<1>2. SVal(n, u) = IF u >= H THEN u - M ELSE u
  BY DEF SVal
<1>3. u \in 0 .. M - 1
  OBVIOUS
<1> HIDE DEF M, H
<1>4. u \in Nat /\ SVal(n, u) \in Int /\ -H <= SVal(n, u) /\ SVal(n, u) < H
  BY <1>1, <1>2, <1>3
<1> QED
  BY <1>2, <1>4 DEF M, H

\* the signed numbers of a width, and what a routine that aborts gives for the result z
FitsIn(n, z) == -(2^(n - 1)) <= z /\ z < 2^(n - 1)
ExactOr(n, z) == IF FitsIn(n, z) THEN Trunc(n, z) ELSE Abort

\* addvsi3.c: the sum is on the wrong side of a exactly when it does not fit
LEMMA AddvExact ==
  ASSUME NEW n, Wide(n), NEW u \in 0 .. 2^n - 1, NEW v \in 0 .. 2^n - 1
  PROVE  AddvX(n, u, v) = ExactOr(n, SVal(n, u) + SVal(n, v))
<1> DEFINE M == 2^n
           H == 2^(n - 1)
           U == SVal(n, u)
           V == SVal(n, v)
           s == (u + v) % M
           S == IF s >= H THEN s - M ELSE s
<1>1. M \in Nat \ {0} /\ H \in Nat /\ M = 2 * H
  BY WideFacts
<1>2. /\ u \in 0 .. M - 1 /\ U \in Int /\ -H <= U /\ U < H /\ U = IF u >= H THEN u - M ELSE u
      /\ v \in 0 .. M - 1 /\ V \in Int /\ -H <= V /\ V < H /\ V = IF v >= H THEN v - M ELSE v
  BY Signed
<1>3. /\ AddvX(n, u, v) = IF IF V >= 0 THEN S < U ELSE S >= U THEN Abort ELSE s
      /\ ExactOr(n, U + V) = IF -H <= U + V /\ U + V < H THEN (U + V) % M ELSE Abort
  BY DEF AddvX, Add, Trunc, SVal, ExactOr, FitsIn
<1> HIDE DEF M, H, U, V
<1>4. s = IF u + v < M THEN u + v ELSE (u + v) - M
  <2>1. u + v \in Int /\ -M <= u + v /\ u + v < 2 * M /\ ~(u + v < 0)
    BY <1>1, <1>2
  <2> DEFINE z == u + v
  <2>2. s = z % M /\ z \in Int /\ -M <= z /\ z < 2 * M /\ ~(z < 0)
    BY <2>1
  <2> HIDE DEF z, s
  <2>3. z % M = IF z < M THEN z ELSE z - M
    BY <1>1, <2>2, ModNear
  <2> QED BY <2>2, <2>3, Zenon DEF z
<1> HIDE DEF s
<1>5. s \in Int
  BY <1>1, <1>2, <1>4
<1>6. CASE -H <= U + V /\ U + V < H
  <2>1. (U + V) % M = s
    <3>1. (U + V) % M = IF U + V < 0 THEN U + V + M ELSE U + V
      <4>1. U + V \in Int /\ -M <= U + V /\ U + V < M /\ U + V < 2 * M
        BY <1>1, <1>2, <1>6
      <4> QED BY <1>1, <4>1, ModNear
    <3> QED BY <1>1, <1>2, <1>4, <1>6, <3>1
  <2>2. ~ (IF V >= 0 THEN S < U ELSE S >= U)
    BY <1>1, <1>2, <1>4, <1>5, <1>6
  <2> QED BY <1>3, <1>6, <2>1, <2>2 DEF U, V
<1>7. CASE ~ (-H <= U + V /\ U + V < H)
  <2>1. IF V >= 0 THEN S < U ELSE S >= U
    BY <1>1, <1>2, <1>4, <1>5, <1>7
  <2> QED BY <1>3, <1>7, <2>1 DEF U, V
<1> QED
  BY <1>6, <1>7

\* subvsi3.c
LEMMA SubvExact ==
  ASSUME NEW n, Wide(n), NEW u \in 0 .. 2^n - 1, NEW v \in 0 .. 2^n - 1
  PROVE  SubvX(n, u, v) = ExactOr(n, SVal(n, u) - SVal(n, v))
<1> DEFINE M == 2^n
           H == 2^(n - 1)
           U == SVal(n, u)
           V == SVal(n, v)
           s == (u - v) % M
           S == IF s >= H THEN s - M ELSE s
<1>1. M \in Nat \ {0} /\ H \in Nat /\ M = 2 * H
  BY WideFacts
<1>2. /\ u \in 0 .. M - 1 /\ U \in Int /\ -H <= U /\ U < H /\ U = IF u >= H THEN u - M ELSE u
      /\ v \in 0 .. M - 1 /\ V \in Int /\ -H <= V /\ V < H /\ V = IF v >= H THEN v - M ELSE v
  BY Signed
<1>3. /\ SubvX(n, u, v) = IF IF V >= 0 THEN S > U ELSE S <= U THEN Abort ELSE s
      /\ ExactOr(n, U - V) = IF -H <= U - V /\ U - V < H THEN (U - V) % M ELSE Abort
  BY DEF SubvX, Sub, Trunc, SVal, ExactOr, FitsIn
<1> HIDE DEF M, H, U, V
<1>4. s = IF u - v < 0 THEN u - v + M ELSE u - v
  <2>1. u - v \in Int /\ -M <= u - v /\ u - v < 2 * M /\ u - v < M
    BY <1>1, <1>2
  <2> QED BY <1>1, <2>1, ModNear
<1> HIDE DEF s
<1>5. s \in Int
  BY <1>1, <1>2, <1>4
<1>6. CASE -H <= U - V /\ U - V < H
  <2>1. (U - V) % M = s
    <3>1. (U - V) % M = IF U - V < 0 THEN U - V + M ELSE U - V
      <4>1. U - V \in Int /\ -M <= U - V /\ U - V < M /\ U - V < 2 * M
        BY <1>1, <1>2, <1>6
      <4> QED BY <1>1, <4>1, ModNear
    <3> QED BY <1>1, <1>2, <1>4, <1>6, <3>1
  <2>2. ~ (IF V >= 0 THEN S > U ELSE S <= U)
    BY <1>1, <1>2, <1>4, <1>5, <1>6
  <2> QED BY <1>3, <1>6, <2>1, <2>2 DEF U, V
<1>7. CASE ~ (-H <= U - V /\ U - V < H)
  <2>1. IF V >= 0 THEN S > U ELSE S <= U
    BY <1>1, <1>2, <1>4, <1>5, <1>7
  <2> QED BY <1>3, <1>7, <2>1 DEF U, V
<1> QED
  BY <1>6, <1>7

\* negvsi2.c
LEMMA NegvExact ==
  ASSUME NEW n, Wide(n), NEW u \in 0 .. 2^n - 1
  PROVE  NegvX(n, u) = ExactOr(n, -SVal(n, u))
<1> DEFINE M == 2^n
           H == 2^(n - 1)
           U == SVal(n, u)
<1>1. M \in Nat \ {0} /\ H \in Nat \ {0} /\ M = 2 * H
  BY WideFacts
<1>2. u \in 0 .. M - 1 /\ U \in Int /\ -H <= U /\ U < H /\ U = IF u >= H THEN u - M ELSE u
  BY Signed
<1>3. /\ NegvX(n, u) = IF u = H THEN Abort ELSE (-u) % M
      /\ ExactOr(n, -U) = IF -H <= -U /\ -U < H THEN (-U) % M ELSE Abort
  BY DEF NegvX, Neg, Min, Trunc, ExactOr, FitsIn
<1> HIDE DEF M, H, U
<1>4. u = H <=> ~ (-H <= -U /\ -U < H)
  BY <1>1, <1>2
<1>5. (-U) % M = (-u) % M
  <2>1. U = u \/ (U = u - M /\ -U = -u + M * 1 /\ -u \in Int)
    BY <1>1, <1>2, SMT
  <2> DEFINE z == -u
  <2>2. z \in Int /\ 1 \in Int
    BY <1>2
  <2> HIDE DEF z
  <2>3. (z + M * 1) % M = z % M
    BY <1>1, <2>2, ModShift, Zenon
  <2> QED BY <2>1, <2>3 DEF z
<1> QED
  BY <1>3, <1>4, <1>5 DEF U

\* the sign of a word is 0 or all ones
LEMMA SignOf ==
  ASSUME NEW n, Wide(n), NEW u \in 0 .. 2^n - 1
  PROVE  Sign(n, u) = IF SVal(n, u) < 0 THEN 2^n - 1 ELSE 0
<1> DEFINE M == 2^n
           H == 2^(n - 1)
           U == SVal(n, u)
<1>1. M \in Nat \ {0} /\ H \in Nat \ {0} /\ M = 2 * H /\ (n - 1) % n = n - 1 /\ H >= 2
  BY WideFacts
<1>2. u \in 0 .. M - 1 /\ U \in Int /\ -H <= U /\ U < H
  BY Signed
<1>3. Sign(n, u) = (U \div H) % M
  BY <1>1 DEF Sign, Sar, Trunc
<1> HIDE DEF M, H, U
<1>4. CASE U < 0
  <2>1. U = H * (-1) + (U + H) /\ U + H \in 0 .. H - 1
    BY <1>1, <1>2, <1>4, SMT
  <2>2. U \div H = -1
    BY <1>1, <1>2, <2>1, ModUnique
  <2>3. (-1) % M = M - 1
    <3> DEFINE z == -1
    <3>1. z \in Int /\ -M <= z /\ z < 2 * M /\ z < 0 /\ z + M = M - 1
      BY <1>1
    <3> HIDE DEF z
    <3>2. z % M = M - 1
      BY <1>1, <3>1, ModNear
    <3> QED BY <3>2 DEF z
  <2> QED BY <1>3, <1>4, <2>2, <2>3 DEF M, U
<1>5. CASE ~ (U < 0)
  <2>1. U = H * 0 + U /\ U \in 0 .. H - 1
    BY <1>1, <1>2, <1>5, SMT
  <2>2. U \div H = 0
    BY <1>1, <1>2, <2>1, ModUnique
  <2>3. 0 % M = 0
    <3>1. -M <= 0 /\ 0 < 2 * M /\ ~ (0 < 0) /\ 0 < M
      BY <1>1
    <3> QED BY <1>1, <3>1, ModNear
  <2> QED BY <1>3, <1>5, <2>2, <2>3 DEF M, U
<1> QED
  BY <1>4, <1>5

Magnitude(z) == IF z < 0 THEN -z ELSE z

\* (a ^ s) - s is the absolute value, except of the least number
LEMMA NegateIfSigned ==
  ASSUME NEW n, Wide(n), NEW u \in 0 .. 2^n - 1, u # Min(n)
  PROVE  /\ NegateIf(n, Sign(n, u), u) = Magnitude(SVal(n, u))
         /\ Magnitude(SVal(n, u)) \in 0 .. 2^(n - 1) - 1
         /\ SVal(n, Magnitude(SVal(n, u))) = Magnitude(SVal(n, u))
<1> DEFINE M == 2^n
           H == 2^(n - 1)
           U == SVal(n, u)
           s == Sign(n, u)
           a == Magnitude(U)
<1>1. M \in Nat \ {0} /\ H \in Nat \ {0} /\ M = 2 * H /\ H >= 2
  BY WideFacts
<1>2. u \in 0 .. M - 1 /\ U \in Int /\ -H <= U /\ U < H /\ U = IF u >= H THEN u - M ELSE u
  BY Signed
<1>3. s = IF U < 0 THEN M - 1 ELSE 0
  BY SignOf
<1>4. u # H
  BY DEF Min
<1>5. NegateIf(n, s, u) = ((IF s = 0 THEN u ELSE M - 1 - u) - s) % M
  BY DEF NegateIf, Sub, Flip, Compl, Trunc
<1>6. a = IF U < 0 THEN -U ELSE U
  BY DEF Magnitude
<1>7. SVal(n, a) = IF a >= H THEN a - M ELSE a
  BY DEF SVal
<1> HIDE DEF M, H, U, s, a
<1>8. a \in 0 .. H - 1
  BY <1>1, <1>2, <1>4, <1>6
<1>9. ASSUME U < 0 PROVE NegateIf(n, s, u) = a
  <2>1. s = M - 1 /\ s # 0 /\ (M - 1 - u) - s = -u /\ a = -u + M
    BY <1>1, <1>2, <1>3, <1>6, <1>9
  <2>2. -u \in Int /\ -M <= -u /\ -u < 2 * M /\ -u < 0
    BY <1>1, <1>2, <1>9
  <2>3. (-u) % M = a
    BY <1>1, <2>1, <2>2, ModNear
  <2> QED BY <1>5, <2>1, <2>3
<1>10. ASSUME ~ (U < 0) PROVE NegateIf(n, s, u) = a
  <2>1. s = 0 /\ u - s = u /\ a = u
    BY <1>1, <1>2, <1>3, <1>6, <1>10
  <2>2. u \in Int /\ -M <= u /\ u < 2 * M /\ ~ (u < 0) /\ u < M
    BY <1>1, <1>2
  <2>3. u % M = u
    BY <1>1, <2>2, ModNear
  <2> QED BY <1>5, <2>1, <2>3
<1>11. SVal(n, a) = a
  BY <1>1, <1>7, <1>8
<1>12. NegateIf(n, s, u) = a
  BY <1>9, <1>10, Zenon
<1> QED
  BY <1>8, <1>11, <1>12 DEF H, U, s, a

\* absvsi2.c
LEMMA AbsvExact ==
  ASSUME NEW n, Wide(n), NEW u \in 0 .. 2^n - 1
  PROVE  AbsvX(n, u) = ExactOr(n, Magnitude(SVal(n, u)))
<1> DEFINE M == 2^n
           H == 2^(n - 1)
           U == SVal(n, u)
<1>1. M \in Nat \ {0} /\ H \in Nat \ {0} /\ M = 2 * H
  BY WideFacts
<1>2. u \in 0 .. M - 1 /\ U \in Int /\ U = IF u >= H THEN u - M ELSE u
  BY Signed
<1>3. /\ AbsvX(n, u) = IF u = H THEN Abort ELSE NegateIf(n, Sign(n, u), u)
      /\ ExactOr(n, Magnitude(U)) =
           IF -H <= Magnitude(U) /\ Magnitude(U) < H THEN Magnitude(U) % M ELSE Abort
  BY DEF AbsvX, Min, Trunc, ExactOr, FitsIn
<1>4. CASE u = H
  <2> HIDE DEF M, H, U
  <2>1. Magnitude(U) = H
    BY <1>1, <1>2, <1>4 DEF Magnitude
  <2> QED BY <1>1, <1>3, <1>4, <2>1 DEF U
<1>5. CASE u # H
  <2>1. NegateIf(n, Sign(n, u), u) = Magnitude(U) /\ Magnitude(U) \in 0 .. H - 1
    BY <1>5, NegateIfSigned DEF Min
  <2> HIDE DEF M, H, U
  <2>2. Magnitude(U) % M = Magnitude(U)
    <3> DEFINE a == Magnitude(U)
    <3>1. a \in 0 .. H - 1
      BY <2>1
    <3> HIDE DEF a
    <3>2. a \in Int /\ -M <= a /\ a < 2 * M /\ ~ (a < 0) /\ a < M
      BY <1>1, <3>1
    <3>3. a % M = a
      BY <1>1, <3>2, ModNear
    <3> QED BY <3>3 DEF a
  <2>3. -H <= Magnitude(U) /\ Magnitude(U) < H
    BY <1>1, <2>1
  <2> QED BY <1>3, <1>5, <2>1, <2>2, <2>3 DEF U
<1> QED
  BY <1>4, <1>5

-----------------------------------------------------------------------------
(* Products *)

\* the product from the halves of one factor is the product modulo 2^n
LEMMA MulWraps ==
  ASSUME NEW n, Wide(n), NEW u \in Nat, NEW v \in Nat
  PROVE  Mul(n, u, v) = (u * v) % 2^n
<1> DEFINE M == 2^n
           K == 2^(n \div 2)
<1>1. M \in Nat \ {0} /\ K \in Nat \ {0} /\ M = K * K /\ n - n \div 2 = n \div 2
  BY WideFacts
<1>2. Mul(n, u, v) = (u * (v % K) + K * ((u * (v \div K)) % K)) % M
  BY <1>1 DEF Mul, Trunc
<1> HIDE DEF M, K
<1>3. PICK q \in Int, r \in 0 .. K - 1 : q = v \div K /\ r = v % K /\ v = K * q + r
  BY <1>1, DivMod
<1>4. u * q \in Int
  BY ProductInt
<1>5. PICK t \in Int, s \in 0 .. K - 1 : t = (u * q) \div K /\ s = (u * q) % K /\ u * q = K * t + s
  BY <1>1, <1>4, DivMod
<1>6. Mul(n, u, v) = (u * r + K * s) % M
  BY <1>2, <1>3, <1>5
<1>7. u * v = (u * r + K * s) + M * t
  <2>1. u * v = u * r + K * (u * q)
    BY <1>1, <1>3, SMT
  <2>2. K * (u * q) = K * s + K * (K * t)
    BY <1>1, <1>5, SMT
  <2>3. K * (K * t) = M * t
    BY <1>1, SMT
  <2>4. u * r \in Int /\ K * s \in Int /\ M * t \in Int
    BY <1>1, <1>3, <1>5, SMT
  <2> QED BY <2>1, <2>2, <2>3, <2>4
<1>8. u * r + K * s \in Int
  BY <1>1, <1>3, <1>5, SMT
<1>9. ((u * r + K * s) + M * t) % M = (u * r + K * s) % M
  BY <1>1, <1>5, <1>8, ModShift
<1> QED
  BY <1>6, <1>7, <1>9 DEF M

\* it does not matter whether the factors are read as signed numbers
LEMMA SignedProduct ==
  ASSUME NEW n, Wide(n), NEW u \in 0 .. 2^n - 1, NEW v \in 0 .. 2^n - 1
  PROVE  /\ u \in Nat /\ v \in Nat
         /\ (SVal(n, u) * SVal(n, v)) % 2^n = (u * v) % 2^n
<1> DEFINE M == 2^n
           U == SVal(n, u)
           V == SVal(n, v)
<1>1. M \in Nat \ {0}
  BY WideFacts
<1>2. u \in Nat /\ v \in Nat /\ U \in {u, u - M} /\ V \in {v, v - M}
  BY Signed
<1> HIDE DEF M, U, V
<1>3. \E k \in Int : U * V = u * v + M * k
  <2>1. CASE U = u /\ V = v
    <3>1. U * V = u * v + M * 0
      BY <1>1, <1>2, <2>1, SMT
    <3> QED BY <3>1
  <2>2. CASE U = u - M /\ V = v
    <3>1. U * V = u * v + M * (-v)
      BY <1>1, <1>2, <2>2, SMT
    <3>2. -v \in Int
      BY <1>2
    <3> QED BY <3>1, <3>2
  <2>3. CASE U = u /\ V = v - M
    <3>1. U * V = u * v + M * (-u)
      BY <1>1, <1>2, <2>3, SMT
    <3>2. -u \in Int
      BY <1>2
    <3> QED BY <3>1, <3>2
  <2>4. CASE U = u - M /\ V = v - M
    <3>1. U * V = u * v + M * ((M - u) - v)
      BY <1>1, <1>2, <2>4, SMT
    <3>2. (M - u) - v \in Int
      BY <1>1, <1>2
    <3> QED BY <3>1, <3>2
  <2> QED BY <1>2, <2>1, <2>2, <2>3, <2>4
<1>4. PICK k \in Int : U * V = u * v + M * k
  BY <1>3
<1>5. u * v \in Int
  BY <1>2, ProductInt
<1>6. (u * v + M * k) % M = (u * v) % M
  BY <1>1, <1>4, <1>5, ModShift
<1> QED
  BY <1>2, <1>4, <1>6 DEF M, U, V

\* the test by division that the code makes
LEMMA QuotientBelow ==
  ASSUME NEW a \in Nat, NEW c \in Nat \ {0}, NEW m \in Nat
  PROVE  a > m \div c <=> a * c > m
<1>1. PICK q \in Int, r \in 0 .. c - 1 : q = m \div c /\ r = m % c /\ m = c * q + r
  BY DivMod
<1>2. a * c \in Int /\ c * q \in Int
  BY <1>1, SMT
<1>3. ASSUME a > q PROVE a * c > m
  <2>1. c * (a - q) >= c
    BY <1>1, <1>3, ProductBound
  <2>2. c * (a - q) = a * c - c * q
    BY <1>1, SMT
  <2> QED BY <1>1, <1>2, <2>1, <2>2
<1>4. ASSUME ~ (a > q) PROVE ~ (a * c > m)
  <2>1. c * (q - a) >= 0
    BY <1>1, <1>4, SMT
  <2>2. c * (q - a) = c * q - a * c
    BY <1>1, SMT
  <2> QED BY <1>1, <1>2, <2>1, <2>2
<1> QED
  BY <1>1, <1>3, <1>4

\* a small factor cannot make a product too large
LEMMA SmallProduct ==
  ASSUME NEW m \in Nat, NEW a \in 0 .. m, NEW c \in 0 .. m, a < 2 \/ c < 2
  PROVE  a * c \in 0 .. m
<1>1. a \in {0, 1} \/ c \in {0, 1}
  OBVIOUS
<1>2. 0 * c = 0 /\ 1 * c = c /\ a * 0 = 0 /\ a * 1 = a
  BY SMT
<1> QED
  BY <1>1, <1>2

\* The sign and the size of a product.
LEMMA ProductParts ==
  ASSUME NEW i \in Int, NEW j \in Int
  PROVE  /\ Magnitude(i) \in Nat /\ Magnitude(j) \in Nat
         /\ Magnitude(i) * Magnitude(j) \in Nat
         /\ i * j = IF (i < 0) = (j < 0) THEN Magnitude(i) * Magnitude(j)
                    ELSE -(Magnitude(i) * Magnitude(j))
<1>1. Magnitude(i) \in Nat /\ Magnitude(j) \in Nat
  BY DEF Magnitude
<1>2. Magnitude(i) * Magnitude(j) \in Nat
  BY <1>1, SMT
<1>3. CASE i < 0 /\ j < 0
  BY <1>1, <1>2, <1>3, SMT DEF Magnitude
<1>4. CASE ~ (i < 0) /\ j < 0
  BY <1>1, <1>2, <1>4, SMT DEF Magnitude
<1>5. CASE i < 0 /\ ~ (j < 0)
  BY <1>1, <1>2, <1>5, SMT DEF Magnitude
<1>6. CASE ~ (i < 0) /\ ~ (j < 0)
  BY <1>1, <1>2, <1>6, SMT DEF Magnitude
<1> QED
  BY <1>3, <1>4, <1>5, <1>6

\* mulvsi3.c, mulosi4.c: the limit is MAX for factors of one sign, MIN for those of two
LEMMA TooLargeExact ==
  ASSUME NEW n, Wide(n), NEW u \in 0 .. 2^n - 1, NEW v \in 0 .. 2^n - 1, u # Min(n), v # Min(n)
  PROVE  MulTooLarge(n, u, v) <=> ~ FitsIn(n, SVal(n, u) * SVal(n, v))
<1> DEFINE M == 2^n
           H == 2^(n - 1)
           U == SVal(n, u)
           V == SVal(n, v)
           a == Magnitude(U)
           c == Magnitude(V)
           P == a * c
<1>1. M \in Nat \ {0} /\ H \in Nat \ {0} /\ M = 2 * H /\ H >= 2
  BY WideFacts
<1>2. U \in Int /\ V \in Int
  BY Signed
<1>3. /\ NegateIf(n, Sign(n, u), u) = a /\ a \in 0 .. H - 1 /\ SVal(n, a) = a
      /\ NegateIf(n, Sign(n, v), v) = c /\ c \in 0 .. H - 1 /\ SVal(n, c) = c
  BY NegateIfSigned
<1>4. Sign(n, u) = Sign(n, v) <=> (U < 0) = (V < 0)
  <2>1. /\ Sign(n, u) = IF U < 0 THEN M - 1 ELSE 0
        /\ Sign(n, v) = IF V < 0 THEN M - 1 ELSE 0
    BY SignOf
  <2>2. M - 1 # 0
    BY <1>1
  <2> HIDE DEF M, U, V
  <2>3. CASE U < 0 /\ V < 0
    BY <2>1, <2>3, Zenon
  <2>4. CASE U < 0 /\ ~ (V < 0)
    BY <2>1, <2>2, <2>4, Zenon
  <2>5. CASE ~ (U < 0) /\ V < 0
    BY <2>1, <2>2, <2>5, Zenon
  <2>6. CASE ~ (U < 0) /\ ~ (V < 0)
    BY <2>1, <2>6
  <2> QED BY <2>3, <2>4, <2>5, <2>6, Zenon
<1>5. SVal(n, Min(n)) = -H /\ SVal(n, Max(n)) = H - 1
  <2>1. Min(n) = H /\ Max(n) = M - 1 - H
    BY DEF Min, Max, Compl
  <2>2. /\ SVal(n, Min(n)) = IF H >= H THEN H - M ELSE H
        /\ SVal(n, Max(n)) = IF M - 1 - H >= H THEN (M - 1 - H) - M ELSE M - 1 - H
    BY <2>1 DEF SVal
  <2> HIDE DEF M, H
  <2> QED BY <1>1, <2>2
<1>6. /\ P \in Nat /\ U * V = IF (U < 0) = (V < 0) THEN P ELSE -P
  BY <1>2, ProductParts
<1>7. FitsIn(n, U * V) <=> -H <= U * V /\ U * V < H
  BY DEF FitsIn
<1>8. MulTooLarge(n, u, v) <=>
        /\ ~(a < 2 \/ c < 2)
        /\ IF (U < 0) = (V < 0) THEN a > (H - 1) \div c ELSE a > DivTowardsZero(-H, -c)
  BY <1>3, <1>4, <1>5 DEF MulTooLarge
<1>9. c >= 2 => DivTowardsZero(-H, -c) = H \div c
  <2> HIDE DEF H, c
  <2> HAVE c >= 2
  <2>1. -H < 0 /\ -c < 0 /\ -(-H) = H /\ -(-c) = c
    BY <1>1, <1>3
  <2> QED BY <2>1 DEF DivTowardsZero
<1> HIDE DEF M, H, U, V, a, c
<1>10. CASE a < 2 \/ c < 2
  <2>1. H - 1 \in Nat /\ a * c \in 0 .. H - 1
    BY <1>1, <1>3, <1>10, SmallProduct
  <2>2. FitsIn(n, U * V)
    <3>1. P \in 0 .. H - 1
      BY <2>1
    <3> HIDE DEF P
    <3> QED BY <1>1, <1>6, <1>7, <3>1
  <2> QED BY <1>8, <1>10, <2>2 DEF U, V
<1>11. CASE ~ (a < 2 \/ c < 2)
  <2>1. a \in Nat /\ c \in Nat \ {0} /\ H - 1 \in Nat /\ H \in Nat /\ c >= 2
    BY <1>1, <1>3, <1>11
  <2>2. a > (H - 1) \div c <=> P > H - 1
    BY <2>1, QuotientBelow
  <2>3. a > H \div c <=> P > H
    BY <2>1, QuotientBelow
  <2> HIDE DEF P
  <2>4. MulTooLarge(n, u, v) <=> IF (U < 0) = (V < 0) THEN P > H - 1 ELSE P > H
    BY <1>8, <1>9, <1>11, <2>1, <2>2, <2>3
  <2>5. FitsIn(n, U * V) <=> ~ IF (U < 0) = (V < 0) THEN P > H - 1 ELSE P > H
    <3>1. CASE (U < 0) = (V < 0)
      BY <1>1, <1>6, <1>7, <3>1
    <3>2. CASE (U < 0) # (V < 0)
      BY <1>1, <1>6, <1>7, <3>2
    <3> QED BY <3>1, <3>2
  <2> QED BY <2>4, <2>5 DEF U, V
<1> QED
  BY <1>10, <1>11

\* the least number times anything but 0 and 1 does not fit
LEMMA MinProduct ==
  ASSUME NEW n, Wide(n), NEW v \in 0 .. 2^n - 1
  PROVE  FitsIn(n, SVal(n, Min(n)) * SVal(n, v)) <=> v \in {0, 1}
<1> DEFINE M == 2^n
           H == 2^(n - 1)
           V == SVal(n, v)
<1>1. M \in Nat \ {0} /\ H \in Nat \ {0} /\ M = 2 * H /\ H >= 2
  BY WideFacts
<1>2. v \in 0 .. M - 1 /\ V \in Int /\ -H <= V /\ V < H /\ V = IF v >= H THEN v - M ELSE v
  BY Signed
<1>3. SVal(n, Min(n)) = H - M
  BY <1>1 DEF SVal, Min
<1>4. FitsIn(n, SVal(n, Min(n)) * V) <=> -H <= (H - M) * V /\ (H - M) * V < H
  BY <1>3 DEF FitsIn
<1> HIDE DEF M, H, V
<1>5. (H - M) * V = -(H * V) /\ H * V \in Int
  BY <1>1, <1>2, SMT
<1>6. V \in {0, 1} <=> v \in {0, 1}
  BY <1>1, <1>2
<1>7. CASE V \in {0, 1}
  <2>1. H * V \in {0, H}
    BY <1>1, <1>7, SMT
  <2> QED BY <1>1, <1>4, <1>5, <1>6, <1>7, <2>1 DEF V
<1>8. CASE V >= 2
  <2>1. H * (V - 1) >= H /\ H * (V - 1) = H * V - H
    <3>1. H * (V - 1) >= H
      BY <1>1, <1>2, <1>8, ProductBound
    <3>2. H * (V - 1) = H * V - H
      BY <1>1, <1>2, SMT
    <3> QED BY <3>1, <3>2
  <2>2. ~ (-H <= -(H * V))
    BY <1>1, <1>5, <2>1
  <2>3. V \notin {0, 1}
    BY <1>8
  <2> QED BY <1>4, <1>5, <1>6, <2>2, <2>3 DEF V
<1>9. CASE V <= -1
  <2>1. H * (-V) >= H
    BY <1>1, <1>2, <1>9, ProductBound
  <2>2. H * (-V) = -(H * V)
    BY <1>1, <1>2, SMT
  <2>3. ~ (-(H * V) < H)
    BY <1>1, <1>5, <2>1, <2>2
  <2>4. V \notin {0, 1}
    BY <1>9
  <2> QED BY <1>4, <1>5, <1>6, <2>3, <2>4 DEF V
<1> QED
  BY <1>2, <1>7, <1>8, <1>9

\* mulvsi3.c and mulosi4.c
LEMMA MulExact ==
  ASSUME NEW n, Wide(n), NEW u \in 0 .. 2^n - 1, NEW v \in 0 .. 2^n - 1
  PROVE  LET Z == SVal(n, u) * SVal(n, v)
         IN  /\ mulvXi3(n, u, v) = ExactOr(n, Z)
             /\ muloXi4(n, u, v) = [value |-> Trunc(n, Z), overflow |-> ~ FitsIn(n, Z)]
<1> DEFINE Z == SVal(n, u) * SVal(n, v)
<1>1. Mul(n, u, v) = Trunc(n, Z)
  BY SignedProduct, MulWraps DEF Trunc
<1>2. ExactOr(n, Z) = IF FitsIn(n, Z) THEN Mul(n, u, v) ELSE Abort
  BY <1>1 DEF ExactOr
<1>3. Z = SVal(n, v) * SVal(n, u)
  BY Signed
<1>4. u = Min(n) => (FitsIn(n, Z) <=> v \in {0, 1})
  BY MinProduct
<1>5. v = Min(n) => (FitsIn(n, Z) <=> u \in {0, 1})
  BY <1>3, MinProduct
<1>6. u # Min(n) /\ v # Min(n) => (MulTooLarge(n, u, v) <=> ~ FitsIn(n, Z))
  BY TooLargeExact
<1> HIDE DEF Z
<1>7. mulvXi3(n, u, v) = ExactOr(n, Z)
  BY <1>2, <1>4, <1>5, <1>6 DEF mulvXi3
<1> DEFINE B == IF u = Min(n) THEN v \notin {0, 1}
                ELSE IF v = Min(n) THEN u \notin {0, 1}
                ELSE MulTooLarge(n, u, v)
           F == ~ FitsIn(n, Z)
<1>8. muloXi4(n, u, v) = [value |-> Mul(n, u, v), overflow |-> B]
  BY Zenon DEF muloXi4
<1>9. B = F
  <2>1. B <=> F
    BY <1>4, <1>5, <1>6, Zenon
  <2>2. F \in BOOLEAN /\ B \in BOOLEAN
    BY Zenon DEF MulTooLarge
  <2> QED BY <2>1, <2>2, Zenon
<1> HIDE DEF B
<1>10. muloXi4(n, u, v) = [value |-> Trunc(n, Z), overflow |-> F]
  BY <1>1, <1>8, <1>9, Zenon
<1> QED
  BY <1>7, <1>10 DEF Z

-----------------------------------------------------------------------------
(* Double words *)

\* the half of the width of a double word, for its powers
LEMMA DoubleFacts ==
  ASSUME NEW n, Wide(n), Wide(2 * n)
  PROVE  /\ 2^n \in Nat \ {0} /\ 2^(n - 1) \in Nat \ {0} /\ 2^n = 2 * 2^(n - 1)
         /\ 2^(2 * n) = 2^n * 2^n /\ 2^(2 * n - 1) = 2^n * 2^(n - 1)
<1> DEFINE K == 2^n
           H == 2^(n - 1)
           M == 2^(2 * n)
           L == 2^(2 * n - 1)
<1>1. (2 * n) \div 2 = n
  BY SMT DEF Wide
<1>2. /\ K \in Nat \ {0} /\ H \in Nat \ {0} /\ K = 2 * H
      /\ M \in Nat /\ L \in Nat /\ M = 2 * L /\ M = K * K
  BY <1>1, WideFacts
<1> HIDE DEF K, H, M, L
<1>3. K * K = 2 * (K * H) /\ K * H \in Nat
  BY <1>2, SMT
<1>4. L = K * H
  BY <1>2, <1>3
<1> QED
  BY <1>2, <1>4 DEF K, H, M, L

\* a number below K * K has two digits
LEMMA Digits ==
  ASSUME NEW K \in Nat \ {0}, NEW z \in Nat, z < K * K
  PROVE  \E i \in 0 .. K - 1, r \in 0 .. K - 1 : i = z \div K /\ r = z % K /\ z = K * i + r
<1>1. PICK i \in Int, r \in 0 .. K - 1 : i = z \div K /\ r = z % K /\ z = K * i + r
  BY DivMod
<1>2. K * i \in Int /\ K * K \in Int
  BY ProductInt
<1>3. i < K
  <2> SUFFICES ASSUME ~ (i < K) PROVE FALSE
    OBVIOUS
  <2>1. K * (i - K) >= 0 /\ K * (i - K) = K * i - K * K
    BY SMT
  <2> QED BY <1>1, <1>2, <2>1
<1>4. i >= 0
  <2> SUFFICES ASSUME ~ (i >= 0) PROVE FALSE
    OBVIOUS
  <2>1. K * (-i) >= K
    BY ProductBound
  <2>2. K * (-i) = -(K * i)
    BY SMT
  <2> QED BY <1>1, <1>2, <2>1, <2>2
<1>5. i \in 0 .. K - 1
  BY <1>3, <1>4
<1> QED
  BY <1>1, <1>5, Zenon

\* the halves of a double word
LEMMA Halves ==
  ASSUME NEW n, Wide(n), Wide(2 * n), NEW u \in 0 .. 2^(2 * n) - 1
  PROVE  /\ u \in Nat /\ High(n, u) \in 0 .. 2^n - 1 /\ Low(n, u) \in 0 .. 2^n - 1
         /\ u = 2^n * High(n, u) + Low(n, u)
<1> DEFINE K == 2^n
<1>1. K \in Nat \ {0} /\ 2^(2 * n) = K * K
  BY DoubleFacts
<1> HIDE DEF K
<1>2. u \in Nat /\ u < K * K
  <2>1. K * K \in Nat
    BY <1>1, SMT
  <2> QED BY <1>1, <2>1
<1>3. PICK i \in 0 .. K - 1, r \in 0 .. K - 1 : i = u \div K /\ r = u % K /\ u = K * i + r
  BY <1>1, <1>2, Digits
<1>4. High(n, u) = i /\ Low(n, u) = r
  BY <1>3 DEF High, Low, K
<1> QED
  BY <1>2, <1>3, <1>4 DEF K

\* the high words decide, and if they are equal the low ones
LEMMA Lexical ==
  ASSUME NEW K \in Nat \ {0}, NEW i \in Int, NEW j \in Int, NEW r \in 0 .. K - 1, NEW s \in 0 .. K - 1
  PROVE  /\ K * i + r \in Int
         /\ K * i + r < K * j + s <=> i < j \/ (i = j /\ r < s)
<1>1. K * i \in Int /\ K * j \in Int /\ K * (j - i) = K * j - K * i /\ K * (i - j) = K * i - K * j
  BY SMT
<1>2. CASE i < j
  <2>1. K * (j - i) >= K
    BY <1>2, ProductBound
  <2> QED BY <1>1, <1>2, <2>1
<1>3. CASE i = j
  BY <1>1, <1>3
<1>4. CASE i > j
  <2>1. K * (i - j) >= K
    BY <1>4, ProductBound
  <2> QED BY <1>1, <1>4, <2>1
<1> QED
  BY <1>2, <1>3, <1>4

\* cmpdi2.c: CmpX for the parts of two numbers
LEMMA CmpExact ==
  ASSUME NEW n, Wide(n), NEW u, NEW v, NEW i \in Int, NEW j \in Int,
         Low(n, u) \in 0 .. 2^n - 1, Low(n, v) \in 0 .. 2^n - 1
  PROVE  CmpX(n, u, v, i, j) = Order(2^n * i + Low(n, u), 2^n * j + Low(n, v))
<1> DEFINE K == 2^n
           r == Low(n, u)
           s == Low(n, v)
           A == K * i + r
           B == K * j + s
<1>1. K \in Nat \ {0} /\ r \in 0 .. K - 1 /\ s \in 0 .. K - 1
  BY WideFacts
<1> HIDE DEF K, r, s
<1>2. /\ A \in Int /\ B \in Int
      /\ A < B <=> i < j \/ (i = j /\ r < s)
      /\ B < A <=> j < i \/ (j = i /\ s < r)
  BY <1>1, Lexical
<1>3. CmpX(n, u, v, i, j) = CASE i < j -> 0 [] i > j -> 2
                              [] OTHER -> IF r < s THEN 0 ELSE IF r > s THEN 2 ELSE 1
  BY DEF CmpX, r, s
<1> HIDE DEF A, B
<1>4. Order(A, B) = IF A < B THEN 0 ELSE IF B < A THEN 2 ELSE 1
  BY <1>2 DEF Order
<1>5. CASE i < j
  <2>1. CmpX(n, u, v, i, j) = 0
    BY <1>3, <1>5
  <2> QED BY <1>2, <1>4, <1>5, <2>1 DEF A, B, K, r, s
<1>6. CASE i > j
  <2>1. CmpX(n, u, v, i, j) = 2
    BY <1>3, <1>6
  <2>2. ~ (A < B) /\ B < A
    BY <1>2, <1>6
  <2> QED BY <1>4, <2>1, <2>2 DEF A, B, K, r, s
<1>7. CASE i = j
  <2>1. CmpX(n, u, v, i, j) = IF r < s THEN 0 ELSE IF r > s THEN 2 ELSE 1
    BY <1>3, <1>7
  <2>2. (A < B <=> r < s) /\ (B < A <=> s < r) /\ (r > s <=> s < r)
    BY <1>1, <1>2, <1>7
  <2>3. CmpX(n, u, v, i, j) = Order(A, B)
    BY <1>4, <2>1, <2>2
  <2> QED BY <2>3 DEF A, B, K, r, s
<1> QED
  BY <1>5, <1>6, <1>7

\* a signed double word has a signed high word
LEMMA SignedHigh ==
  ASSUME NEW n, Wide(n), Wide(2 * n), NEW u \in 0 .. 2^(2 * n) - 1
  PROVE  SVal(n, High(n, u)) \in Int /\ SVal(2 * n, u) = 2^n * SVal(n, High(n, u)) + Low(n, u)
<1> DEFINE K == 2^n
           H == 2^(n - 1)
           i == High(n, u)
           r == Low(n, u)
           I == SVal(n, i)
<1>1. K \in Nat \ {0} /\ H \in Nat \ {0} /\ K = 2 * H /\ 2^(2 * n) = K * K /\ 2^(2 * n - 1) = K * H
  BY DoubleFacts
<1>2. i \in 0 .. K - 1 /\ r \in 0 .. K - 1 /\ u = K * i + r /\ u \in Nat
  BY Halves
<1>3. I \in Int /\ I = IF i >= H THEN i - K ELSE i
  BY <1>2, Signed
<1>4. SVal(2 * n, u) = IF u >= K * H THEN u - K * K ELSE u
  BY <1>1 DEF SVal
<1> HIDE DEF K, H, i, r, I
<1>5. K * i \in Int /\ K * H \in Int /\ K * K \in Int /\ K * (i - K) = K * i - K * K
  BY <1>1, <1>2, SMT
<1>6. u < K * H <=> i < H
  <2>1. 0 \in 0 .. K - 1 /\ i \in Int /\ H \in Int /\ ~ (r < 0) /\ K * H + 0 = K * H
    BY <1>1, <1>2, <1>5
  <2>2. K * i + r < K * H + 0 <=> i < H \/ (i = H /\ r < 0)
    BY <1>1, <1>2, <2>1, Lexical
  <2> QED BY <1>2, <2>1, <2>2
<1>7. SVal(2 * n, u) = K * I + r
  <2>1. CASE i >= H
    BY <1>1, <1>2, <1>3, <1>4, <1>5, <1>6, <2>1
  <2>2. CASE ~ (i >= H)
    BY <1>1, <1>2, <1>3, <1>4, <1>5, <1>6, <2>2
  <2> QED BY <2>1, <2>2
<1> QED
  BY <1>3, <1>7 DEF K, I, i, r

\* the product of digits, with a carry, is a number of two digits
LEMMA DigitProduct ==
  ASSUME NEW K \in Nat \ {0}, NEW i \in 0 .. K - 1, NEW j \in 0 .. K - 1, NEW k \in 0 .. K - 1
  PROVE  k + i * j \in 0 .. K * K - 1
<1>1. i * j \in Nat /\ K * K \in Nat
  BY SMT
<1>2. i * j <= (K - 1) * (K - 1)
  <2>1. i * j <= (K - 1) * j
    BY SMT
  <2>2. (K - 1) * j <= (K - 1) * (K - 1)
    BY SMT
  <2>3. (K - 1) * j \in Int /\ (K - 1) * (K - 1) \in Int
    BY SMT
  <2> QED BY <1>1, <2>1, <2>2, <2>3
<1>3. (K - 1) * (K - 1) = (K * K - K) - (K - 1)
  BY SMT
<1> QED
  BY <1>1, <1>2, <1>3

\* two digits, and back
LEMMA TwoDigits ==
  ASSUME NEW K \in Nat \ {0}, NEW i \in 0 .. K - 1, NEW r \in 0 .. K - 1
  PROVE  /\ r + i * K \in 0 .. K * K - 1 /\ (r + i * K) \div K = i /\ (r + i * K) % K = r
<1>1. i * K = K * i /\ i * K \in Nat /\ K * K \in Nat
  BY SMT
<1>2. K * ((K - 1) - i) >= 0 /\ K * ((K - 1) - i) = (K * K - K) - i * K
  BY SMT
<1>3. r + i * K \in 0 .. K * K - 1
  BY <1>1, <1>2
<1>4. r + i * K \in Int /\ r + i * K = K * i + r
  BY <1>1
<1> QED
  BY <1>3, <1>4, ModUnique

\* a word is its own remainder
LEMMA ModSmall ==
  ASSUME NEW m \in Nat \ {0}, NEW a \in 0 .. m - 1
  PROVE  a % m = a
<1>1. a \in Int /\ -m <= a /\ a < 2 * m /\ ~ (a < 0) /\ a < m
  OBVIOUS
<1> QED
  BY <1>1, ModNear

\* muldsi3 (muldi3.c): the four products of halves and their carries
LEMMA MulWideExact ==
  ASSUME NEW n, Wide(n), NEW u \in 0 .. 2^n - 1, NEW v \in 0 .. 2^n - 1
  PROVE  MulWide(n, u, v) = u * v
<1> DEFINE h == n \div 2
           K == 2^h
           M == 2^n
           u1 == High(h, u)
           u0 == Low(h, u)
           v1 == High(h, v)
           v0 == Low(h, v)
           p == (u0 * v0) \div K
           q == (u0 * v0) % K
           t1 == (p + u1 * v0) % M
           low2 == (q + (t1 % K) * K) % M
           t2 == (low2 \div K + v1 * u0) % M
           low3 == ((low2 % K) + (t2 % K) * K) % M
           high == (t1 \div K + t2 \div K + u1 * v1) % M
<1>1. K \in Nat \ {0} /\ M \in Nat \ {0} /\ M = K * K
  BY WideFacts
<1>2. MulWide(n, u, v) = high * M + low3
  BY DEF MulWide, All, Trunc, Low, High
<1>3. /\ u1 \in 0 .. K - 1 /\ u0 \in 0 .. K - 1 /\ u = K * u1 + u0 /\ u \in Nat /\ u < M
      /\ v1 \in 0 .. K - 1 /\ v0 \in 0 .. K - 1 /\ v = K * v1 + v0 /\ v \in Nat /\ v < M
  <2>1. \A z \in 0 .. M - 1 : z \in Nat /\ z < M
    BY <1>1
  <2>2. PICK i \in 0 .. K - 1, r \in 0 .. K - 1 : i = u \div K /\ r = u % K /\ u = K * i + r
    BY <1>1, <2>1, Digits
  <2>3. PICK j \in 0 .. K - 1, s \in 0 .. K - 1 : j = v \div K /\ s = v % K /\ v = K * j + s
    BY <1>1, <2>1, Digits
  <2>4. u1 = i /\ u0 = r /\ v1 = j /\ v0 = s
    BY <2>2, <2>3 DEF High, Low
  <2> HIDE DEF K, M, u1, u0, v1, v0
  <2> QED BY <2>1, <2>2, <2>3, <2>4 DEF M
<1> HIDE DEF h, K, M, u1, u0, v1, v0
<1>4. p \in 0 .. K - 1 /\ q \in 0 .. K - 1 /\ u0 * v0 = K * p + q
  <2>1. 0 \in 0 .. K - 1
    BY <1>1
  <2>2. 0 + u0 * v0 \in 0 .. K * K - 1
    BY <1>1, <1>3, <2>1, DigitProduct
  <2>3. u0 * v0 \in Nat /\ K * K \in Nat
    BY <1>1, <1>3, SMT
  <2>4. u0 * v0 < K * K
    BY <2>2, <2>3
  <2>5. PICK i \in 0 .. K - 1, r \in 0 .. K - 1 :
          i = (u0 * v0) \div K /\ r = (u0 * v0) % K /\ u0 * v0 = K * i + r
    BY <1>1, <2>3, <2>4, Digits, Zenon
  <2> QED BY <2>5, Zenon
<1> HIDE DEF p, q
\* the cross products do not leave the word
<1>5. t1 = p + u1 * v0 /\ t1 \in Nat /\ t1 < K * K
  <2>1. p + u1 * v0 \in 0 .. M - 1
    BY <1>1, <1>3, <1>4, DigitProduct
  <2>2. t1 = p + u1 * v0
    BY <1>1, <2>1, ModSmall
  <2> QED BY <1>1, <2>1, <2>2
<1> HIDE DEF t1
<1>6. PICK e \in 0 .. K - 1, f \in 0 .. K - 1 : e = t1 \div K /\ f = t1 % K /\ t1 = K * e + f
  BY <1>1, <1>5, Digits
<1>7. low2 \div K = f /\ low2 % K = q
  <2>1. q + f * K \in 0 .. M - 1 /\ (q + f * K) \div K = f /\ (q + f * K) % K = q
    <3>1. q + f * K \in 0 .. K * K - 1 /\ (q + f * K) \div K = f /\ (q + f * K) % K = q
      <4>1. K \in Nat \ {0} /\ q \in 0 .. K - 1 /\ f \in 0 .. K - 1
        BY <1>1, <1>4, <1>6
      <4> QED BY <4>1, TwoDigits, Zenon
    <3> QED BY <1>1, <3>1, Zenon
  <2>2. low2 = (q + f * K) % M
    BY <1>6
  <2>3. low2 = q + f * K
    BY <1>1, <2>1, <2>2, ModSmall
  <2> HIDE DEF low2
  <2> QED BY <2>1, <2>3, Zenon
<1> HIDE DEF low2
<1>8. t2 = f + v1 * u0 /\ t2 \in Nat /\ t2 < K * K
  <2>1. f + v1 * u0 \in 0 .. M - 1
    BY <1>1, <1>3, <1>6, DigitProduct
  <2>2. t2 = (f + v1 * u0) % M
    BY <1>7
  <2>3. t2 = f + v1 * u0
    BY <1>1, <2>1, <2>2, ModSmall
  <2> QED BY <1>1, <2>1, <2>3
<1> HIDE DEF t2
<1>9. PICK g \in 0 .. K - 1, m \in 0 .. K - 1 : g = t2 \div K /\ m = t2 % K /\ t2 = K * g + m
  BY <1>1, <1>8, Digits
<1>10. low3 = q + m * K /\ low3 \in 0 .. M - 1
  <2>1. q + m * K \in 0 .. M - 1
    BY <1>1, <1>4, <1>9, TwoDigits
  <2>2. low3 = (q + m * K) % M
    BY <1>7, <1>9
  <2> QED BY <1>1, <2>1, <2>2, ModSmall
<1> HIDE DEF low3
\* the sum of all products, and so the high word fits
<1> DEFINE z == e + g + u1 * v1
<1>11. high = z % M
  BY <1>6, <1>9
<1>12. u * v = M * z + low3
  <2>1. u * v = K * (K * (u1 * v1)) + K * (u1 * v0) + K * (v1 * u0) + u0 * v0
    BY <1>1, <1>3, SMT
  <2>2. /\ u1 * v0 = (K * e + f) - p /\ v1 * u0 = (K * g + m) - f
        /\ K * e \in Int /\ K * g \in Int /\ u1 * v1 \in Int
    BY <1>1, <1>3, <1>4, <1>5, <1>6, <1>8, <1>9, SMT
  <2>3. K * (u1 * v0) + K * (v1 * u0) = K * (K * e) + K * (K * g) + K * m - K * p
    BY <1>1, <1>4, <1>6, <1>9, <2>2, SMT
  <2>4. M * z = K * (K * e) + K * (K * g) + K * (K * (u1 * v1))
    <3> DEFINE d == u1 * v1
    <3>1. d \in Int /\ e \in Int /\ g \in Int
      BY <1>1, <1>6, <1>9, <2>2
    <3> HIDE DEF d
    <3>2. (K * K) * (e + g + d) = (K * K) * e + (K * K) * g + (K * K) * d
      BY <1>1, <3>1, SMT
    <3>3. (K * K) * e = K * (K * e) /\ (K * K) * g = K * (K * g) /\ (K * K) * d = K * (K * d)
      BY <1>1, <3>1, SMT
    <3> QED BY <1>1, <3>2, <3>3, Zenon DEF d
  <2>5. m * K = K * m
    BY <1>1, <1>9, SMT
  <2>6. /\ K * (K * e) \in Int /\ K * (K * g) \in Int /\ K * (K * (u1 * v1)) \in Int
        /\ K * m \in Int /\ K * p \in Int /\ K * (u1 * v0) \in Int /\ K * (v1 * u0) \in Int
    BY <1>1, <1>3, <1>4, <1>6, <1>9, <2>2, SMT
  <2> HIDE DEF z
  <2> QED BY <1>4, <1>10, <2>1, <2>3, <2>4, <2>5, <2>6
<1>13. z \in Nat /\ z < M
  <2>1. z \in Nat
    BY <1>3, <1>6, <1>9, SMT
  <2> HIDE DEF z
  <2>2. u * v < M * M /\ M * M \in Int /\ M * z \in Int /\ u * v \in Int
    <3>1. 0 \in 0 .. M - 1 /\ u \in 0 .. M - 1 /\ v \in 0 .. M - 1
      BY <1>1, <1>3
    <3>2. 0 + u * v \in 0 .. M * M - 1
      BY <1>1, <3>1, DigitProduct
    <3>3. u * v \in Int /\ M * M \in Int /\ M * z \in Int
      BY <1>1, <1>3, <2>1, SMT
    <3> QED BY <3>2, <3>3
  <2>3. z < M
    <3> SUFFICES ASSUME ~ (z < M) PROVE FALSE
      OBVIOUS
    <3>1. M * (z - M) >= 0 /\ M * (z - M) = M * z - M * M
      BY <1>1, <2>1, SMT
    <3> QED BY <1>10, <1>12, <2>2, <3>1
  <2> QED BY <2>1, <2>3
<1> HIDE DEF z, high
<1>14. high = z
  BY <1>1, <1>11, <1>13, ModSmall
<1>15. z * M = M * z
  BY <1>1, <1>13, SMT
<1> QED
  BY <1>2, <1>12, <1>14, <1>15

\* the remainders of two summands may be taken first
LEMMA ModSum ==
  ASSUME NEW m \in Nat \ {0}, NEW i \in Int, NEW j \in Int, NEW k \in Int
  PROVE  ((k + (i % m)) + (j % m)) % m = (k + i + j) % m
<1>1. PICK q \in Int, r \in 0 .. m - 1 : q = i \div m /\ r = i % m /\ i = m * q + r
  BY DivMod
<1>2. PICK t \in Int, s \in 0 .. m - 1 : t = j \div m /\ s = j % m /\ j = m * t + s
  BY DivMod
<1> DEFINE z == k + r + s
<1>3. z \in Int /\ q + t \in Int
  BY <1>1, <1>2
<1>4. k + i + j = z + m * (q + t)
  <2>1. m * (q + t) = m * q + m * t /\ m * q \in Int /\ m * t \in Int
    BY SMT
  <2> QED BY <1>1, <1>2, <2>1
<1> HIDE DEF z
<1>5. (z + m * (q + t)) % m = z % m
  BY <1>3, ModShift
<1>6. r = i % m /\ s = j % m
  BY <1>1, <1>2
<1> QED
  BY <1>4, <1>5, <1>6, Zenon DEF z

\* muldi3.c: the product of double words from the products of words
LEMMA MulXExact ==
  ASSUME NEW n, Wide(n), Wide(2 * n), NEW u \in 0 .. 2^(2 * n) - 1, NEW v \in 0 .. 2^(2 * n) - 1
  PROVE  MulX(n, u, v, MulWide(n, Low(n, u), Low(n, v))) = (u * v) % 2^(2 * n)
<1> DEFINE M == 2^n
           MM == 2^(2 * n)
           u1 == High(n, u)
           u0 == Low(n, u)
           v1 == High(n, v)
           v0 == Low(n, v)
           low == MulWide(n, u0, v0)
<1>1. M \in Nat \ {0} /\ MM = M * M
  BY DoubleFacts
<1>2. /\ u1 \in 0 .. M - 1 /\ u0 \in 0 .. M - 1 /\ u = M * u1 + u0
      /\ v1 \in 0 .. M - 1 /\ v0 \in 0 .. M - 1 /\ v = M * v1 + v0
  BY Halves
<1>3. low = u0 * v0
  BY <1>2, MulWideExact
<1>4. Mul(n, u1, v0) = (u1 * v0) % M /\ Mul(n, u0, v1) = (u0 * v1) % M
  <2>1. u1 \in Nat /\ u0 \in Nat /\ v1 \in Nat /\ v0 \in Nat
    BY <1>1, <1>2
  <2> QED BY <2>1, MulWraps
<1>5. MulX(n, u, v, low) =
        ((low \div M + Mul(n, u1, v0) + Mul(n, u0, v1)) % M) * M + (low % M)
  BY Zenon DEF MulX, All, Trunc, High, Low
<1> HIDE DEF M, MM, u1, u0, v1, v0, low
<1>6. low \in Nat /\ u1 * v0 \in Int /\ u0 * v1 \in Int /\ u1 * v1 \in Int
  BY <1>1, <1>2, <1>3, SMT
<1>7. PICK i \in Int, r \in 0 .. M - 1 : i = low \div M /\ r = low % M /\ low = M * i + r
  BY <1>1, <1>6, DivMod
<1> DEFINE z == i + u1 * v0 + u0 * v1
<1>8. z \in Int
  BY <1>6, <1>7
<1>9. (low \div M + Mul(n, u1, v0) + Mul(n, u0, v1)) % M = z % M
  <2>1. ((i + ((u1 * v0) % M)) + ((u0 * v1) % M)) % M = (i + u1 * v0 + u0 * v1) % M
    <3> DEFINE d == u1 * v0
               e == u0 * v1
    <3>1. M \in Nat \ {0} /\ i \in Int /\ d \in Int /\ e \in Int
      BY <1>1, <1>6, <1>7
    <3> HIDE DEF d, e
    <3>2. ((i + (d % M)) + (e % M)) % M = (i + d + e) % M
      BY <3>1, ModSum
    <3> QED BY <3>2, Zenon DEF d, e
  <2>2. i = low \div M
    BY <1>7
  <2> QED BY <1>4, <2>1, <2>2, Zenon
<1>10. u * v = (M * M) * (u1 * v1) + (M * z + r)
  <2>1. u * v = M * (M * (u1 * v1)) + M * (u1 * v0) + M * (u0 * v1) + u0 * v0
    BY <1>1, <1>2, SMT
  <2>2. M * z = M * i + M * (u1 * v0) + M * (u0 * v1)
    <3> DEFINE d == u1 * v0
               e == u0 * v1
    <3>1. d \in Int /\ e \in Int
      BY <1>6
    <3> HIDE DEF d, e
    <3>2. M * (i + d + e) = M * i + M * d + M * e
      BY <1>1, <1>7, <3>1, SMT
    <3> QED BY <3>2, Zenon DEF d, e
  <2>3. M * (M * (u1 * v1)) = (M * M) * (u1 * v1)
    BY <1>1, <1>6, SMT
  <2>4. /\ M * (M * (u1 * v1)) \in Int /\ M * (u1 * v0) \in Int /\ M * (u0 * v1) \in Int
        /\ M * i \in Int
    BY <1>1, <1>6, <1>7, SMT
  <2> HIDE DEF z
  <2> QED BY <1>3, <1>7, <2>1, <2>2, <2>3, <2>4
<1> HIDE DEF z
<1>11. PICK t \in Int, f \in 0 .. M - 1 : t = z \div M /\ f = z % M /\ z = M * t + f
  BY <1>1, <1>8, DivMod
<1>12. MulX(n, u, v, low) = r + f * M
  <2>1. MulX(n, u, v, low) = f * M + r
    <3>1. f = z % M /\ r = low % M
      BY <1>7, <1>11
    <3> QED BY <1>5, <1>9, <3>1, Zenon
  <2>2. f * M \in Int
    BY <1>1, <1>11, SMT
  <2> QED BY <1>7, <2>1, <2>2
<1>13. r + f * M \in 0 .. MM - 1
  BY <1>1, <1>7, <1>11, TwoDigits
<1>14. u * v = MM * (u1 * v1 + t) + (r + f * M)
  <2>1. M * z = (M * M) * t + f * M
    <3>1. M * (M * t + f) = M * (M * t) + M * f
      <4>1. M * t \in Int
        BY <1>1, ProductInt
      <4> DEFINE d == M * t
      <4> HIDE DEF d
      <4>2. M * (d + f) = M * d + M * f
        BY <1>1, <1>11, <4>1, SMT DEF d
      <4> QED BY <4>2 DEF d
    <3>2. M * (M * t) = (M * M) * t /\ M * f = f * M
      BY <1>1, <1>11, SMT
    <3>3. z = M * t + f
      BY <1>11
    <3> QED BY <3>1, <3>2, <3>3, Zenon
  <2>2. (M * M) * (u1 * v1 + t) = (M * M) * (u1 * v1) + (M * M) * t
    <3> DEFINE d == u1 * v1
    <3>1. d \in Int
      BY <1>6
    <3> HIDE DEF d
    <3>2. (M * M) * (d + t) = (M * M) * d + (M * M) * t
      BY <1>1, <1>11, <3>1, SMT
    <3> QED BY <3>2 DEF d
  <2>3. (M * M) * (u1 * v1) \in Int /\ (M * M) * t \in Int /\ f * M \in Int
    BY <1>1, <1>6, <1>11, SMT
  <2> QED BY <1>1, <1>7, <1>10, <2>1, <2>2, <2>3
<1>15. u1 * v1 + t \in Int /\ u * v \in Int /\ MM \in Nat \ {0}
  BY <1>1, <1>2, <1>6, <1>11, SMT
<1>16. (u * v) % MM = r + f * M
  <2> DEFINE A == u * v
             k == u1 * v1 + t
             rest == r + f * M
  <2>1. A \in Int /\ k \in Int /\ rest \in 0 .. MM - 1 /\ A = MM * k + rest /\ MM \in Nat \ {0}
    BY <1>13, <1>14, <1>15
  <2> HIDE DEF A, k, rest
  <2>2. A % MM = rest
    BY <2>1, ModUnique
  <2> QED BY <2>2, Zenon DEF A, rest
<1> QED
  BY <1>12, <1>16 DEF MM, low, u0, v0

\* what the routines on double words of n and n bits give
LEMMA DoubleExact ==
  ASSUME NEW n, Wide(n), Wide(2 * n), NEW u \in 0 .. 2^(2 * n) - 1, NEW v \in 0 .. 2^(2 * n) - 1
  PROVE  /\ MulX(n, u, v, MulWide(n, Low(n, u), Low(n, v)))
              = Trunc(2 * n, SVal(2 * n, u) * SVal(2 * n, v))
         /\ CmpX(n, u, v, SVal(n, High(n, u)), SVal(n, High(n, v)))
              = Order(SVal(2 * n, u), SVal(2 * n, v))
         /\ CmpX(n, u, v, High(n, u), High(n, v)) = Order(u, v)
<1>1. /\ High(n, u) \in 0 .. 2^n - 1 /\ Low(n, u) \in 0 .. 2^n - 1 /\ u = 2^n * High(n, u) + Low(n, u)
      /\ High(n, v) \in 0 .. 2^n - 1 /\ Low(n, v) \in 0 .. 2^n - 1 /\ v = 2^n * High(n, v) + Low(n, v)
  BY Halves
<1>2. MulX(n, u, v, MulWide(n, Low(n, u), Low(n, v)))
        = Trunc(2 * n, SVal(2 * n, u) * SVal(2 * n, v))
  BY MulXExact, SignedProduct, Zenon DEF Trunc
<1>3. CmpX(n, u, v, SVal(n, High(n, u)), SVal(n, High(n, v)))
        = Order(SVal(2 * n, u), SVal(2 * n, v))
  <2>1. /\ SVal(n, High(n, u)) \in Int /\ SVal(2 * n, u) = 2^n * SVal(n, High(n, u)) + Low(n, u)
        /\ SVal(n, High(n, v)) \in Int /\ SVal(2 * n, v) = 2^n * SVal(n, High(n, v)) + Low(n, v)
    BY SignedHigh
  <2>2. CmpX(n, u, v, SVal(n, High(n, u)), SVal(n, High(n, v)))
          = Order(2^n * SVal(n, High(n, u)) + Low(n, u), 2^n * SVal(n, High(n, v)) + Low(n, v))
    <3> DEFINE i == SVal(n, High(n, u))
               j == SVal(n, High(n, v))
    <3>1. i \in Int /\ j \in Int
      BY <2>1
    <3> HIDE DEF i, j
    <3>2. CmpX(n, u, v, i, j) = Order(2^n * i + Low(n, u), 2^n * j + Low(n, v))
      BY <1>1, <3>1, CmpExact
    <3> QED BY <3>2, Zenon DEF i, j
  <2> QED BY <2>1, <2>2, Zenon
<1>4. CmpX(n, u, v, High(n, u), High(n, v)) = Order(u, v)
  <2>1. High(n, u) \in Int /\ High(n, v) \in Int
    <3>1. 2^n \in Nat
      BY WideFacts
    <3> QED BY <1>1, <3>1
  <2>2. CmpX(n, u, v, High(n, u), High(n, v))
          = Order(2^n * High(n, u) + Low(n, u), 2^n * High(n, v) + Low(n, v))
    <3> DEFINE i == High(n, u)
               j == High(n, v)
    <3>1. i \in Int /\ j \in Int
      BY <2>1
    <3> HIDE DEF i, j
    <3>2. CmpX(n, u, v, i, j) = Order(2^n * i + Low(n, u), 2^n * j + Low(n, v))
      BY <1>1, <3>1, CmpExact
    <3> QED BY <3>2, Zenon DEF i, j
  <2>3. u = 2^n * High(n, u) + Low(n, u) /\ v = 2^n * High(n, v) + Low(n, v)
    BY <1>1
  <2> QED BY <2>2, <2>3, Zenon
<1> QED
  BY <1>2, <1>3, <1>4

-----------------------------------------------------------------------------
(* The calls *)

CallInv == call \in OperandTypes /\ x \in Operands(call) /\ y \in Operands(call) \cup {0}

\* every call has a type of the program and operands of that type
LEMMA Calls == CallsSpec => []CallInv
<1>1. CallsInit => CallInv
  BY DEF CallsInit, CallInv
<1>2. CallInv /\ [CallsNext]_callVars => CallInv'
  BY DEF CallInv, CallsNext, CallRoutine, RoutineReturns, callVars
<1> QED
  BY <1>1, <1>2, PTL DEF CallsSpec

\* a call within the limit has a width whose powers are known, and words of that width
LEMMA CallWords ==
  ASSUME CallInv, w <= WidthLimit
  PROVE  /\ Wide(w) /\ x \in 0 .. 2^w - 1 /\ y \in 0 .. 2^w - 1
         /\ call.ty \in {"si", "di", "ti"} /\ b \in Nat
         /\ call.ty = "si" => w = b
         /\ call.ty = "di" => w = 2 * b /\ Wide(b)
         /\ call.ty = "ti" => w = 4 * b /\ Wide(2 * b)
<1>1. call.ty \in {"si", "di", "ti"} /\ b \in {2, 4, 8, 16, 32} /\ call \in OperandTypes
  BY TypesAssumption DEF CallInv, b
<1>2. /\ call.ty = "si" => w = b
      /\ call.ty = "di" => w = 2 * b
      /\ call.ty = "ti" => w = 4 * b
  BY <1>1 DEF w, b, Width
<1>3. Powers(w) /\ (call.ty # "si" => Powers(w \div 2)) /\ \A v \in Operands(call) : v \in Nat /\ v < 2^w
  BY <1>1, TypesAssumption, WidthsAssumption DEF w
<1>4. w \in Nat \ {0, 1} /\ w % 2 = 0
  BY <1>1, <1>2
<1>5. Wide(w)
  BY <1>3, <1>4 DEF Wide
<1>6. call.ty = "di" => Wide(b)
  <2> HAVE call.ty = "di"
  <2>1. w \div 2 = b /\ b \in Nat \ {0, 1} /\ b % 2 = 0
    BY <1>1, <1>2
  <2> QED BY <1>3, <2>1 DEF Wide
<1>7. call.ty = "ti" => Wide(2 * b)
  <2> HAVE call.ty = "ti"
  <2>1. w \div 2 = 2 * b /\ 2 * b \in Nat \ {0, 1} /\ (2 * b) % 2 = 0
    BY <1>1, <1>2
  <2> QED BY <1>3, <2>1 DEF Wide
<1>8. x \in 0 .. 2^w - 1 /\ y \in 0 .. 2^w - 1
  <2>1. 2^w \in Nat \ {0}
    BY <1>5, WideFacts
  <2>2. x \in Nat /\ x < 2^w /\ y \in Nat /\ y < 2^w
    BY <1>3, <2>1 DEF CallInv
  <2> QED BY <2>1, <2>2
<1> QED
  BY <1>1, <1>2, <1>5, <1>6, <1>7, <1>8

\* the lemmas on the trapping routines, for the type of the call
LEMMA CallTraps == CallInv => TrapIffOverflow
<1> SUFFICES ASSUME CallInv PROVE TrapIffOverflow
  OBVIOUS
<1> DEFINE X == Value(x)
           Y == Value(y)
           Check(abs, neg, add, sub, mul, mulo) ==
             /\ abs = OrAbort(IF X < 0 THEN -X ELSE X)
             /\ neg = OrAbort(-X)
             /\ add = OrAbort(X + Y)
             /\ sub = OrAbort(X - Y)
             /\ mul = OrAbort(X * Y)
             /\ mulo = [value |-> Trunc(w, X * Y), overflow |-> ~Fits(X * Y)]
<1>1. ASSUME w <= WidthLimit
      PROVE  Check(AbsvX(w, x), NegvX(w, x), AddvX(w, x, y), SubvX(w, x, y),
                   mulvXi3(w, x, y), muloXi4(w, x, y))
  <2>1. Wide(w) /\ x \in 0 .. 2^w - 1 /\ y \in 0 .. 2^w - 1
    BY <1>1, CallWords
  <2>2. \A z : OrAbort(z) = ExactOr(w, z) /\ (Fits(z) <=> FitsIn(w, z))
    BY DEF OrAbort, ExactOr, Fits, FitsIn
  <2>3. X = SVal(w, x) /\ Y = SVal(w, y)
    BY DEF Value
  <2>4. AbsvX(w, x) = OrAbort(IF X < 0 THEN -X ELSE X)
    BY <2>1, <2>2, <2>3, AbsvExact DEF Magnitude
  <2>5. NegvX(w, x) = OrAbort(-X)
    BY <2>1, <2>2, <2>3, NegvExact
  <2>6. AddvX(w, x, y) = OrAbort(X + Y) /\ SubvX(w, x, y) = OrAbort(X - Y)
    BY <2>1, <2>2, <2>3, AddvExact, SubvExact
  <2>7. /\ mulvXi3(w, x, y) = OrAbort(X * Y)
        /\ muloXi4(w, x, y) = [value |-> Trunc(w, X * Y), overflow |-> ~FitsIn(w, X * Y)]
    BY <2>1, <2>2, <2>3, MulExact
  <2>8. (~Fits(X * Y)) = (~FitsIn(w, X * Y))
    BY Zenon DEF Fits, FitsIn
  <2> HIDE DEF X, Y
  <2>9. muloXi4(w, x, y) = [value |-> Trunc(w, X * Y), overflow |-> ~Fits(X * Y)]
    BY <2>7, <2>8, Zenon
  <2> QED BY <2>4, <2>5, <2>6, <2>7, <2>9
<1>2. is("si") => Check(absvsi2(b, x), negvsi2(b, x), addvsi3(b, x, y), subvsi3(b, x, y),
                        mulvsi3(b, x, y), mulosi4(b, x, y))
  <2> HAVE is("si")
  <2>1. w <= WidthLimit /\ w = b
    BY CallWords DEF is
  <2> HIDE DEF Check
  <2> QED BY <1>1, <2>1 DEF absvsi2, negvsi2, addvsi3, subvsi3, mulvsi3, mulosi4
<1>3. is("di") => Check(absvdi2(b, x), negvdi2(b, x), addvdi3(b, x, y), subvdi3(b, x, y),
                        mulvdi3(b, x, y), mulodi4(b, x, y))
  <2> HAVE is("di")
  <2>1. w <= WidthLimit /\ w = 2 * b
    BY CallWords DEF is
  <2> HIDE DEF Check
  <2> QED BY <1>1, <2>1 DEF absvdi2, negvdi2, addvdi3, subvdi3, mulvdi3, mulodi4
<1>4. is("ti") => Check(absvti2(b, x), negvti2(b, x), addvti3(b, x, y), subvti3(b, x, y),
                        mulvti3(b, x, y), muloti4(b, x, y))
  <2> HAVE is("ti")
  <2>1. w <= WidthLimit /\ w = 4 * b
    BY CallWords DEF is
  <2> HIDE DEF Check
  <2> QED BY <1>1, <2>1 DEF absvti2, negvti2, addvti3, subvti3, mulvti3, muloti4
<1> QED
  BY <1>2, <1>3, <1>4, Zenon DEF TrapIffOverflow

(***************************************************************************)
(* For words of the real widths, 32, 64 and 128 bits, as for the small     *)
(* ones, and for all operands: a routine of the absv, negv, addv, subv and *)
(* mulv families ends the process exactly when the result does not fit,    *)
(* and the mulo family reports it exactly then.                            *)
(***************************************************************************)
THEOREM TrapIffOverflowTheorem == CallsSpec => []TrapIffOverflow
  BY Calls, CallTraps, PTL

\* the lemmas on double words, for the type of the call
LEMMA CallWraps == CallInv => WrapsAndOrders
<1> SUFFICES ASSUME CallInv PROVE WrapsAndOrders
  OBVIOUS
<1>1. ASSUME is("di")
      PROVE  /\ muldi3(b, x, y) = Trunc(w, Value(x) * Value(y)) /\ negdi2(b, x) = Trunc(w, -x)
             /\ cmpdi2(b, x, y) = Order(Value(x), Value(y)) /\ ucmpdi2(b, x, y) = Order(x, y)
  <2>1. w = 2 * b /\ Wide(b) /\ Wide(2 * b) /\ x \in 0 .. 2^(2 * b) - 1 /\ y \in 0 .. 2^(2 * b) - 1
    <3>1. w <= WidthLimit /\ call.ty = "di"
      BY <1>1 DEF is
    <3>2. w = 2 * b /\ Wide(b) /\ Wide(w) /\ x \in 0 .. 2^w - 1 /\ y \in 0 .. 2^w - 1
      BY <3>1, CallWords
    <3> QED BY <3>2
  <2>2. Value(x) = SVal(2 * b, x) /\ Value(y) = SVal(2 * b, y)
    BY <2>1 DEF Value
  <2>3. negdi2(b, x) = Trunc(w, -x)
    BY <2>1 DEF negdi2, Neg
  <2>4. /\ MulX(b, x, y, MulWide(b, Low(b, x), Low(b, y)))
             = Trunc(2 * b, SVal(2 * b, x) * SVal(2 * b, y))
        /\ CmpX(b, x, y, SVal(b, High(b, x)), SVal(b, High(b, y)))
             = Order(SVal(2 * b, x), SVal(2 * b, y))
        /\ CmpX(b, x, y, High(b, x), High(b, y)) = Order(x, y)
    BY <2>1, DoubleExact, Zenon
  <2> QED BY <2>1, <2>2, <2>3, <2>4, Zenon DEF muldi3, muldsi3, cmpdi2, ucmpdi2
<1>2. ASSUME is("ti")
      PROVE  /\ multi3(b, x, y) = Trunc(w, Value(x) * Value(y)) /\ negti2(b, x) = Trunc(w, -x)
             /\ cmpti2(b, x, y) = Order(Value(x), Value(y)) /\ ucmpti2(b, x, y) = Order(x, y)
  <2> DEFINE n == 2 * b
  <2>1. w = 2 * n /\ Wide(n) /\ Wide(2 * n) /\ x \in 0 .. 2^(2 * n) - 1 /\ y \in 0 .. 2^(2 * n) - 1
    <3>1. w <= WidthLimit /\ call.ty = "ti"
      BY <1>2 DEF is
    <3>2. w = 4 * b /\ b \in Nat /\ Wide(n) /\ Wide(w) /\ x \in 0 .. 2^w - 1 /\ y \in 0 .. 2^w - 1
      BY <3>1, CallWords
    <3>3. 4 * b = 2 * n
      BY <3>2
    <3> HIDE DEF n
    <3> QED BY <3>2, <3>3
  <2>2. Value(x) = SVal(2 * n, x) /\ Value(y) = SVal(2 * n, y)
    BY <2>1, Zenon DEF Value
  <2>3. negti2(b, x) = Trunc(w, -x)
    <3>1. w = 4 * b
      BY <1>2, CallWords DEF is
    <3> QED BY <3>1, Zenon DEF negti2, Neg
  <2>4. /\ MulX(n, x, y, MulWide(n, Low(n, x), Low(n, y)))
             = Trunc(2 * n, SVal(2 * n, x) * SVal(2 * n, y))
        /\ CmpX(n, x, y, SVal(n, High(n, x)), SVal(n, High(n, y)))
             = Order(SVal(2 * n, x), SVal(2 * n, y))
        /\ CmpX(n, x, y, High(n, x), High(n, y)) = Order(x, y)
    <3> HIDE DEF n
    <3> QED BY <2>1, DoubleExact, Zenon
  <2> QED BY <2>1, <2>2, <2>3, <2>4, Zenon DEF multi3, mulddi3, cmpti2, ucmpti2
<1> QED
  BY <1>1, <1>2, Zenon DEF WrapsAndOrders

(***************************************************************************)
(* For double words of the real widths, 64 and 128 bits, as for the small  *)
(* ones, and for all operands: the product put together from the products  *)
(* of halves is the exact one modulo the width, negation wraps, and the    *)
(* comparisons order their operands as signed and as unsigned numbers.     *)
(***************************************************************************)
THEOREM WrapsAndOrdersTheorem == CallsSpec => []WrapsAndOrders
  BY Calls, CallWraps, PTL
=============================================================================
