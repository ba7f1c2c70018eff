# TASE: TLA+ models, model checking and proofs

TASE runs a target program natively inside hardware transactions (Intel RTM) as
long as it touches only concrete data, and hands it to a KLEE-based interpreter
when it meets symbolic ("poisoned") data. This directory holds TLA+ models of
the parts of the repository that decide whether this mixture is correct:

* the **springboard**, the assembly between the cartridges of the target that
  checks for poison, batches cartridges into transactions, aborts, ejects and
  injects (`test/tase/springboard.S`, `test/tase/common.c`);
* its two hosts, the interpreter (by its interface) and the stand-alone driver
  (`test/tase/harness.c`);
* **parseltongue86**, which translates the machine code of every cartridge into
  the C that the interpreter runs instead (`parseltongue86/`);
* the runtime library that targets are linked with in place of SSE code and
  wide integer instructions (`compiler-rt_soft_float/`): its arithmetic, and the
  parts of it that keep state shared by threads.

Run a check with `tlc -config MCTaseInterp.cfg MCTaseInterp`, the proofs of a
component with `tlapm TaseProofs.tla`, and so for every `*Proofs.tla`.

## 1. Inventory

| Part | State | Operations | Interacts with |
|---|---|---|---|
| springboard (`springboard.S`) | `tran_ctr`, `tran_max`, `saved_rax`, `tase_springboard`; r14, r15, xmm13-15; the open transaction | `sb_reopen`, `sb_modeled`, `.Lsb_abort`, `.Lsb_fallback`/`sb_eject`, `sb_inject` | headers jump to it; it jumps back through r15 or out to `tase_eject` |
| context switch (`common.c`) | `target_ctx`: registers, rip, abort status, counters, jump buffer | `enter_tase`, `tase_inject`, `tase_eject` | called by the host; `setjmp`/`longjmp` make an ejection return from `tase_inject` |
| interpreter (KLEE, submodule) | rip in `target_ctx`, `tran_max` | interpret a cartridge, run a model, inject | calls `tase_inject`; reads the abort status |
| driver (`harness.c`) | none of its own | loop of `run_target` | `enter_tase`, `tase_inject` |
| abort log, trap shims, exit_tase | none | printing; placeholder bodies replaced by models | entered through `sb_modeled` |
| parseltongue86 driver (`parseltongue86.py`, `elffile.py`) | functions read so far, current function, current cartridge | parse the disassembly, cut it into functions | reads `cartridge_info.txt`; calls the translator |
| translator (`instruction.py`, `operand.py`) | global `BB_ASSIGNED_REGS` | `emit_function` with prolog, one `_emit_*` per mnemonic, epilog | its output runs in the interpreter on `gregs` |
| rosettastone, tests, build scripts, link script | none | - | - |
| target programs: SSLCliver, bigNum, coreutils | - | - | run under TASE |
| compiler-rt integer routines (`int_div_impl.inc`, `udivmoddi4.c`, `muldi3.c`, `ashrdi3.c`, ...) | none | division, multiplication, trapping arithmetic, shifts, bit counts of si, di and ti words | called by compiled code; the floating-point part uses them |
| compiler-rt floating point (`fp_*.inc`, `float*.c`, `fix*.c`, `mulsc3.c`, `divsc3.c`, `powisf2.c`, ...) | none | arithmetic, comparison, conversions; powers and complex numbers built from them | called by compiled code instead of SSE |
| compiler-rt `atomic.c` | the pool of spin locks; the program's objects | `__atomic_*`, `__atomic_*_n`, `__atomic_fetch_*_n`, `atomic_flag_*` | threads of the program |
| compiler-rt `emutls.c` | indexes, counter, key, mutex; per thread an array of addresses | `__emutls_get_address`, the destructor of the key | pthreads, malloc, destructors of other keys |
| compiler-rt `gcc_personality_v0.c` | none; reads a frame's table of call sites | `__gcc_personality_v0` | called back by the unwinder in both phases; sends it to landing pads |
| compiler-rt `cpu_model.c` | `__cpu_model`, `__cpu_features2` | `__cpu_indicator_init` | constructors and ifunc resolvers of any thread |
| compiler-rt for other platforms | - | - | not built on x86-64 Linux |

What is hard here: a transaction can abort at any instruction, for reasons the
code does not control; the poison check of a cartridge happens later, at the
next header; registers are saved in places that are valid only for part of the
way (r14, `saved_rax`); counters survive some exits and not others; the
interpreter may retry with another batch size. In the translator: carries and
overflows at boundaries, partial register writes, condition codes, and a global
list that must be exact for every function. In the runtime library: threads
that copy an object byte by byte, look at an index before they take the lock, or
read a description that another thread is still writing; arrays that grow and
are destroyed while destructors still use them; tables read through a moving
pointer; and arithmetic that is wrong, if it is, for a handful of operands.
`PROJECT.json` lists each hazard at its line.

What makes each part correct:

* springboard + host: every cartridge takes effect exactly once and in order;
  nothing that touched poison is committed; a body finds the registers its
  predecessor left; abort codes are usable; the run ends;
* driver: nothing poisoned is committed, and a round runs the cartridges from
  where it was injected, each once; where a round begins the driver does not
  control;
* parseltongue86: an emitted function leaves what the processor would leave; an
  emitted function is one whole cartridge and writes back what it assigned;
* arithmetic: each routine returns what exact arithmetic and one rounding give,
  and traps exactly on overflow;
* atomic operations: each of them looks like one step, and no lock stays taken;
* thread-local storage: one index per variable, one stable, aligned object per
  thread and variable, all of them freed, no call that hangs;
* personality: the cleanups that the tables ask for run, once, innermost first;
* processor model: whoever sees a vendor sees a complete description, which
  promises no register state that the system does not save.

## 2. The modules

| Module | Models | Extends / uses |
|---|---|---|
| `TargetRun` | abstract: a sequential run, native in batches or interpreted | |
| `Springboard` | `springboard.S`, `enter_tase`, `tase_inject`, `tase_eject`, RTM | |
| `TaseInterp` | the springboard under the interpreter; refines `TargetRun` | `Springboard` |
| `SpringboardProofs` | what holds of the springboard under either host | `Springboard`, `TLAPS` |
| `TaseProofs` | the theorems with the interpreter as host | `TaseInterp`, `SpringboardProofs` |
| `Harness` | the springboard under `run_target` | `Springboard` |
| `HarnessProofs` | the theorems with the driver as host | `Harness`, `SpringboardProofs` |
| `X86IR` | the C emitted for each instruction, as its effect | |
| `X86` | the processor, as a reference | `X86IR` (sizes, operands) |
| `InterpFn` | emitted functions in lockstep with the processor | `X86` |
| `Parseltongue` | from the disassembly to the list of emitted functions | |
| `ParseltongueProofs` | the theorems about it | `Parseltongue`, `TLAPS` |
| `Words` | words of a width: truncation, signs, shifts, halves | |
| `IntArith` | the integer routines without loops: trapping and wrapping arithmetic, comparison | `Words` |
| `IntLib`, `IntDiv` | the others: shifts, bit counts; division | `IntArith`, `Bitwise` |
| `ArithCalls` | calls of the integer routines, and what those of `IntArith` must return | `IntArith` |
| `IntCalls` | what the others must return | `ArithCalls`, `IntDiv` |
| `FpLib`, `FpConv`, `Complex` | floating-point arithmetic; conversions; powers and complex numbers | `Words`, `Bitwise` |
| `FpCalls` | calls of these and what they must return | `Complex`, `IntCalls` |
| `AtomicMemory` | abstract: a memory whose operations take one step | |
| `Atomic` | `atomic.c`; refines `AtomicMemory` | |
| `AtomicProofs` | the theorems about it | `Atomic`, `TLAPS` |
| `EmuTls` | `emutls.c` on pthreads, with malloc and the end of a thread | |
| `EmuTlsProofs` | the theorems about it | `EmuTls`, `TLAPS` |
| `Personality` | `gcc_personality_v0.c` under a two-phase unwinder | `Words` |
| `PersonalityProofs` | the theorems about it | `Personality`, `TLAPS` |
| `CpuModel` | `cpu_model.c` on x86-64 | |
| `RuntimeProofs` | the theorems about the processor model and integer arithmetic | `CpuModel`, `ArithCalls`, `TLAPS` |
| `MC*` | constants for TLC | |

### Springboard

A program is a path of cartridges `1..N` followed by `exit_tase` (`N+1`). `taint`
is the set of cartridges whose body touches poison, `modeled` the set of those
that begin a modeled function; both are arbitrary. What a cartridge computes is
abstracted to the fact that it ran (`mem.work[i]`: `none`, `native`, `interp`,
`twice`) and to value `i` in rax and in the flags; `Clobbered` is any value that
no cartridge left there. `flags` stands for the flags `lahf` moves; OF is not
among them, which contract b) of `tase_interp.h` ("EFLAGS is required to be dead
at the entry of a cartridge") permits.

| Code | Model |
|---|---|
| a cartridge header, and its body | `Arrive`/`ArrivePc`, `RunBody` |
| `sbm_compare_poison`, `sbm_init_tran` | operators of the same names; SIMD registers hold one of `zero`, `poison`, `ones`, `plain` |
| `sb_reopen` | `sb_reopen_no_close`, `sb_reopen_close` (the `jl`), `sb_abort` (the `jnz`) |
| `sb_modeled` | `sb_modeled`, `sb_abort` |
| `.Lsb_abort` and the XABORT table | `AbortCode`, `sb_abort` |
| an abort by the hardware, at any point of a transaction | `TsxAbort` |
| `.Lsb_fallback`, `.Lsb_eject`, `tase_eject` | `sb_eject` |
| `enter_tase`, `tase_inject`, `sb_inject` | operators of the same names |
| xbegin, xend | `Xbegin` saves registers and memory in `chk`; `EndTx` |

One action covers the straight-line code from one jump to the next, because
inside a transaction nobody else can observe it and an abort in the middle has
the same outcome as one before or after. Outside a transaction (`sb_eject`,
`tase_inject`, the host) there is only one thread. `chk` is what an abort
restores; it includes `tran_ctr`, `tran_max` and `saved_rax`, which the
springboard writes inside the transaction.

### TaseInterp

KLEE is not in the repository. It is modelled by what `tase_interp.h` lets it do
and by the options it is started with (`-retryMax=1 -tranBBMax=16`,
`test/doMicroBenchmarks.sh`): when the target is ejected it interprets the
cartridge at rip, or runs the model of a modeled function, or injects there with
any `tran_max` from 1 to `TranMaxReset`. It injects at most `RetryMax + 1` times
without progress. It never injects at the body of a modeled function. After
interpreting it may leave rip at the next header or at the next body.

### Harness

`run_target` with `TASE_ENABLE` 0. `BadReturn` is the condition of line 25 with C's
operator precedence: it rejects every modeled call, so that the ejections that
the loop resumes from are aborts in the middle of a function. The word it pops
there (line 29) is whatever the target keeps on its stack. `Resume` takes it for
the address of any cartridge, behind or ahead; `ResumeFaults` for any other word:
the jump to it faults in the transaction that `sb_inject` has opened, which aborts,
and the driver is asked again with that word in rip (`lost`). A cartridge may thus
run several times, and the driver need not end; no property says otherwise.
`RoundInOrder` says what a round does wherever it begins.

### X86IR, X86, InterpFn

`X86IR` has one operator per `_emit_*` method. It maps the state of the emitted
function (register temporaries, flags, memory, `BB_ASSIGNED_REGS`) to the state
after the emitted C. A byte has `ByteBits` bits; widths 1, 2, 4 and 8 bytes keep
their meaning, so sign extension, truncation, partial writes, carries and
zero extension of 4-byte writes all occur with 2-bit bytes (operands of 2, 4, 8
and 16 bits). `X86` states what the processor does with the same instruction, by
exact arithmetic on signed and unsigned values rather than by the tricks of the
translator, together with the flags each instruction reads, defines and leaves
undefined. `InterpFn` runs both in lockstep over functions cut anywhere: prolog
(load `gregs`), instructions, epilog (write back `BB_ASSIGNED_REGS`). Flags the
processor leaves undefined, and flags the translator is known to compute
differently (`Lost`), are `dead`: no later instruction of the run may read
them, and they are not compared. Shifts by the full width, undefined in C, are a
choice (`over`).

Some instructions leave other registers or memory than the processor does, in some
states. `Divergent(s, i)` lists these pairs of state and instruction, with the line
of the translator that is the reason: negative values in 1- and 2-byte stores, rsp
as an operand of push and pop, the upper half of a one-operand imul of a negative
number, an exchange of a register with the memory it points to, and double shifts
and rotates through carry by 0. The instructions are run all the same, in those
states too; what the run has computed is then not compared any more (`strayed`).
In all other states these instructions have to agree like any other.

### Parseltongue

`ELFFile._parse_objdump` line by line (header, instruction, anything else), with
function names made unique, followed by main: the collection of the
instructions, the stubs for the springboard functions (in the order of the
dictionary `springboard_functions`), and the loop that starts, continues and ends a
cartridge. An instruction is its address, length, the registers its code assigns
and whether it belongs to a header. `BinariesAssumption` says what the two input
files are: `Listing`, objdump's output, in which addresses ascend, instructions do
not overlap and an empty line comes before the header of a function; and
`InOneFunction`, a cartridge table in which a cartridge ends in the function in
which it begins. The empty line matters: the parser takes any line that is no
instruction for the end of a function and looks at it no further, so that a header
right after an instruction would be lost, and its function with it.

### Words, IntArith, IntLib, IntDiv, ArithCalls, IntCalls

A word is a natural number below `2^w`; every operation truncates to the width
of its C type. The width `b` of a si word is a parameter of every routine (di has
`2b` bits, ti `4b`), and so the carries, splits and shift-by-width cases of the
code occur with words of 4 to 16 bits. `IntArith` holds the routines that have no
loop. The code takes an absolute value with `(a ^ t) - t`, where `t` is 0 or all ones;
`Flip` is that exclusive or, and so `IntArith` needs no operation on bits. In
`IntLib` and `IntDiv` the loops of the code are `RECURSIVE` operators with the loop's
variables as parameters.

`ArithCalls` picks a type and two operands; the properties there and in `IntCalls`
compare all routines of that type with arithmetic on TLA+ integers and on sets of
bits. `WidthLimit` bounds the words that are multiplied, because TLC's integers
have 32 bits; the theorems set no limit. Division by 0, which the code leaves
unspecified, is not tried. `divq`, which `udiv128by64to64` uses in this build,
faults when the quotient does not fit (`Abort`); the portable
`udiv128by64to64default` is modelled too and compared with it (`DigitsAgree`).

### FpLib, FpConv, Complex, FpCalls

A number is its bit pattern in a format `[prec, w, s]`. The routines are generic
in the format as the `.inc` files are; `prec` selects the branches of `fp_lib.h`
and `fp_div_impl.inc` that are compiled for a precision, and the Newton steps are
done in fixed-point words of the code's relative widths. A routine is cut into
stages (unpack, align or multiply, normalise, pack, round), each of which takes
the values of the one before. The reference in
`FpCalls` is the exact rational result, rounded once to nearest even. The
constants of the code that depend on a format (the error bound of the reciprocal,
the distance from which a smaller operand is only sticky) keep their form.
Double has the 11 exponent bits of a double and 12 significand bits, so that the
low half of its divisor, which `fp_div_impl.inc:263` multiplies separately, is not
always 0, and the error bound of its reciprocal is 2^8.
The format of double stands for the 80-bit one, whose routines differ from it
only in the layout.

### Atomic, AtomicMemory

`Atomic` has a program counter per thread. A call on an object that is lock free
by size and alignment (`IS_LOCK_FREE`) is one step. Any other takes its lock (`lock` spins
on a weak compare and exchange, which may fail for no reason and overwrites
`old`), copies or compares one byte per step, and unlocks; `lock_for_pointer` is
modelled with its hash, so different objects share locks. `AtomicMemory` has only
calls, one step that performs them and returns. The refinement mapping gives an
object that is being written byte by byte its old value until the copy is
complete.

### EmuTls

`emutls_get_address` is cut at every access to shared state: the first look at
the index, `pthread_once`, the mutex, the second look, the increment, the unlock,
the array with its growth, the object. A thread may end at any time outside a
call; its array's destructor skips `SkipRounds` rounds and then frees the objects,
while destructors of other keys may use variables during the first `OtherRounds`
rounds, before and after this key's destructor, and bring an array back that was
destroyed. `round` counts half-rounds for that: odd before `emutls_key_destructor`,
even after it. malloc returns any free block or fails, which
aborts the process, as does a failure to create the key. Memory is a set of
blocks; only the word in front of an object, which remembers its block, and the
arrays are represented.

### Personality

The language-specific data of a function is a sequence of bytes, read by
`readULEB128` and `readEncodedPointer` through a moving position, in all formats the
code supports. `Lsda` says how a compiler lays it out: a header with any lpStart and
ttype fields, then the entries of the table of call sites, one after the other;
`begin` is where each entry begins. Values in the table are not negative and fit an
`int` (`Value`), which is one to five bytes of uleb128, and the format they are written
in (`Fits`: 2 bytes hold less than 2^16, or 2^15 with a sign). `SearchPhase`, `ParseHeader`, `Walk`, `WalkEnds` are
the personality; `OuterFrame`, `LandingPad` the unwinder and the cleanup, which
resumes. `lpStart` is read and skipped, as in the code. `CleanupsInOrder` follows
the cleanups that ran from one to the next: each is the one that the table asks for
(`PadFor`) in the first frame, from where the last one resumed, that asks for any.

### CpuModel

`__cpu_indicator_init` store by store, for any number of callers at once: vendor 0
means not yet initialised. A register of cpuid is the set of its bits, and a leaf a
set of pairs of a bit and the feature it announces. The tables of families, models
and features are those of the code.

## 3. Runs

| Run | Checks | Bounds | States |
|---|---|---|---|
| `native_safety` | types, exactly once, nothing poisoned committed or run past, registers, abort codes, finality; `TaseInterp` implements `TargetRun` with its fairness; the run ends | N=4, batches up to 3, XABORT table up to 1, one retry | 507,781 |
| `harness` | nothing poisoned committed, rounds in order, abort counters | N=3, batches up to 3, counters modulo 3, three abort causes; the popped word is any cartridge or none | 758,386 |
| `interp_instructions` | the forms of every instruction (8-byte mul and div excepted) agree with the processor in every state in which they are not `Divergent`, in the flags not `Lost`, alone and in sequences cut into functions anywhere | one instruction on 8 boundary values and 4 counts; one under all flags; three of 14 instructions on 3 values | 225,912 |
| `parseltongue_batches` | whole cartridges, exact write-back | 2 selected functions of 4 shapes, one unselected, 2 layouts, with and without a filter | 5,568 |
| `arithmetic` | division, overflow traps, wrapping, shifts, order and bit counts are exact; sums, products, quotients, conversions, powers, complex numbers | words of 4 to 16 bits (ti up to 32): every pair of 4-bit si and of 8-bit di words, else the neighbours of the powers of two and their complements; four formats with 1, 3, 12 and 14 significand bits, exponents that cancel, align by the width, underflow and overflow | 224,265 |
| `atomic` | mutual exclusion, `Atomic` implements `AtomicMemory`, locks are released | 2 threads; 2 two-byte objects with one lock, 1 lock-free object; 18 calls with every function | 339,320 |
| `emutls` | indexes unique and lasting, addresses, ownership, array bounds, alignment, key, no call hangs | 2 threads, 2 variables, 2 blocks, arrays of 1 element that grow, 4 rounds of destructors of which one is skipped and two bring variables back | 454,506 |
| `personality` | the right cleanups in order, the walk in step, unwinding ends | 3 tables in 8 encodings with 4 kinds of lpStart and 3 of ttype, with values of 1 to 4 uleb128 bytes, stacks of up to 3 frames, every boundary offset | 122,056 |
| `cpu_model` | vendor written last, no unsaved state reported, types agree with subtypes | 2 callers; every Intel model, the AMD families, and every mixture of cpuid leaves and saved state | 107,212 |
| `modeled_registers`, `partial_store`, `parity_flag` | violated: what a comment of the code says and the code does not do (section 6) | | |

Why the bounds are enough to mean something. With four cartridges and batches of
three there are full batches, partial ones, a batch after an aborted batch, a
modeled or poisoned cartridge in every place of a batch, and a second
transaction after a commit; every set `taint` and `modeled` is tried. An XABORT
table up to 1 with counters up to 2 reaches the table, its last entry and the
fall-through. The abort causes
differ only in status and accounting, so one is enough except in `harness`,
where the counters are compared; modulo 3 they wrap. There three cartridges
are enough, because every round may begin at any of them. The values of the IR runs
are the boundaries of all four widths (0, 1, 127, 128, 32768, 65535) and two
irregular ones. All safety properties of `native_safety` are also proved, without
bounds (section 5).

The run `arithmetic` tries every pair of operands of the smallest si and di words;
the algorithms depend on the lengths of the operands and on the bits next to their ends, which the edge values of the larger widths vary
independently. TLC's integers have 32 bits, so products are limited to that. The
formats have nearly the exponent ranges of the real ones relative
to their significands; single has so few significands that all of them are
tried, double is long enough for the three Newton steps to matter. In `atomic` two
threads suffice for every pair of operations to overlap, in the same object and
in two objects with one lock; the theorems cover the rest. In `emutls` the rounding
of arrays is 3 words with a header of 2, so that the second index makes an array
grow; the code's 16 and 2 are covered by `SlotInArrayTheorem`. `SkipRounds` is 1, as
on Bionic, so that both branches of the destructor are taken; the array is destroyed
in the second round, other destructors bring it back in the second half of that
round, and the third and fourth rounds have to skip and destroy it again. On Linux
the code skips none, which the theorems cover. Two blocks hold two objects of one
thread or one of each; a third use aborts the process.

Deadlock is checked except in `emutls`, where the process may abort or all threads
may have ended, and in `personality`, which ends when the exception is caught or
found uncaught; there `CallsReturn` and `UnwindingEnds` say that nothing stops half-way.

## 4. Fairness

`TaseInterp` is a closed system with one thread: the processor,
the springboard and the host alternate. Weak fairness of the whole next-state
relation says that this thread keeps running. Nothing is assumed of the
transactions: each of them may abort, every time. The run ends because the
interpreter counts injections without progress (`-retryMax`). The driver's
specification has no fairness: it may go round for ever. `ImplementsTargetRun` includes the
fairness of `TargetRun`: some cartridge eventually takes effect.

`Atomic` assumes that a thread that holds a lock keeps running (`Locked(t)`), which
any scheduler of threads provides. It assumes nothing of a thread that waits:
`lock` is a spin lock without a queue and its compare and exchange may fail for
ever, so that only the release of locks (`LocksReleased`) is promised, not that a
call returns. `EmuTls` assumes that a thread inside a call keeps running as long as
the process has not aborted; weak fairness is enough for the mutex because a
variable is given its index once, so that there is contention only finitely often.
`Personality` is sequential.

## 5. Proofs

`PROJECT.json` lists 35 theorems, in eight modules. All but one (`PointerRead`, about an
operator) are of a specification: `Spec => []P`, `Spec => [][A]_vars` or a refinement.
Each holds for every value of the constants that satisfies the named
assumptions of its module, each of which TLC evaluates on the instance it checks.

### Springboard and its two hosts

For every N > 0, batch size, table size up to 253, set of asynchronous causes, retry
bound and counter width (253 because the fall-through must not collide with the 255
of a modeled call). `SpringboardProofs` shows that the springboard's own steps keep

* `SbType`, and `ControlInv`: which values of pc go with an open transaction, and
  where r15 points then;
* `ReferenceInv`: xmm13 holds the poison reference in the registers, in the
  checkpoint and in the context, without which no check means anything;
* `TaintInv`: the accumulator and data registers are non-zero or poisoned exactly
  if the last body run was tainted, so all bodies before it were clean;
* `WorkInv`: what ran in an open transaction is what lies between the place where it
  began and r15, each cartridge once more than before (`Again`), and nothing that was
  run natively is tainted or modeled (`NativeClean`)

(together `SbInv`), whichever host is at the other end, with one lemma per action
(`InvRunBody`, `InvNoClose`, ...); `InjectEffect` and `InjectInv` serve `enter_tase` and
both hosts' injections.

`TaseProofs`, the interpreter as host: `TypeCorrect`; `ExactlyOnceTheorem`,
`NativeIsConcreteTheorem`, `NoSpeculationTheorem`, `RegistersTheorem`,
`AbortedStateTheorem`, `AbortCodeTheorem`, `CommittedIsFinalTheorem`; and `Refinement`,
`Spec => Target!Safety`. None of the properties is inductive; `IInv` adds to `SbInv`

* `RegisterInv`: where the target's rax and flags are at each pc, and that r14 of a
  checkpoint is its rax, which is what makes an abort recoverable;
* `DoneInv`: what lies before the position has run once, what lies behind it not at
  all (`Done`): the interpreter goes on where the target was ejected;
* `CounterInv` and `TriedInv`: `tran_ctr` is the number of headers passed since xbegin
  and below `tran_max`, which ties abort codes and batch sizes to positions.

For the refinement `CommitIsBatch` shows that xend maps to one `NativeBatch`, and
`StepRefines` that every other step is a stutter, an `Interpret` or an `Exit`.

`HarnessProofs`, the driver as host: `DriverNativeIsConcrete`, `DriverNoSpeculation` and
`RoundInOrderTheorem`. `SbInv` is kept by an injection at any cartridge whatever has run
before, and by one that faults; no assumption is made about the popped word.

`AbortsAccountedForTheorem` and `InterpAbortsAccountedFor` have the hypothesis `OneCause`,
which is about the hardware: of its own causes, an abort reports no bit, or one of
conflict and capacity. It is needed: `tase_eject` counts by independent tests of the
status, so an abort with both bits would be counted twice. The proof needs `CountInv`:
a status that waits in eax to be counted falls under one heading (`CountedOnce`). The
sums are taken modulo the width of the counters.

### Atomic

For any threads, objects, sizes, addresses, lock-free sizes, pool size, hash shift
and calls (`ObjectsAssumption`, `CallsAssumption`):

* `MutualExclusionTheorem`: two threads between `lock` and `unlock` of one lock do not
  exist. `LockInv` is inductive: a thread about to try the lock has `old = 0` (the
  reset in the loop of `lock` is what keeps this true), and a holder's lock is 1;
* `IsAtomicTheorem`: `Spec => IsAtomic`, the refinement of `AtomicMemory`. `Inv` adds
  `Shapes` (buffers have the size of their object), `OneWay` (an object is accessed
  by instructions or under its lock, never both) and `CopyInv` (the bytes of the
  object before `k` are those of the value being compared, read or written).
  `AbstractMemFacts` characterises the mapped memory; `Refines` maps every step to a
  call, the performing step, a return or a stutter.

### Emulated thread-local storage

For any threads, controls, sizes, blocks, header and rounding (`ControlsAssumption`,
`BlocksAssumption`, `NoneAssumption`):

* `IndexesUniqueTheorem` and `IndexStaysTheorem`, from `IndexInv`: the mutex has one owner; `num_object` is at
  least every index given; the index about to be given is a fresh one;
* `KeyReadyTheorem`, from `KeyInv`: an index that is not 0, or a thread past
  `pthread_once`, implies that the key was made;
* `SlotInArrayTheorem`, from `SlotInv`: an array is a sequence, the index in use is not
  0 and, past the growth, at most its length; lemmas about `RoundUp` show that the
  rounded size, less the header, has a place for the index;
* `AlignedInsideTheorem`, `ObjectsOwnedTheorem`, `AddressStableTheorem`, from `ObjectInv`:
  what is in a block was made by `emutls_memalign_alloc` (`Objects`); the index a thread
  works with is that of its control (`Indexed`); an object is in its thread's array at
  the index of its control (`Owned`), every address in an array is that of an object of
  the same thread (`Backed`), and an address that a thread was given is still in its
  array (`Handed`).

`Rounds` is why no object outlives its thread: `emutls_key_destructor` puts its array
back `SkipRounds` times, and the destructors of other keys may still use variables
for `OtherRounds` rounds; as long as the sum is below the rounds that pthreads makes
(`RoundsAssumption`), the array is gone when the thread is. `AlignAssumption` (an
alignment below the size of a pointer divides it, as powers of two do) is what puts
the remembered block pointer in front of the object; `DisjointAssumption` is malloc's
promise.

### Processor model

`RuntimeProofs`, for any callers and any answers of cpuid and xgetbv:
`VendorLastTheorem`, `StateSavedTheorem`, `TypesAgreeTheorem`. `ModelInv` says which of the
fields a caller at each of its stores has already written, that a field holds its
initial value or the value of this processor whoever wrote it, and that a vendor
that is not 0 makes the description complete. `StateSaved` rests on lemmas about the
tables (`LeafNames`: which features each leaf can announce), `TypesAgree` on lemmas
about the functions from family and model to type and subtype.

### Integer arithmetic

`RuntimeProofs`, for all operands of any type of si, di and ti words, the real widths
of 32, 64 and 128 bits included, where TLC tries only words of up to 16 bits:

* `TrapIffOverflowTheorem`: the absv, negv, addv, subv and mulv routines abort exactly if
  the exact result does not fit, and return it otherwise; mulo reports exactly then.
  `AddvExact`, `SubvExact`, `NegvExact` and `AbsvExact` are about the tests on signs that the
  code makes before or after the operation wraps, `TooLargeExact` about the division by
  which mulo tests a product in advance, towards zero and for every combination of
  signs, `MulExact` about the three cases it treats apart (the smallest number, small
  factors, the test);
* `WrapsAndOrdersTheorem`, the part of `WordsExact` that has no loop: a double word
  multiplied by the four products of halves is the product modulo its width
  (`MulWideExact`: the carries of the middle products lose nothing; `MulXExact`), negation
  wraps, and the comparison of high words and then of low ones orders the numbers,
  signed (`SignedHigh`) and unsigned (`CmpExact`).

The provers do not compute powers, so that `WidthsAssumption` states what they need of
them (`Powers`: a width's power is twice that of one bit less, and the square of that
of its half), which is arithmetic; TLC evaluates it up to `WidthLimit`.

### Personality

`PersonalityProofs`, for all functions, tables, encodings, header fields and stacks
of frames: `CleanupsRunInOrder`, `WalkStaysInStep` and `WalkAdvances`. It assumes of the
data what the compiler guarantees (`FunctionsAssumption`, `StacksAssumption`: the layout,
values that fit an `int` and their format, code that does not wrap around the address space) and pointers of
64, 32 or, for TLC, 24 bits. The argument goes from the bytes to the frames:

* `ULEBRead` and `PointerRead`: what was written in a format is read back as the same
  value, and the position afterwards is the one behind it, for every value from 0 to
  2^(IntBits-1) - 1 that the format can hold. For uleb128 this is one to five groups
  (`DigitFacts`, `CountFacts`), none of which becomes negative when it is shifted as an
  `int`; for the signed formats, that no sign is extended. Negative values, which no
  field of a call site has, are not covered;
* `HeaderRead`: whatever the fields of lpStart and ttype hold, the position after the
  header is the first entry and the end of the table is the end of the data;
  `EntryRead`: an iteration of the loop reads the fields of entry i and ends at entry
  i+1. `BeginBelowEnd` (every entry begins before the end of the table) takes a least
  counterexample from `WellFoundedInduction`, the induction being over data;
* `UnwindInv` is inductive, with one lemma per action: the walk is at an entry, and
  none of the entries before it asks for a cleanup at the call of this frame
  (`Walking`); the frames left behind since the last cleanup ask for none; a landing
  pad that is about to run is the one wanted. `CleanupsInOrder` alone says nothing of
  a walk half-way through a table, and is not inductive;
* `WalkAdvances` is an action property: a step of the walk that stays in it moves the
  position forward, and never past the end of the table. This is the safety half of
  `UnwindingEnds`.

### Parseltongue

`ParseltongueProofs`, for every listing and cartridge table within
`BinariesAssumption` and every functions file: `WritesBackItsOwnTheorem` and
`CartridgesWholeTheorem`. The invariant `PtInv` has a part per phase:

* parsing (`ParseInv`): what was collected from the lines before `pos` is what the
  selection, defined on the whole text, has there (`Before(pos)`); the function being
  read is that of the one header that opens the line; a springboard function is read
  under its own name and so never mistaken for a duplicate;
* emission (`EmitInv`): what was emitted comes before what is left (`Ordered`), and the
  functions hold it, each instruction once (`Holds`); a closed function holds a whole
  cartridge or one instruction and saved its own registers (`Whole`). If a cartridge is
  open, the last function holds exactly the part of it that was taken, and its last
  instruction is still to come (`Begun`), so that it will be closed.

`CartridgeEnds` takes from `InOneFunction` that the last instruction of a cartridge is
selected if the first is; `CartridgeTaken` is the comparison with `>=` in the loop.

### Only model-checked

Liveness (`RunEnds`, `LocksReleased`, `CallsReturn`, `UnwindingEnds`, the
fairness of `TargetRun`), which the prover does not handle. The translator (`IRAgrees`);
integer division (`DivisionExact`), shifts and bit counts (the rest of `WordsExact`); and
the floating-point routines (`ArithmeticExact`, `ConversionsExact`, `CompositesExact`): their
modules use `Bitwise` and loops as recursive operators, and what a loop computes is an
induction over data, which the prover cannot do.

## 6. Where the code and its comments part

Checked as a violation:

* `springboard.S:70` - a modeled call ejects with rax taken from r14, which no longer
  holds it, and with the flags of `ptest`, although line 214 says that the target
  registers are unmodified there (`modeled_registers`). rax would still be in
  `saved_rax`, which nothing but the springboard reads; the flags are gone. The other
  ejections, those by an abort, keep both (`AbortedStateIntact`);
* `operand.py:338` - a negative value stored to a 2-byte register (also to a 1-byte
  one) takes one from the bytes above it (`partial_store`);
* `instruction.py:607` - the parity flag is inverted (`parity_flag`).

Noted while modelling; the models follow the code:

* `harness.c:25` - precedence: the driver rejects every modeled call, the ejection it
  was written for, with "not from modeled function ejection" (line 26).
* `instruction.py:619` - inc and dec clear the carry, although `set_carry` is
  documented (626) as telling whether the carry is updated. CF is `dead` after them.
* `springboard.S:178` - "should be unreachable" is reached by a poisoned
  cartridge after nine clean ones, since `tran_max` is 16.
* `enter_tase` injects at a header, although `springboard.S:262` asks for a body;
  it works, at the cost of one count of `tran_ctr` (`AbortCodeSound` allows for
  it). The driver's condition accepts the ejections that are no modeled calls, and
  resumes at whatever word is on the target's stack.
* SF after a shift of 2, 4 or 8 bytes is bit 7 (`instruction.py:603`, size1 is the
  size of the amount); a rotate recomputes ZF, SF and PF. These flags are `dead`.
* one-operand imul: upper half, CF and OF of the unsigned product (702); this and the
  next three are the cases of `Divergent`.
* 1- and 2-byte not, movsx, sar, idiv, cwtd, cbtw: the partial store above.
* push and pop of rsp or of operands relative to rsp (980-1002: rsp is changed
  in the wrong order); xchg of a register with memory addressed by it (586-592).
* rotates through carry and double shifts by 0, and rotates by more than their
  width (828-842).
* any line of the disassembly that is not recognised as an instruction ends the
  function, and the instructions after it are dropped (`elffile.py:121`).
* the translator does not handle bsf, bsr, cmpxchg, string instructions, sti, cli
  and loop, and reads the operand of pushf and popf as memory.

In compiler-rt:

* `fp_fixint_impl.inc:31` - "saturate": a positive number just out of range, with
  the exponent of the sign bit, wraps to the smallest integer instead. The
  conversions of 80-bit numbers let an exponent equal to the width through in the
  same way. `ConversionsExact` speaks of numbers in range.
* `divsc3.c` - a finite number over an infinity is zero, except that a sum of the
  parts of the numerator that overflows makes it NaN (`ComplexInfinities`).
* `gcc_personality_v0.c:63` - `readULEB128` shifts in an `int`; values of up to 31 bits,
  which are all a call-site table of a function holds, are unaffected (`PointerRead`).
* `cpu_model.c` - FMA, XOP and FMA4 are reported also when the system does not save
  the AVX state; Alder Lake and Tiger Lake are listed and never recognised; if
  cpuid has no leaf 1, the first call returns -1 and the second 0.

## 7. Not modelled

`sb_open`, `sb_disabled`, `sb_modeled_return`: no header reaches them, and
`tase_modeled_return` is never set in the repository. The build without TSX.
Registers other than rax, the flags, r14, r15 and the three SIMD registers: they
are saved and restored without taking part in any decision. KLEE's constraint
solving and its models of library functions. The text side of parseltongue86:
regular expressions, mnemonic tables, `_fixup_instructions`; the models start
from the fields these leave. The direction flag, which cmp, test and the logical
instructions overwrite. Memory is addressed in 8-byte cells; pushes and pops have
size 8; 8-byte mul and div are left out because their products exceed TLC's
integers; xadd with memory addressed by its own register is left out. In compiler-rt: what buildSF.sh compiles to nothing on x86-64 Linux (the
quad routines are modelled where they share the generic code, `divtf3.c` is not;
`apple_versioning.c`, `os_version_check.c`, assembler builtins, ARM and aarch64 and
Windows variants); memory orders weaker than sequential consistency, which TLA+
interleavings do not express, and so the fences; rounding modes other than to
nearest, which `fp_mode.c` never returns; calls that only reach the system
(`clear_cache.c`, `enable_execute_stack.c`, `trampoline_setup.c`). Scripts, tests, target programs and submodules have no state of their
own to model.

## 8. Plan

Done: 1. `Springboard` and `TaseInterp` with the invariants; 2. `TargetRun` and the
refinement; 3. `TaseProofs`; 4. `Harness`; 5. `X86IR`, `X86`, `InterpFn`;
6. `Parseltongue`; 7. the integer and floating-point routines; 8. `Atomic` and its
refinement of `AtomicMemory`, with proofs; 9. `EmuTls`, with proofs; 10. `Personality`
and `CpuModel`; 11. the theorems about the driver, the abort counters, objects and
addresses in `EmuTls`, `CpuModel` and `Parseltongue`; 12. the theorems about
`Personality`, from the bytes of the tables to the order of the cleanups, and about
the integer arithmetic without loops, at the real widths.

Next, in this order:

1. the rest of the translator: the parsing of mnemonics and `_fixup_instructions`,
   so that sizes and conditions come from the model of the parser; bsf and bsr;
2. bigNum's multi-word addition.
