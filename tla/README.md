# TLA+ models of the Sail RISC-V emulator

This directory holds TLA+ specifications of the stateful parts of the RISC-V
model in `src/model` (Sail) and of the C emulator around it in
`src/c_emulator`, the TLC configurations that check them on small instances,
and TLAPS proofs of the central invariants. `PROJECT.json` maps every
definition to the lines it models and lists the runs, the mutants that each
property catches, the hazards the properties are aimed at, and the theorems.

## 1. Inventory

The program is a simulator of one hart. `riscv_sim.c` loads an image,
initialises the model and loops: one call of `step()` per iteration, a tick of
the clock every `rv_insns_per_tick` instructions. `step()` dispatches a pending
interrupt or fetches, decodes and executes one instruction; `tick_pc()` commits
`nextPC`. Execution reads and writes registers, CSRs and memory; memory accesses
pass translation, PMP and PMA checks and go to RAM, CLINT or HTIF. Loads,
stores and fetches are also reported to a cache simulator.

| Component | State | Operations | Interacts with | What makes it correct |
|---|---|---|---|---|
| Privileged control (`riscv_sys_control`, `riscv_sys_regs`, `riscv_sys_exceptions`, `riscv_step`) | privilege, mstatus, misa, xepc, xtvec, mip, mie, xdeleg, PC | trap, interrupt dispatch, MRET, SRET, CSR writes | every instruction; mip is set by the CLINT | registers legal, MPRV clear below M, PC aligned, interrupts at the right level, returns restore what traps saved, S cannot touch M state |
| Main loop, clock, CLINT (`riscv_sim.c`, `riscv_platform`, `riscv_zicntr_control`) | mtime, mtimecmp, mcycle, minstret, inhibit bits, loop counters | iteration, tick, CLINT stores, WFI, counter writes | raises MTI and MSI in mip | the timer is neither early nor overdue and fires; minstret counts as specified |
| HTIF (`riscv_platform`) | tohost, command bit, payload counter, done, exit code | stores of 8, 4+4 and fewer bytes | ends the main loop | complete commands are executed, incomplete ones are not |
| PMP (`riscv_pmp_*`) | 64 pmpcfg, 64 pmpaddr | CSR writes, the check of each access | memory access, page-table walk | the check is what the regions say; locks hold |
| Virtual memory (`riscv_vmem*`) | page tables in memory, TLB, satp | translation, A/D update, SFENCE.VMA, satp write | PMP (through PTE reads and writes) | the TLB is transparent to software that fences, dirty pages are marked |
| Cache simulator (`c_emulator/Cache`) | tags and counters of ic, dc, l2 | access from fetch, load, store | called before the memory access | no line twice, no store lost, statistics agree |
| Memory access and PMA (`riscv_mem`) | none of its own | read, write, effective address | all of the above | checks in order, each access routed to one device |
| LR/SC, AMO (`riscv_insts_aext`, `riscv_platform.c`) | reservation | LR, SC, AMO | memory access | an SC succeeds only on the reservation of its LR |
| Extension context (`riscv_fdext_*`, `riscv_sys_regs`) | FS, VS, SD | state made dirty by writes | mstatus | nothing is lost that is saved only when dirty; SD hides no dirty field |
| Floating point (`riscv_insts_fext`, `_dext`, `_zfh`, `riscv_softfloat.c`) | fcsr, registers, result and flag registers of the wrappers | one instruction, CSR writes | SoftFloat, mstatus | the IEEE result in rd and its flags in fflags |
| SoftFloat (`c_emulator/SoftFloat-3e`) | rounding mode, flags and rounding precision, all global | about 250 functions on five formats | called by the wrappers | the exact result, rounded once |
| Start-up (`riscv_sim.c`, `riscv_platform_impl.c`) | settings, symbols, memory | options, logs, ELF files, initialisation | sets up everything else | the model runs only with settings it accepts |
| RVFI-DII server (`riscv_sim.c`, `rvfi_dii`) | packet registers, trace version, socket | instruction, end of trace, version commands | replaces fetch; resets the model | one answer per command, in order, about a machine that is new in every trace |
| Tandem with Spike (`riscv_sim.c`) | Spike's settings and state | step, compare | runs beside the main loop | status 0 means agreement |
| Vector unit (`riscv_insts_vext_*`) | vtype, vl, vstart, registers | configuration, masked element loops | memory access | tail and mask policy, restart from vstart |
| M, B, K instructions | registers | functions of register values | | agreement with a reference definition |
| Prover exports, tests, OS images | | generated code, inputs | | out of scope |

The hart is sequential, so there are no data races; the only concurrency is with
Spike and with the client of the RVFI socket. What is hard here is long
sequences of legal operations over state that several instructions share
(mstatus stacking, locks, the TLB against page tables in memory, the HTIF
counter), registers that are written in parts, values that are latched before an
instruction executes and used after it, globals that
outlive what they belong to (the library's mode and flags, the RVFI registers,
the reservation), and the boundaries of fixed-width arithmetic. The hazards in `PROJECT.json` name the line where each bites.

## 2. Modules

| Module | Models | State |
|---|---|---|
| `SysControl` | privileged control; one step is one call of `step()` | `cur_privilege`, `mstatus` (nine fields), `misaC`, `PC`, `mepc`, `sepc`, `mtvec`, `stvec`, `mip`, `mie`, `mideleg`, `medeleg` |
| `TrapFrames` | `SysControl` with a history of interrupted contexts | `frame` per level |
| `StepLoop` | one iteration of `run_sail`, CLINT, WFI, counters | `hart` (registers), `insn_limit`, `insn_cnt`, `total_insns`, `htif_done`, ghost `expected` |
| `Options` | the command line, as operators on a record of settings | |
| `MemOps` | memory, LR/SC and what an instruction records for RVFI, as operators | |
| `Emulator` | the process: start-up, main loop, Spike, signature, RVFI-DII server and its client; composes `StepLoop`, `Options` and `MemOps` | `cmdline`, `config`, `phase`, `status`, `tohost`, `region`, `mach`, `signature`, `spike`, `packet`, `rvfi_trace_version`, `socket`, `client`, ghost `agreed` |
| `Htif` | one store to `tohost` | the port, `htif_done`, exit code, history `since` of what the program stored |
| `Pmp` | CSR writes; `pmpCheck` is an operator | `pmpcfg_n`, `pmpaddr_n`, `sys_pmp_grain` |
| `VMem` | translation, SFENCE.VMA, satp, software editing PTEs | `ptes`, `tlb`, `asid`, `internal_error`, ghosts `unfenced`, `written` |
| `CacheSim` | tags of ic, dc, l2 | `hier`, with ghost freshness of each copy |
| `CacheStats` | `CacheSim` with the counters of `print_stats` | `stats` |
| `SoftFloat`, `SoftFloatOps` | the algorithms the interchange formats of SoftFloat share, as operators | |
| `SoftFloatApi` | every function of half, single and double precision, under its name | |
| `SoftFloatWide`, `SoftFloatExt`, `SoftFloatWords` | quadruple and extended precision; integers of several words | |
| `SoftFloatArrays` | the functions on arrays of words, for builds without fast 64-bit integers | |
| `FloatRef` | the reference: exact values of operands, one rounding | |
| `FloatUnit` | floating-point instructions over the C wrappers over `SoftFloatApi` | the library's globals, `float_result`, `float_fflags`, `frm`, `fflags`, `FS`, `VS`, `SD`, `fd`, `xd`, `trap`, ghost `saved` |
| `FloatSpec` | abstract specification of the same instructions | `frm`, `fflags`, `insn`, `rd` |
| `SoftFloatCalls` | `FloatUnit` with direct calls of the library between instructions | `ret` |
| `SoftFloatMem` | callers of the functions on pointers | the globals, `m128`, `m80`, `ret` |
| `MC*` | values of the constants for TLC | |
| `SysControlProofs`, `PmpProofs`, `HtifProofs`, `CacheProofs`, `VMemProofs`, `FloatProofs`, `WordProofs`, `EmulatorProofs` | theorems | |

How the state corresponds to the code:

* `SysControl`. An address is a word number and a halfword bit, over a code
  space of `NWords` words that wraps. A set of interrupt lines stands for mip,
  mie and mideleg. An action is an instruction class: `Retire`, `Jump`,
  `Ecall`, `Mret`, a CSR write, a fault; each computes the `nextPC` that
  `tick_pc` commits. When an interrupt is pending and dispatched, no other
  instruction can execute (`Fetching`). Faults of memory and decoding are
  chosen from `Faults`, since what raises them is in other components.
* `StepLoop`. A 64-bit register is two halves of `HalfRange` values. `Stepped`
  is the loop's bookkeeping after a step that returned true, and
  `retire_instruction` uses the inhibit bit as it was at the head of the
  instruction, as the latch `minstret_increment` does. `mtimecmp` starts
  anywhere, since `init_model` does not set it.
* `Emulator`. A step is one option, one phase of `main`, one iteration of the
  loop or a step of the client. A build is one of "plain", "rvfi" and "spike".
  An ELF file is a record of its width, its symbols and the bytes it puts in
  memory; a program keeps either to the clock and the counters (`ClockStep`,
  all of `StepLoop`) or to memory (`MemoryStep`). Spike is a free choice of
  its settings, of when it ends and of the part of its state that differs.
  `compare_states` looks at the privilege, PC, integer registers, mstatus and
  the trap registers of both levels; a difference in a floating-point register
  or in memory goes unnoticed, and `ZeroMeansAgreed` does not claim otherwise. In RVFI mode the client sends
  commands while earlier replies are still on their way, keeps the machine it
  expects, and waits for `client.want`; `RepliesMatch` compares that with what
  the server wrote. A read or write that fails ends the server at any command.
* `MemOps`. One-byte accesses to RAM, address 0 outside of it. `Result.present`
  are the presence flags of `rvfi_wX`, `rvfi_read` and `rvfi_write`.
* `SoftFloat*`. A value is its bit pattern, and a format a record of widths: the
  constants the code writes in hexadecimal are expressions in the widths, so
  one definition stands for the same function of several formats, and TLC can
  check it on formats of 6 to 17 bits. `FormatOK` and the named assumptions say
  what a small format must keep of the real ones. The rounding mode is a
  parameter and the flags part of the result; the modules with state put them
  back into the library's globals. Of the table-driven approximations of
  reciprocals the model keeps the error: `err` is any error that the correction
  in the code is written for. `SoftFloatArrays` has the arithmetic, shifts and
  comparisons on arrays of words; `WordsAgree` compares them, like the ones on
  two words, with the integers the words stand for.
* `FloatUnit`. `Extern` is one wrapper (prelude, call, postlude), `execute` an
  instruction around it: unboxing, choice of the rounding mode, accrual of
  flags, boxing, dirty marking. Decoding is a step of its own, so that TLC can
  enumerate operands instruction by instruction; nothing happens between the
  two steps.
* `Htif`. `Doubleword`, `LowWord`, `HighWord` and `Narrow` are the branches of
  `htif_store` on width and address; `Finish` is the rest of the function. The
  command number only selects what the terminal prints and is left out. `since`
  records which halves the program stored, with which values, how often in a
  row the same payload and how many stores in all, since the port was last
  empty; the properties judge the device by it and not by its own command bit
  and counter. A byte or halfword, which the code does not support, spoils the
  record until the port is empty again.
* `Pmp`. Widths of registers are parameters: `PmpaddrBits` = `XlenBits` is
  RV32. `NapotRange` is the code's mask trick in xlen bits, `NapotWords` the
  reference it is compared with. The grain is chosen at start-up.
* `VMem`. Two levels with `TableSize` entries per table (Sv32 with small
  tables); page offsets take no part. Software obeys the SFENCE.VMA contract:
  it does not use a translation it has changed until it has fenced it, and
  what it maps global is the same everywhere. That software could otherwise
  see stale translations is architecture, not a fault of the code.
* `CacheSim`. A cache entry's valid and dirty bits and line number are a
  record; the way taken from the LFSR is any way. The simulator keeps no data,
  so freshness is a ghost that says whether the copy a real hierarchy would
  hold at that level is the newest.

## 3. Runs

| Run | Instance | What it shows |
|---|---|---|
| `sys_traps` | 1 word of code (an aligned and a halfword address), C writable, a machine and a supervisor line, mstatus writes that set the stack fields together and MPRV, TSR and TW together, with any MPP, enables and delegations written whole or not at all (sie writes, masked by mideleg, reach the rest), a history of interrupted contexts | over all orders of traps, returns, interrupts and CSR writes: registers legal, MPRV clear below M, PC aligned, dispatch at the right level, machine interrupts not maskable by S, machine state out of reach of S and U, only xRETs lower the privilege, and a return restores what the matching trap saved |
| `emulator` | 101 command lines over the three builds, halves of 2 values, a tick every 3 instructions, 3 bytes of RAM, 3 RVFI commands with 2 in flight | the timer is sound, never overdue and fires, minstret counts as the comment in `riscv_sys_regs.sail` asks (xlen 64); the model runs only with legal settings; status 0 in tandem means agreement; the signature is the memory the program left; replies match commands, and every command is read |
| `emulator_reservation` | RVFI with LR and SC only | *violated*: `RepliesMatch`, an SC after the end of a trace succeeds on the LR before it |
| `htif_port` | three devices, payloads of 4 x 2 values, the real 4-bit counter | the counter counts repetitions; a command the program gave in full is served if the counter has not made a full turn, and only such a command stops the machine, with its own exit code |
| `htif_exit` | same | *violated*: the sixteenth store wraps the counter and an exit is ignored |
| `pmp_check` | 2 entries, 3-bit addresses, grains 0 to 2, every mode and lock | each access is decided as the regions say; a locked entry keeps permissions and range; a locked prefix decides for ever |
| `pmp_napot_rv32` | xlen as wide as pmpaddr | *violated*: the largest NAPOT regions wrap to nothing |
| `vmem_tlb` | 2 address spaces, a superpage that may be split, a shared table with a page that may be global, 2 TLB slots | the TLB gives what the walk gives, writes mark pages dirty |
| `vmem_readonly` | a table page that PMP makes read-only | *violated*: `internal_error` on a write-back that fails |
| `cache_sim` | 3 lines, dc of two sets, ic of one line, l2 of one set and two ways, 6 accesses | no duplicates, no lost store, statistics agree |
| `float_core` | formats of 6, 11 and 16 bits, integers of 10 and 15; all operands of unary operations, the boundary operands of the others, every rounding mode | `FloatUnit` implements `FloatSpec`; direct calls (remainder, truncation, round to odd, internal functions) are exact; the saved context is never stale and SD hides nothing |
| `float_wide` | a quadruple format of 17 bits in words of 7, an extended one of 13, words of 4 bits for the integers, shifts of up to 18 bits (`LongestShift`), beyond four words | quadruple and extended results are the exact ones rounded once; multi-word integers behave as integers |

Why the bounds are enough. Privileged control depends on code addresses only
through alignment and equality: one word gives an aligned and a misaligned
address and a wrap. Two lines, one for each class, show every case
of masking and delegation; the order between lines of one class is a fixed
priority. Halves of two values let a carry, a wrap and each mixed value of two
partial stores occur. Two PMP entries are what a decision involves: an entry and
the one before it (priority and TOR base). Two TLB slots with four pages make
a superpage occupy both slots, and evictions happen. Three lines are more than
each cache set holds, so a write-back can evict the line about to be filled.
Three RVFI commands with two in flight are a trace, its end and the first
command of the next one, and a version change behind an instruction that is not
yet answered. The command lines give every option at least once, every check
of an option a value on both sides, and the options that touch one setting in
all pairs. The small floating-point formats keep every inequality between
widths that the algorithms rely on, and the operand sets hold zero, the
subnormals, one, the largest numbers, infinities, quiet and signaling NaNs and
the values next to each rounding boundary. `FloatUnit` runs one instruction of
every kind with all operands, and then further instructions after a few
of them (`Follows`), enough to find globals that are left over.

Every property has a mutant of the code (dropped guard, wrong mask, missing
reset) under which TLC finds it violated in the same configuration.

**Refinement.** `FloatSpec` is what the manual promises a program: the IEEE value
of the operands in the mode the instruction or `frm` names, and its exceptions
added to `fflags`. It knows no library, boxes, globals or mstatus.
`ImplementsIeee` in `FloatUnit` instantiates it with the unboxed operands and
result (`INSTANCE FloatSpec WITH ...`), and TLC checks it as a property of
`SoftFloatCalls`, where direct calls disturb the globals between instructions.

**Fairness.** `ESpec` assumes weak fairness of `Progress`: the process goes on from
phase to phase, executes an instruction when it can, and reads a command that is
in the socket. `main` and `run_sail` are straight loops that never wait for
anything but the socket, which justifies it. It excludes a hart whose every
fetch faults or that only takes interrupts (`IterateNotStepped` is not part of
`Progress`); in those behaviours the code counts no instruction and the clock
stands still. Nothing is assumed of the client, of the network or of Spike.
`TimerFires` and `CommandsServed` are checked under it.

**Deadlock** is allowed where the system stops by itself (the machine exits
through HTIF, `internal_error`, an exit of the emulator) or by a bound
(`MaxAccesses`, `MaxCommands`, `Follows`).

## 4. Proofs

The theorems hold for every value of the constants that satisfies the named
assumptions of the modules, which TLC evaluates in every run. A theorem that
needs more says so in an `ASSUME` of its own. The proof of an invariant shows
that an inductive invariant holds initially and is kept by each action, one
lemma per action or group of actions, and then that it implies the property.

* `SysControlProofs`. `Inv` is `TypeOK`, `MPRVOnlyInMachine` and `PCAligned`;
  types are needed since MPRV is cleared by comparing MPP, which must be a real
  level. PC alignment needs no conjunct on `mepc` and `sepc`: they may be
  misaligned and are masked when used (`pc_alignment_mask`). `Inv` also
  gives `DispatchLegal`, `MachineInterruptsUnmaskable` and the action
  properties `PrivilegeDropsOnlyByXret` and `MachineStateIsolated`. For
  `TrapFrames`, `FInv` adds `FrameHeld`; `ReturnRestoresContext` then follows
  from the definitions of the returns. That a held PC is aligned while C is
  clear comes from `PCAligned` at the trap, and is why the mask of the return
  does not change it.
* `PmpProofs`. Types; then, for every grain, that a locked entry keeps its
  configuration and its range, because TOR locks the address before it. With a
  grain the lower bound also depends on the mode of the entry before, which
  need not be locked, so `LockedEntryFrozen` speaks of the range only while that
  mode is kept (`LowerBoundKept`). What needs no such condition is
  `PmpLockedPrefix`: if all entries up to the one that decides are
  locked, the decision never changes. `DecidesIsCheck` ties the formulation of
  the property to `pmpCheck`. `PmpCheckSpecified` proves `CheckIsSpecified` for
  any number of entries: byte ranges against word ranges, empty TOR ranges,
  partial matches and priority. It rests on `RegisterArithmetic`, about one
  address register by itself: its NAPOT mask gives the words it names, and
  reads with a grain stay in range. `RegisterExact` proves that from
  `SpareBits`, two bits to spare above an address (54 of 64 on RV64) and no
  grain beyond the address space: with z the position of the last zero,
  `a ^ (a + 1)` is z + 1 ones (`SuccessorBits`, `MaskIsOnes`), `a & ~mask` cuts
  them off (`LowIsTruncated`), and no sum leaves the register. The only fact
  about powers taken as an assumption is `PowerLaw`, 2^(n + 1) = 2 * 2^n, which
  TLC evaluates. Where xlen leaves no bit to spare, as on RV32, the hypothesis
  fails, and `pmp_napot_rv32` shows the check wrong.
* `HtifProofs`. `HInv` is the types, the two parts of `CommandsAsGiven` and
  `Remembered`, what the registers remember of the history: the register is the
  last halves stored, the command bit is the control half, without it the
  counter is the number of equal payloads, and before a full turn the counter
  is not zero. None of the properties is inductive without it. `GivenIsComplete`
  and `ExitIsGiven` are the two directions: a command the program gave passes
  the code's test, and an exit that passes it was given, because an empty port
  holds no exit. `HtifExitHalts` is the exact
  counterpart of the violated run: an exit request stops the machine unless the
  counter is at its last value.
* `CacheProofs`. `HierInv` says of one hierarchy that tags are well formed and
  unique, that clean lines are backed and that loads find the newest data; the
  three safety properties need one another. The proof follows an access through
  its halves (evict from dc, write back to l2, fill from l2), with the line in
  flight exempt in between. `StatsInv` relates the counters to the number of
  dirty entries; the cardinalities are handled with `FiniteSetTheorems`.
* `VMemProofs`. `VInv` is the types, the agreement of global mappings,
  `DirtyRecorded` and `TlbSound`: an entry that software may rely on equals the
  leaf in memory up to A and D bits, which an entry may lack and memory
  have, and never the reverse; in a table that cannot be written it equals the
  leaf exactly. It was checked by TLC on `VMem` with writable and
  with read-only tables and without dirty update before it was proved.
  `VMemTypeCorrect` and `VMemDirtyRecorded` need nothing further.
  `VMemTransparentButForError` holds for any read-only tables: a hit gives what
  the walk gives, or stops in `internal_error` where the walk gives `PTW_Access`,
  so what `vmem_readonly` shows is the only disagreement. With
  `ReadOnlyTables = {}` it becomes `VMemTransparent`. That initially global mappings
  are the same everywhere (`GlobalsAssumption`) is the part of the contract
  that software has to keep.
* `FloatProofs`. `ContextSaved` and `DirtyIsSummarized` are inductive together,
  over any instructions, any formats and any direct calls of the library.
  `FloatRefinement` shows that `FloatUnit` with direct calls implements
  `FloatSpec`, step by step, through the refinement mapping of
  `ImplementsIeee`. Its hypothesis `LibraryExact` says of each library function
  by itself that it returns the exact result rounded once, with its flags. The
  theorem is about all that lies around the calls: the mode an instruction
  selects, unboxing, what earlier calls left in the globals, the flag and result
  registers of the wrappers, boxing, accrual, and traps that must change
  nothing. `FetchInv` says what a decoded instruction may hold when it executes.
  TLC found `LibraryExact` true on the formats of `float_core`, and
  `CallsAreExact` checks the same functions there.
* `WordProofs`. `WordsExact` proves `WordsAgree` for words of any width, any
  operands and any distance up to `LongestShift`. A loop over words is followed
  digit by digit: a step takes a word of each operand and a carry, and leaves a
  word of the result and the next carry (`Carried`, `Borrowed`, `CarriedOut`);
  `Summed` puts the digits together to one equation between numbers, from which
  `ValueIs` reads the result, since it is below its modulus. A shifted word is
  the sum of the part that stays and the part that moves on (`LeftParts`,
  `RightParts`), and the sticky bit is set exactly when the remainder of the
  division is not zero (`RightShifted`, `JamValue`, `SpillBits`). Products are
  put together from partial products; what a row of `mul128MTo256M` carries out
  fits one word (`TopWord`), which is why the code need not go on. The inductive
  invariant `WordInv` adds that what the caller holds was stored for its job.
  The proof uses `WordAssumption` (a word has an even number of bits, and
  `LongestShift` covers four words), `StoredAssumption` (what is stored are
  words) and `ShiftPowers` (2^(n+1) = 2 * 2^n, a law of powers the provers do
  not know).
* `EmulatorProofs`. For the main loop, `LoopInv` is `TypeOK`, the relation of MTI
  to the timer (`TimerOK`: pending only when expired, and missing when expired
  only at equality) and, on RV64, `minstret = expected`. `TimerOK` is established
  by `clint_dispatch` whatever came before, kept by steps that leave the timer
  alone, and kept by WFI because it only moves `mtime` up to equality. Each
  property of the process has its own invariant:
  `AgreedInv` (a disagreement has already decided the status), `ProcessInv`
  (`LoopInv` through options, the loop and the resets between RVFI traces),
  `ConfigInv` (how far the start-up has come in each phase), `RegionInv`.
  `EmulatorSignature` is about any granularity and region, a last word that is
  not whole included. `EmulatorReplies` has the invariant `RepliesInv`: there is
  a chain of machines and trace versions along the commands still in the socket
  that begins at the server's machine, ends at the one the client expects, and
  whose replies are those the client waits for. Its hypothesis
  `SessionsStartFresh` excludes LR, since `emulator_reservation` refutes the
  property with it, and files preloaded into an RVFI session, which the first
  reset would remove.

Only model-checked:

* liveness (`TimerFires`, `CommandsServed`), which the provers do not handle;
* the exactness of the functions of SoftFloat (`CallsAreExact`, `WideIsExact`,
  `ExtIsExact`, and with them the hypothesis `LibraryExact`): the reference
  looks for square roots, quotients and leading bits by maxima over sets, and
  what those are for every operand needs induction over data.

`InstretAsSpecified` is proved for RV64 only, since it is false on RV32
(section 5).

## 5. Where code and comments disagree

Four disagreements have a run: the wrap of the HTIF counter, the NAPOT overflow
on RV32, `internal_error` in `translate_TLB_hit`, and the reservation that
survives `reinit_sail`. Others were met
while modelling:

* `platform_wfi` does not call `clint_dispatch`, so the timer fires at the next
  tick or CLINT store rather than "at the next instruction"
  (`riscv_platform.sail:469`); it also moves `mcycle` when `mcountinhibit.CY`
  is set. `TimerNotOverdue` is the bound that does hold.
* On RV32, writing one half of `minstret` drops the increment of that
  instruction for the other half too, which the comment at
  `riscv_sys_regs.sail:530` excludes.
* `reset_htif` is not called for device 0 and unknown devices, although "once a
  htif command has been processed, the port is reset"
  (`riscv_platform.sail:308`). The command bit stays set, so after such a command
  a single half is executed at once, with the other half of the command before.
  `CommandsAsGiven` counts from the last time the port was empty for this reason.
* `is_CSR_defined` for pmpcfg compares the register number, not the entries it
  holds, with the count of entries (`riscv_pmp_regs.sail:234`).
* The reservation is not cancelled on privilege transitions, although the
  comment at `riscv_sys_control.sail:75` says that it is.
* `rvfi_order` is the value of `minstret` before the instruction
  (`riscv_fetch_rvfi.sail:10`), which a trapping instruction does not advance,
  although no index "must be used twice" (`rvfi_dii.sail:74`).
* The category `all` of the trace options leaves out `step`; a granularity of 0
  makes `write_signature` loop for ever; a Sail exception and a failure reported
  through HTIF both end the emulator with status 0; `fopen` is compared with
  `< 0`, so a trace log that cannot be created is not noticed.
* Hazards without a property, since no comment or test says what is right: a
  store of the high half of `tohost` is complete by itself and is executed with
  the previous low half (`riscv_platform.sail:357`), so a terminal command stored
  high half first is executed without its payload, which stays in the port; a
  TLB hit writes the whole cached PTE back, undoing an edit that was not fenced (`riscv_vmem.sail:325`);
  `dc_write` is called before the store is checked (`riscv_insts_base.sail:399`);
  `ram_size << 20` may overflow to 0 (`riscv_sim.c:373`); the speed report
  divides by an interval that may be 0 (`riscv_sim.c:1049`).

## 6. Not modelled

* Vector instructions, integer multiplication, bit manipulation and
  cryptography: functions of register values whose content is the expression in
  the Sail code; a model would restate it.
* Of floating point: FMIN, FMAX, FSGNJ, FCLASS, FLI, moves, loads and stores
  (no library call), Zfinx, the contents of the approximation tables, the NaN propagation of
  extended precision (declared but not defined in the RISCV specialization),
  the floating-point functions of builds without fast 64-bit integers above
  their arithmetic on words, other specializations, and the modes of
  `softfloat_mulAdd` that no caller uses.
* Of memory: AMOs, the width and alignment of accesses, and the order of
  translation, PMP and PMA checks in one access; each check by itself is in
  `VMem` and `Pmp`. The cache simulator is modelled without the access behind it.
* Of the privileged state: MXR, SUM, TVM, envcfg, counter enables, the N
  extension, the performance monitor, and the contents of xcause and xtval.
* Of the process: what ELF parsing does to bytes, the contents of the reset
  vector, printing of traces and times, a trace log that cannot be created,
  coverage builds, and Spike's clock and internals.
* Prover exports, tests and OS images.
