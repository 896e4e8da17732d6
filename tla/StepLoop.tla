------------------------------ MODULE StepLoop ------------------------------
(***************************************************************************)
(* The emulator's main loop (run_sail in riscv_sim.c) around step(): the   *)
(* instruction counts, the clock that ticks every rv_insns_per_tick        *)
(* instructions, the CLINT timer and software interrupt, WFI, and the      *)
(* counters mcycle and minstret with their inhibit bits.                   *)
(*                                                                         *)
(* One step is one iteration of the loop: a call of step(), the counting,  *)
(* and the tick when it is due.  The 64-bit registers are two halves of    *)
(* HalfRange values each, so that the 4-byte accesses and the wrap of the  *)
(* counters are both there; 2^32 is only HalfRange.                        *)
(***************************************************************************)
EXTENDS Integers

CONSTANTS
  HalfRange,           \* values of half a register (a bound; 2^32 in the code)
  xlen32,              \* is xlen 32
  rv_insns_per_tick,
  InsnLimits           \* the values insn_limit may be given (a bound)

ASSUME LoopAssumption ==
  /\ HalfRange \in Nat \ {0, 1}
  /\ xlen32 \in BOOLEAN
  /\ rv_insns_per_tick \in Nat \ {0}
  /\ InsnLimits \subseteq Nat

Range    == HalfRange * HalfRange
Values   == 0 .. Range - 1
Halves   == 0 .. HalfRange - 1
Bit      == 0 .. 1

VARIABLES
  insn_limit,    \* --inst-limit; 0 is no limit
  hart,          \* the registers below
  expected,      \* ghost: minstret if increments came before explicit writes
  insn_cnt,      \* instructions since the last tick
  total_insns,   \* counted only when there is a limit to compare it with
  htif_done

vars == <<insn_limit, hart, expected, insn_cnt, total_insns, htif_done>>

Hart == [mtime : Values, mtimecmp : Values, mcycle : Values, minstret : Values,
         MTI : Bit, MSI : Bit, CY : Bit, IR : Bit]
-----------------------------------------------------------------------------
(* Registers and their halves. *)

SetLo(v, d) == ((v \div HalfRange) * HalfRange) + d
SetHi(v, d) == (d * HalfRange) + (v % HalfRange)

(* Mutant: the counters do not wrap. *)
Plus1_NoWrap(v) == v + 1

Plus1(v) == (v + 1) % Range

(* Mutant: a pending timer interrupt is never withdrawn. *)
clint_dispatch_Sticky(h) ==
  [h EXCEPT !.MTI = IF h.mtimecmp <= h.mtime THEN 1 ELSE h.MTI]

clint_dispatch(h) == [h EXCEPT !.MTI = IF h.mtimecmp <= h.mtime THEN 1 ELSE 0]

(* Mutant: the tick leaves the timer interrupt as it is. *)
tick_clock_NoDispatch(h) ==
  [h EXCEPT !.mcycle = IF h.CY = 0 THEN Plus1(@) ELSE @, !.mtime = Plus1(@)]

tick_clock(h) ==
  clint_dispatch([h EXCEPT !.mcycle = IF h.CY = 0 THEN Plus1(@) ELSE @,
                           !.mtime = Plus1(@)])

(* The aligned stores clint_store accepts; every one ends in clint_dispatch. *)
StoreMsip(h, d)       == clint_dispatch([h EXCEPT !.MSI = d % 2])
StoreMtimecmp(h, d)   == clint_dispatch([h EXCEPT !.mtimecmp = d])
StoreMtimecmpLo(h, d) == clint_dispatch([h EXCEPT !.mtimecmp = SetLo(@, d)])
StoreMtimecmpHi(h, d) == clint_dispatch([h EXCEPT !.mtimecmp = SetHi(@, d)])
StoreMtime(h, d)      == clint_dispatch([h EXCEPT !.mtime = d])
StoreMtimeLo(h, d)    == clint_dispatch([h EXCEPT !.mtime = SetLo(@, d)])
StoreMtimeHi(h, d)    == clint_dispatch([h EXCEPT !.mtime = SetHi(@, d)])

(* The results a CLINT store of any width and address can leave behind. *)
ClintStores(h) ==
  {StoreMsip(h, d) : d \in Bit}
    \cup {StoreMtimecmp(h, d) : d \in Values} \cup {StoreMtime(h, d) : d \in Values}
    \cup {StoreMtimecmpLo(h, d) : d \in Halves} \cup {StoreMtimecmpHi(h, d) : d \in Halves}
    \cup {StoreMtimeLo(h, d) : d \in Halves} \cup {StoreMtimeHi(h, d) : d \in Halves}

(* Time jumps to the next timer event; the interrupt itself is left to the *)
(* next clint_dispatch.                                                    *)
platform_wfi(h) ==
  IF h.mtime < h.mtimecmp
  THEN [h EXCEPT !.mtime = h.mtimecmp, !.mcycle = h.mtimecmp] ELSE h

(* A write to mcycle or minstret: all of it, or on RV32 one half. *)
Parts    == IF xlen32 THEN {"lo", "hi"} ELSE {"all"}
PartOf(p) == IF p = "all" THEN Values ELSE Halves

CounterWrite(v, p, d) == CASE p = "lo"  -> SetLo(v, d)
                           [] p = "hi"  -> SetHi(v, d)
                           [] p = "all" -> d
-----------------------------------------------------------------------------
(* The loop. *)

Looping == ~htif_done /\ (insn_limit = 0 \/ total_insns < insn_limit)

(* The part of an iteration after a step() that returned true and left the *)
(* registers as h.                                                         *)
Stepped(h, done) ==
  /\ Looping
  /\ insn_cnt' = (insn_cnt + 1) % rv_insns_per_tick
  /\ total_insns' = IF insn_limit = 0 THEN total_insns ELSE total_insns + 1
  /\ hart' = IF insn_cnt + 1 = rv_insns_per_tick THEN tick_clock(h) ELSE h
  /\ htif_done' = done
  /\ UNCHANGED insn_limit

(* minstret_increment as step() latches it at its head. *)
minstret_increment == hart.IR = 0

(* Mutant: the inhibit bit is read when the instruction retires. *)
retire_instruction_Late(h) ==
  IF h.IR = 0 THEN [h EXCEPT !.minstret = Plus1(@)] ELSE h

retire_instruction(h) ==
  IF minstret_increment THEN [h EXCEPT !.minstret = Plus1(@)] ELSE h

(* The ghost counter at the head of an instruction that will retire. *)
Incremented == IF hart.IR = 0 THEN Plus1(expected) ELSE expected

(* An instruction that retires and leaves the registers as h. *)
Retires(h, done) == Stepped(retire_instruction(h), done) /\ expected' = Incremented

Compute  == Retires(hart, FALSE)
HtifExit == Retires(hart, TRUE)
Wfi      == Retires(platform_wfi(hart), FALSE)

ClintStore == \E h \in ClintStores(hart) : Retires(h, FALSE)

WriteMcycle ==
  \E p \in Parts : \E d \in PartOf(p) :
    Retires([hart EXCEPT !.mcycle = CounterWrite(@, p, d)], FALSE)

(* legalize_mcountinhibit keeps CY and IR. *)
WriteMcountinhibit ==
  \E cy, ir \in Bit : Retires([hart EXCEPT !.CY = cy, !.IR = ir], FALSE)

(* The write clears minstret_increment: retiring adds nothing.  The ghost  *)
(* counter is incremented first and written then.                          *)
WriteMinstret ==
  \E p \in Parts : \E d \in PartOf(p) :
    /\ Stepped([hart EXCEPT !.minstret = CounterWrite(@, p, d)], FALSE)
    /\ expected' = CounterWrite(Incremented, p, d)

(* RETIRE_FAIL of an instruction that was executed: it traps. *)
Traps == Stepped(hart, FALSE) /\ UNCHANGED expected

(* step() returns false: an interrupt was taken or the fetch faulted. *)
NotStepped == Looping /\ UNCHANGED vars

(* A hart that init_model has reset; it does not set mtimecmp. *)
ResetHarts ==
  {[mtime |-> 0, mtimecmp |-> c, mcycle |-> 0, minstret |-> 0,
    MTI |-> 0, MSI |-> 0, CY |-> 0, IR |-> 0] : c \in Values}

Init ==
  /\ insn_limit \in InsnLimits
  /\ hart \in ResetHarts
  /\ expected = 0
  /\ insn_cnt = 0 /\ total_insns = 0 /\ htif_done = FALSE

Executes ==
  \/ Compute \/ HtifExit \/ Wfi \/ ClintStore
  \/ WriteMcycle \/ WriteMcountinhibit \/ WriteMinstret \/ Traps

Next == Executes \/ NotStepped

Spec == Init /\ [][Next]_vars
-----------------------------------------------------------------------------
TypeOK ==
  /\ insn_limit \in InsnLimits
  /\ hart \in Hart
  /\ expected \in Values
  /\ insn_cnt \in 0 .. rv_insns_per_tick - 1
  /\ total_insns \in 0 .. insn_limit
  /\ htif_done \in BOOLEAN

(* No timer interrupt is pending before its time: whatever is stored to    *)
(* mtime or mtimecmp, in whichever halves, withdraws a stale MTI.          *)
TimerSound == hart.MTI = 1 => hart.mtimecmp <= hart.mtime

(* The timer is never overdue: MTI can be missing only while mtime is      *)
(* exactly mtimecmp (just after WFI or reset), never once time moved on.   *)
TimerNotOverdue ==
  (hart.MTI = 0 /\ hart.mtimecmp <= hart.mtime) => hart.mtime = hart.mtimecmp

(* minstret counts as if each instruction were counted before it executes  *)
(* (the comment on minstret), although the loop counts it afterwards.      *)
InstretAsSpecified == hart.minstret = expected
=============================================================================
